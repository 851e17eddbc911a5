------------------------- MODULE ProcessScanProofs -------------------------
(***************************************************************************)
(* Theorems of ProcessScan, for every address space, set of images, number *)
(* of changes of the target and evidence cap.                              *)
(***************************************************************************)
EXTENDS ProcessScan, SequenceTheorems, WellFoundedInduction, TLAPS

(***************************************************************************)
(* The inductive invariants.                                               *)
(***************************************************************************)
InRegion == pc \in {"resolve", "probe", "layout", "private", "judge"}

\* The region at hand lies just below p, and every finding below the region.
WalkInv ==
  /\ InRegion \/ pc = "evidence" => mbi.base + mbi.size = p
  /\ \A i \in DOMAIN out : out[i].base + out[i].size <= IF InRegion THEN mbi.base ELSE p

\* The imports of private memory are read only after the probe found a PE there.
HeaderInv ==
  /\ pc \in {"resolve", "probe", "private"} => layout = NoLayout
  /\ pc = "layout" => mbi.type = "IMAGE"
  /\ pc = "private" => ContainsMzPe(head)
  /\ pc = "judge" /\ mbi.type = "PRIVATE" => layout = NoLayout \/ ContainsMzPe(head)

\* The counter is the number of attempts, and an attempt is due for the last finding.
CountInv == pc = "evidence" => evidence_count < EvidenceCap
BudgetInv ==
  /\ evidence_count = Len(evidence)
  /\ pc = "evidence" => /\ Len(out) \in 1..EvidenceCap
                        /\ out[Len(out)].base = mbi.base

\* The path that was asked for is that of the page, while nobody touches it, and so
\* is the path of a finding, which says what the two names in it say.
PathInv ==
  /\ alive \/ touched = Pages
  /\ modules_known \/ modules = NoModules
  /\ pc \in {"probe", "layout", "private", "judge"} =>
       mbi.base \in touched \/ mapped = MappedPath(mem, mbi.base)
  /\ \A i \in DOMAIN out :
       LET f == out[i] IN
       /\ f.base \in touched \/ f.mapped_path = MappedPath(mem, f.base)
       /\ f.is_pe /\ f.module_path # NoName /\ f.mapped_path # NoName =>
            ("ModulePathMismatch" \in f.reasons)
              = (NormalizePath(f.mapped_path) # NormalizePath(f.module_path))


(***************************************************************************)
(* Type correctness.                                                       *)
(***************************************************************************)
LEMMA MinOfNaturals ==
  ASSUME NEW S \in SUBSET Nat, S # {}
  PROVE  Min(S) \in S
<1> DEFINE R == {ss \in Nat \X Nat : ss[1] < ss[2]}
<1>0. IsWellFoundedOn(R, Nat)
  BY NatLessThanWellFounded DEF OpToRel
<1>1. PICK x \in S : \A y \in S : <<y, x>> \notin R
  <2> HIDE DEF R
  <2> QED BY <1>0, WFMin
<1>2. ASSUME NEW y \in S PROVE x <= y
  <2>1. x \in Nat /\ y \in Nat /\ <<y, x>> \notin R
    BY <1>1
  <2> QED BY <2>1
<1> QED BY <1>2 DEF Min

LEMMA SectionNameType ==
  ASSUME NEW layout_ \in Layouts, NEW rva
  PROVE  SectionName(layout_, rva) \in SectionNames \cup {NoSection}
<1>1. CASE Covering(layout_, rva) = {}
  BY <1>1 DEF SectionName
<1>2. CASE Covering(layout_, rva) # {}
  <2> DEFINE table == Pe[layout_.head].table
  <2>1. LayoutValid(layout_) /\ layout_.head \in Contents
    BY <1>2 DEF Covering, LayoutValid, ContainsMzPe, Layouts
  <2>2. table \in Seq(Section) /\ DOMAIN table = 1..Len(table) /\ Len(table) \in Nat
    BY <2>1, SignalAssumption, LenProperties DEF PeQuick
  <2>3. Min(Covering(layout_, rva)) \in DOMAIN table
    <3>1. Covering(layout_, rva) \subseteq DOMAIN table
      BY <2>1 DEF Covering
    <3>2. Covering(layout_, rva) \in SUBSET Nat
      BY <2>2, <3>1
    <3> QED BY <1>2, <3>1, <3>2, MinOfNaturals
  <2>4. table[Min(Covering(layout_, rva))] \in Section
    BY <2>2, <2>3, ElementOfSeq
  <2> QED BY <1>2, <2>4 DEF SectionName, Section
<1> QED BY <1>1, <1>2

LEMMA ReasonsType ==
  ASSUME NEW m, NEW bytes, NEW path, NEW known, NEW mods, NEW pe_layout, NEW starts
  PROVE  RegionReasons(m, bytes, path, known, mods, pe_layout, starts) \subseteq Reasons
<1>1. PrimaryReasons(m, bytes, path, known, mods, pe_layout) \subseteq Reasons
  <2>1. AddImageHeaderComparison(bytes, path) \subseteq Reasons
    BY DEF AddImageHeaderComparison, Reasons
  <2>2. AddModuleConsistency(m, ContainsMzPe(bytes), path, known, mods) \subseteq Reasons
    BY DEF AddModuleConsistency, Reasons
  <2>3. AddSectionProtectionCheck(m, pe_layout) \subseteq Reasons
    BY DEF AddSectionProtectionCheck, Reasons
  <2> QED BY <2>1, <2>2, <2>3 DEF PrimaryReasons, Reasons
<1>2. ASSUME NEW R \in SUBSET Reasons
      PROVE  /\ AddSuspiciousImportContext(m.type, ApiTagsOf(pe_layout), R) \subseteq Reasons
             /\ AddHighEntropy(m, bytes, R) \subseteq Reasons
             /\ AddLargeOverlay(m, path, R) \subseteq Reasons
             /\ R \cup {"PrivateThreadStart"} \subseteq Reasons
  BY DEF AddSuspiciousImportContext, AddHighEntropy, AddLargeOverlay, Reasons
<1> QED BY <1>1, <1>2 DEF RegionReasons

LEMMA AnomalyType ==
  ASSUME NEW m \in Regions, NEW path \in Names \cup {NoName},
         NEW bytes \in Contents \cup {NoBytes}, NEW pe_layout \in Layouts,
         NEW known \in BOOLEAN, NEW mods \in ModuleLists, NEW starts \in ThreadMaps,
         NEW name \in Names \cup {NoName}
  PROVE  AnomalyOf(m, path, bytes, pe_layout, known, mods, starts, name) \in Anomaly
<1> DEFINE reasons == RegionReasons(m, bytes, path, known, mods, pe_layout, starts)
           section == IF m.type = "IMAGE" THEN SectionName(pe_layout, m.base - m.alloc)
                      ELSE NoSection
           is_pe == ContainsMzPe(bytes)
<1>1. reasons \in SUBSET Reasons
  BY ReasonsType
<1>2. section \in SectionNames \cup {NoSection}
  BY SectionNameType
<1>3. is_pe \in BOOLEAN
  <2>1. \A c \in Contents : Pe[c].valid \in BOOLEAN
    BY SignalAssumption DEF PeQuick
  <2> QED BY <2>1 DEF ContainsMzPe
<1>4. /\ m.base \in Pages /\ m.size \in 1..NumPages /\ m.alloc \in Pages
      /\ m.type \in Types /\ m.protect \in Protections
  BY DEF Regions
<1>5. ModulePath(m, mods) \in Names \cup {NoName}
  BY <1>4 DEF ModulePath, ModuleLists
<1>6. ApiTagsOf(pe_layout) \in SUBSET ApiTags
  <2>1. \A c \in Contents : Pe[c].tags \in SUBSET ApiTags
    BY SignalAssumption DEF PeQuick
  <2> QED BY <2>1 DEF ApiTagsOf, LayoutValid, ContainsMzPe, Layouts
<1>7. ThreadsInRegion(starts, m) \in SUBSET Tids
  <2>1. DOMAIN starts \subseteq Tids
    BY DEF ThreadMaps
  <2> QED BY <2>1 DEF ThreadsInRegion
<1>8. Severity(reasons) \in {"low", "medium", "high"}
  BY DEF Severity
<1>9. Fingerprint(name, path, m, is_pe, section, reasons) \in Fingerprints
  <2>1. ProtectToString(m.protect) \in SUBSET {"NOACC", "R", "W", "X", "G"}
    BY DEF ProtectToString
  <2>2. ToLower(name) \in LowerNames /\ ToLower(path) \in LowerNames
    BY DEF LowerNames
  <2> HIDE DEF reasons, section, is_pe
  <2> QED BY <1>1, <1>2, <1>3, <1>4, <2>1, <2>2 DEF Fingerprint, Fingerprints
<1> HIDE DEF reasons, section, is_pe
<1>10. AnomalyOf(m, path, bytes, pe_layout, known, mods, starts, name) =
         [base |-> m.base, size |-> m.size, alloc |-> m.alloc,
          type |-> m.type, protect |-> m.protect, mapped_path |-> path,
          module_path |-> ModulePath(m, mods), is_pe |-> is_pe, reasons |-> reasons,
          api_tags |-> ApiTagsOf(pe_layout), thread_ids |-> ThreadsInRegion(starts, m),
          severity |-> Severity(reasons),
          fingerprint |-> Fingerprint(name, path, m, is_pe, section, reasons)]
  BY DEF AnomalyOf, reasons, section, is_pe
<1> QED BY <1>1, <1>3, <1>4, <1>5, <1>6, <1>7, <1>8, <1>9, <1>10 DEF Anomaly

LEMMA InitType == Init => TypeOK
<1> SUFFICES ASSUME Init PROVE TypeOK
  OBVIOUS
<1>1. mem \in [Pages -> PageState] /\ ldr \in ModuleLists /\ threads \in ThreadMaps
  BY TargetAssumption DEF Init
<1>2. NumPages \in Nat \ {0} /\ 0 \in Pages
  BY ScanAssumption DEF Pages
<1>3. thread_starts \in ThreadMaps /\ modules \in ModuleLists
  <2>1. thread_starts \in [{} -> Pages]
    <3>1. [t \in {} |-> 0] \in [{} -> Pages]
      OBVIOUS
    <3> QED BY <3>1 DEF Init
  <2>2. {} \in SUBSET Tids
    OBVIOUS
  <2> QED BY <2>1, <2>2 DEF Init, ThreadMaps, ModuleLists, NoModules
<1>4. image_cache \in [Pages -> Layouts] /\ layout \in Layouts
  BY <1>2 DEF Init, NotCached, NoLayout, Layouts
<1>5. mbi \in Regions
  BY <1>2 DEF Init, Regions, Types, Protections, Bases
<1>6. attempt \in 1..Len(LayoutProbes)
  BY ScanAssumption, LenProperties DEF Init
<1>7. out \in Seq(Anomaly) /\ evidence \in Seq([base : Pages, written : BOOLEAN])
  BY EmptySeq DEF Init
<1>8. /\ alive \in BOOLEAN /\ modules_known \in BOOLEAN /\ pc = "open"
      /\ process = NoName /\ mapped = NoName /\ head = NoBytes /\ touched = {}
  BY DEF Init
<1>9. p \in 0..NumPages /\ evidence_count \in 0..EvidenceCap /\ changes \in 0..MaxChanges
  BY ScanAssumption DEF Init
<1> QED BY <1>1, <1>3, <1>4, <1>5, <1>6, <1>7, <1>8, <1>9 DEF TypeOK

\* What the scanner reads is of the type it is stored under.
LEMMA ReadTypes ==
  ASSUME TypeOK
  PROVE  /\ \A a \in Pages : /\ mem[a] \in PageState
                             /\ MappedPath(mem, a) \in Names \cup {NoName}
         /\ mbi.base \in Pages /\ mbi.alloc \in Pages /\ mbi.size \in 1..NumPages
         /\ NoLayout \in Layouts /\ NumPages \in Nat \ {0}
         /\ \A i \in 1..Len(LayoutProbes) : LayoutProbes[i] \in Nat \ {0}
<1>1. \A a \in Pages : mem[a] \in PageState /\ MappedPath(mem, a) \in Names \cup {NoName}
  BY FileAssumption DEF TypeOK, MappedPath, PageState
<1>2. mbi.base \in Pages /\ mbi.alloc \in Pages /\ mbi.size \in 1..NumPages
  BY DEF TypeOK, Regions
<1>3. NoLayout \in Layouts
  BY DEF NoLayout, Layouts
<1>4. \A i \in 1..Len(LayoutProbes) : LayoutProbes[i] \in Nat \ {0}
  BY ScanAssumption, ElementOfSeq
<1> QED BY <1>1, <1>2, <1>3, <1>4, ScanAssumption

LEMMA ScannerType ==
  ASSUME TypeOK, CountInv, Scanner
  PROVE  TypeOK'
<1> USE ReadTypes DEF target, context, region, results, history
<1>1. CASE OpenFails \/ StopWalk
  BY <1>1 DEF OpenFails, StopWalk, TypeOK
<1>2. CASE Open
  BY <1>2, ScanAssumption DEF Open, TypeOK
<1>3. CASE CollectThreadStarts
  <2>1. PICK seen \in SUBSET (IF alive THEN DOMAIN threads ELSE {}) :
          thread_starts' = [t \in seen |-> threads[t]]
    BY <1>3 DEF CollectThreadStarts
  <2>2. PICK S \in SUBSET Tids : threads \in [S -> Pages]
    BY DEF TypeOK, ThreadMaps
  <2>3. seen \in SUBSET Tids /\ thread_starts' \in [seen -> Pages]
    BY <2>1, <2>2
  <2>4. thread_starts' \in ThreadMaps
    BY <2>3 DEF ThreadMaps
  <2> QED BY <1>3, <2>4 DEF CollectThreadStarts, TypeOK
<1>4. CASE CollectModules
  <2>1. NoModules \in ModuleLists
    BY DEF NoModules, ModuleLists
  <2> QED BY <1>4, <2>1 DEF CollectModules, TypeOK
<1>5. CASE QueryRegion
  <2>1. PICK n \in 1..(NumPages - p) : mbi' = RegionAt(mem, p, n) /\ p' = p + n
    BY <1>5 DEF QueryRegion, NextAddress
  <2>2. p \in Pages /\ n \in 1..NumPages /\ p' \in 0..NumPages
    <3>1. p \in 0..NumPages /\ NumPages \in Nat /\ p < NumPages
      BY <1>5, ScanAssumption DEF QueryRegion, TypeOK
    <3> QED BY <2>1, <3>1 DEF Pages
  <2>3. mbi' \in Regions
    BY <2>1, <2>2 DEF RegionAt, Regions, PageState
  <2>4. attempt' \in 1..Len(LayoutProbes)
    BY <1>5, ScanAssumption, LenProperties DEF QueryRegion, FreshRegion
  <2>5. pc' \in {"resolve", "walk"}
    BY <1>5 DEF QueryRegion
  <2> QED BY <1>5, <2>2, <2>3, <2>4, <2>5 DEF QueryRegion, FreshRegion, TypeOK
<1>6. CASE ResolvePath
  BY <1>6 DEF ResolvePath, TypeOK
<1>7. CASE Probe
  <2>1. head' \in Contents \cup {NoBytes}
    BY <1>7 DEF Probe, PageState
  <2>2. pc' \in {"layout", "private", "judge"}
    BY <1>7 DEF Probe, AfterProbe
  <2> QED BY <1>7, <2>1, <2>2 DEF Probe, TypeOK
<1>8. CASE CachedLayout
  BY <1>8 DEF CachedLayout, LayoutBase, TypeOK
<1>9. CASE LoadImageLayout
  <2>1. attempt \in 1..Len(LayoutProbes) /\ Len(LayoutProbes) \in Nat
    BY ScanAssumption, LenProperties DEF TypeOK
  <2>2. layout' \in Layouts
    <3>1. /\ LayoutProbes[attempt] \in Nat
          /\ mem[mbi.alloc].content \in Contents
      BY <2>1 DEF PageState
    <3> QED BY <1>9, <3>1 DEF LoadImageLayout, LayoutBase, Layouts
  <2>3. attempt' \in 1..Len(LayoutProbes)
    BY <1>9, <2>1 DEF LoadImageLayout
  <2>4. image_cache' \in [Pages -> Layouts]
    BY <1>9, <2>2 DEF LoadImageLayout, TypeOK
  <2>5. pc' \in {"judge", "layout"}
    BY <1>9 DEF LoadImageLayout
  <2> QED BY <1>9, <2>2, <2>3, <2>4, <2>5 DEF LoadImageLayout, TypeOK
<1>10. CASE ReadPrivatePe
  <2>1. layout' \in Layouts
    <3>1. Smaller(mbi.size, PeReadPages) \in Nat /\ mem[mbi.base].content \in Contents
      BY ScanAssumption DEF Smaller, PageState
    <3> QED BY <1>10, <3>1 DEF ReadPrivatePe, Layouts
  <2> QED BY <1>10, <2>1 DEF ReadPrivatePe, TypeOK
<1>11. CASE Judge
  <2> DEFINE a == AnomalyOf(mbi, mapped, head, layout, modules_known, modules, thread_starts,
                            process)
  <2>1. a \in Anomaly
    BY AnomalyType DEF TypeOK
  <2>2. out' \in Seq(Anomaly)
    <3>1. out \in Seq(Anomaly) /\ out' \in {out, Append(out, a)}
      BY <1>11 DEF Judge, EvidenceDue, TypeOK
    <3> HIDE DEF a
    <3> QED BY <2>1, <3>1, AppendProperties
  <2>3. pc' \in {"evidence", "walk"}
    BY <1>11 DEF Judge, EvidenceDue
  <2> QED BY <1>11, <2>2, <2>3 DEF Judge, EvidenceDue, TypeOK
<1>12. CASE CaptureEvidence
  <2>1. PICK written \in BOOLEAN :
          evidence' = Append(evidence, [base |-> mbi.base, written |-> written])
    BY <1>12 DEF CaptureEvidence, CountAfter
  <2>2. evidence' \in Seq([base : Pages, written : BOOLEAN])
    <3>1. /\ evidence \in Seq([base : Pages, written : BOOLEAN])
          /\ [base |-> mbi.base, written |-> written] \in [base : Pages, written : BOOLEAN]
      BY DEF TypeOK
    <3> QED BY <2>1, <3>1, AppendProperties
  <2>3. evidence_count' \in 0..EvidenceCap
    BY <1>12, ScanAssumption DEF CaptureEvidence, CountAfter, CountInv, TypeOK
  <2> QED BY <1>12, <2>2, <2>3 DEF CaptureEvidence, CountAfter, TypeOK
<1> QED BY <1>1, <1>2, <1>3, <1>4, <1>5, <1>6, <1>7, <1>8, <1>9, <1>10, <1>11, <1>12 DEF Scanner

LEMMA TargetType ==
  ASSUME TypeOK, Target
  PROVE  TypeOK'
<1> USE DEF context, region, results
<1>1. SUFFICES /\ mem' \in [Pages -> PageState] /\ ldr' \in ModuleLists
               /\ threads' \in ThreadMaps /\ alive' \in BOOLEAN
               /\ \E where \in SUBSET Pages : Change(where)
  <2>1. ASSUME NEW where \in SUBSET Pages, Change(where)
        PROVE  /\ touched' \subseteq Pages /\ changes' \in 0..MaxChanges
               /\ UNCHANGED <<pc, context, image_cache, p, region, results>>
    BY <2>1, ScanAssumption DEF Change, TypeOK
  <2> QED BY <1>1, <2>1 DEF TypeOK
<1>2. /\ mem \in [Pages -> PageState] /\ ldr \in ModuleLists
      /\ threads \in ThreadMaps /\ alive \in BOOLEAN
  BY DEF TypeOK
<1>3. ASSUME NEW a \in Pages, NEW protect \in NewProtections, Protect(a, protect)
      PROVE  mem' \in [Pages -> PageState]
  BY <1>2, <1>3, ChangeAssumption DEF Protect, PageState
<1>4. ASSUME NEW a \in Pages, NEW content \in NewContents, Write(a, content)
      PROVE  mem' \in [Pages -> PageState]
  BY <1>2, <1>4, ChangeAssumption DEF Write, PageState
<1>5. ASSUME NEW a \in Pages, NEW protect \in NewProtections, NEW content \in NewContents,
             AllocatePrivate(a, protect, content)
      PROVE  mem' \in [Pages -> PageState]
  BY <1>2, <1>5, ChangeAssumption DEF AllocatePrivate, PageState, Types
<1>6. ASSUME NEW a \in Pages, NEW image \in NewImages, MapImage(a, image)
      PROVE  /\ mem' \in [Pages -> PageState]
             /\ a..(a + Len(image.pages) - 1) \subseteq Pages
  <2> DEFINE span == a..(a + Len(image.pages) - 1)
  <2>1. /\ image.file \in Files
        /\ image.pages \in Seq([protect : Protections, content : Contents])
        /\ DOMAIN image.pages = 1..Len(image.pages) /\ Len(image.pages) \in Nat
    BY ImageAssumption, LenProperties
  <2>2. \A b \in span : b - a + 1 \in 1..Len(image.pages)
    BY <2>1, ScanAssumption DEF Pages
  <2>3. \A b \in span : image.pages[b - a + 1] \in [protect : Protections, content : Contents]
    BY <2>1, <2>2, ElementOfSeq
  <2>4. \A b \in span : [st |-> "commit", alloc |-> a, type |-> "IMAGE",
                         protect |-> image.pages[b - a + 1].protect,
                         content |-> image.pages[b - a + 1].content,
                         file |-> image.file] \in PageState
    BY <2>1, <2>3 DEF PageState, Types
  <2> QED BY <1>2, <1>6, <2>4 DEF MapImage
<1>7. ASSUME NEW a \in Pages, ListModule(a)
      PROVE  ldr' \in ModuleLists
  BY <1>2, <1>7, FileAssumption DEF ListModule, ModuleLists, PageState
<1>8. ASSUME NEW a \in Pages, UnmapImage(a)
      PROVE  mem' \in [Pages -> PageState]
  BY <1>2, <1>8 DEF UnmapImage, PageState
<1>9. ASSUME NEW a \in Pages, NEW t \in Tids, StartThread(t, a)
      PROVE  threads' \in ThreadMaps
  <2>1. PICK S \in SUBSET Tids : threads \in [S -> Pages]
    BY <1>2 DEF ThreadMaps
  <2>2. threads' \in [S \cup {t} -> Pages] /\ S \cup {t} \in SUBSET Tids
    BY <1>9, <2>1 DEF StartThread
  <2> QED BY <2>2 DEF ThreadMaps
<1>10. CASE Exit
  BY <1>2, <1>10 DEF Exit
<1>11. ASSUME NEW a \in Pages,
              \/ \E protect \in NewProtections : Protect(a, protect)
              \/ \E content \in NewContents : Write(a, content)
              \/ \E protect \in NewProtections, content \in NewContents :
                   AllocatePrivate(a, protect, content)
              \/ ListModule(a)
              \/ \E t \in Tids : StartThread(t, a)
       PROVE  /\ mem' \in [Pages -> PageState] /\ ldr' \in ModuleLists
              /\ threads' \in ThreadMaps /\ alive' \in BOOLEAN /\ Change({a})
  <2>1. CASE \E protect \in NewProtections : Protect(a, protect)
    BY <1>2, <1>3, <2>1 DEF Protect
  <2>2. CASE \E content \in NewContents : Write(a, content)
    BY <1>2, <1>4, <2>2 DEF Write
  <2>3. CASE \E protect \in NewProtections, content \in NewContents :
               AllocatePrivate(a, protect, content)
    BY <1>2, <1>5, <2>3 DEF AllocatePrivate
  <2>4. CASE ListModule(a)
    BY <1>2, <1>7, <2>4 DEF ListModule
  <2>5. CASE \E t \in Tids : StartThread(t, a)
    BY <1>2, <1>9, <2>5 DEF StartThread
  <2> QED BY <1>11, <2>1, <2>2, <2>3, <2>4, <2>5
<1>12. ASSUME NEW a \in Pages, NEW image \in NewImages, MapImage(a, image)
       PROVE  /\ mem' \in [Pages -> PageState] /\ ldr' \in ModuleLists
              /\ threads' \in ThreadMaps /\ alive' \in BOOLEAN
              /\ \E where \in SUBSET Pages : Change(where)
  BY <1>2, <1>6, <1>12 DEF MapImage
<1>13. ASSUME NEW a \in Pages, UnmapImage(a)
       PROVE  /\ mem' \in [Pages -> PageState] /\ ldr' \in ModuleLists
              /\ threads' \in ThreadMaps /\ alive' \in BOOLEAN
              /\ \E where \in SUBSET Pages : Change(where)
  <2>1. Change({b \in Pages : mem[b].st = "commit" /\ mem[b].alloc = a})
    BY <1>13 DEF UnmapImage
  <2> QED BY <1>2, <1>8, <1>13, <2>1 DEF UnmapImage
<1> QED BY <1>2, <1>10, <1>11, <1>12, <1>13 DEF Target, Exit

\* The target does not reach into the scanner.
LEMMA TargetKeeps ==
  ASSUME Target
  PROVE  UNCHANGED <<pc, context, image_cache, p, region, results>>
<1>1. ASSUME NEW where, Change(where)
      PROVE  UNCHANGED <<pc, context, image_cache, p, region, results>>
  BY <1>1, Zenon DEF Change
<1>2. \E where : Change(where)
  BY Zenon DEF Target, Protect, Write, AllocatePrivate, MapImage, ListModule, UnmapImage,
     StartThread, Exit
<1> QED BY <1>1, <1>2, Zenon

LEMMA StepCount ==
  ASSUME TypeOK, CountInv, [Next]_vars
  PROVE  CountInv'
<1> USE DEF target, context, region, results, history
<1>1. CASE UNCHANGED vars
  BY <1>1 DEF vars, CountInv
<1>2. CASE Scanner
  BY <1>2 DEF Scanner, CountInv, OpenFails, Open, CollectThreadStarts, CollectModules, StopWalk,
     QueryRegion, ResolvePath, Probe, AfterProbe, CachedLayout, LoadImageLayout, ReadPrivatePe,
     Judge, EvidenceDue, CaptureEvidence
<1>3. CASE Target
  <2>1. pc' = pc /\ evidence_count' = evidence_count
    BY <1>3, TargetKeeps
  <2> QED BY <2>1 DEF CountInv
<1> QED BY <1>1, <1>2, <1>3 DEF Next, Done

LEMMA StepType ==
  ASSUME TypeOK, CountInv, [Next]_vars
  PROVE  TypeOK' /\ CountInv'
<1>1. CASE UNCHANGED vars
  BY <1>1 DEF vars, target, context, region, results, history, TypeOK, CountInv
<1>2. TypeOK'
  BY <1>1, ScannerType, TargetType DEF Next, Done
<1> QED BY <1>2, StepCount

\* Every variable keeps its type.
THEOREM TypeCorrect == Spec => []TypeOK
<1>1. Init => TypeOK /\ CountInv
  BY InitType DEF Init, CountInv
<1>2. TypeOK /\ CountInv /\ [Next]_vars => (TypeOK /\ CountInv)'
  BY StepType
<1> QED BY <1>1, <1>2, PTL DEF Spec

(***************************************************************************)
(* What a step can do to the findings.                                     *)
(***************************************************************************)
JudgedAnomaly == AnomalyOf(mbi, mapped, head, layout, modules_known, modules, thread_starts,
                           process)

LEMMA StepOut ==
  ASSUME TypeOK, [Next]_vars
  PROVE  \/ /\ out' = out
            /\ pc' = "evidence" => pc = "evidence" /\ UNCHANGED <<mbi, evidence, evidence_count>>
         \/ /\ pc = "judge" /\ Reported(JudgedAnomaly) /\ out' = Append(out, JudgedAnomaly)
            /\ pc' = IF evidence_count < EvidenceCap THEN "evidence" ELSE "walk"
            /\ UNCHANGED <<mbi, p, evidence, evidence_count>>
<1> USE DEF target, context, region, results, history
<1>1. CASE UNCHANGED vars
  BY <1>1 DEF vars
<1>2. CASE Scanner
  <2>1. CASE Judge
    BY <2>1 DEF Judge, EvidenceDue, JudgedAnomaly
  <2>2. CASE CaptureEvidence
    BY <2>2 DEF CaptureEvidence, CountAfter
  <2>3. CASE OpenFails \/ Open \/ CollectThreadStarts \/ CollectModules \/ StopWalk
    BY <2>3 DEF OpenFails, Open, CollectThreadStarts, CollectModules, StopWalk
  <2>4. CASE QueryRegion \/ ResolvePath \/ Probe
    <3>1. out' = out /\ pc' # "evidence"
      BY <2>4 DEF QueryRegion, ResolvePath, Probe, AfterProbe
    <3> QED BY <3>1
  <2>5. CASE CachedLayout \/ LoadImageLayout \/ ReadPrivatePe
    <3>1. out' = out /\ pc' # "evidence"
      BY <2>5 DEF CachedLayout, LoadImageLayout, ReadPrivatePe
    <3> QED BY <3>1
  <2> QED BY <1>2, <2>1, <2>2, <2>3, <2>4, <2>5 DEF Scanner
<1>3. CASE Target
  BY <1>3, TargetKeeps
<1> QED BY <1>1, <1>2, <1>3 DEF Next, Done

LEMMA OutTypes ==
  ASSUME TypeOK
  PROVE  /\ DOMAIN out = 1..Len(out) /\ Len(out) \in Nat /\ out \in Seq(Anomaly)
         /\ \A i \in DOMAIN out : out[i].base \in Nat /\ out[i].size \in Nat
         /\ JudgedAnomaly \in Anomaly
         /\ JudgedAnomaly.base = mbi.base /\ JudgedAnomaly.size = mbi.size
         /\ JudgedAnomaly.type = mbi.type /\ JudgedAnomaly.protect = mbi.protect
         /\ mbi.base \in Nat /\ mbi.size \in Nat \ {0} /\ p \in Nat
<1>1. DOMAIN out = 1..Len(out) /\ Len(out) \in Nat /\ out \in Seq(Anomaly)
  BY LenProperties DEF TypeOK
<1>2. \A i \in DOMAIN out : out[i] \in Anomaly
  BY <1>1, ElementOfSeq
<1>3. \A i \in DOMAIN out : out[i].base \in Nat /\ out[i].size \in Nat
  BY <1>2, ScanAssumption DEF Anomaly, Pages
<1>4. JudgedAnomaly \in Anomaly
  BY AnomalyType DEF JudgedAnomaly, TypeOK
<1>5. /\ JudgedAnomaly.base = mbi.base /\ JudgedAnomaly.size = mbi.size
      /\ JudgedAnomaly.type = mbi.type /\ JudgedAnomaly.protect = mbi.protect
  BY DEF JudgedAnomaly, AnomalyOf
<1>6. mbi.base \in Nat /\ mbi.size \in Nat \ {0} /\ p \in Nat
  BY ScanAssumption DEF TypeOK, Regions, Pages
<1> QED BY <1>1, <1>3, <1>4, <1>5, <1>6

LEMMA OutAppended ==
  ASSUME TypeOK, out' = Append(out, JudgedAnomaly)
  PROVE  /\ DOMAIN out' = 1..(Len(out) + 1) /\ Len(out') = Len(out) + 1
         /\ \A i \in DOMAIN out : out'[i] = out[i]
         /\ out'[Len(out) + 1] = JudgedAnomaly
<1> HIDE DEF JudgedAnomaly
<1>1. out' \in Seq(Anomaly)
  BY OutTypes, AppendProperties
<1> QED BY <1>1, OutTypes, AppendProperties, LenProperties

(***************************************************************************)
(* Findings are disjoint: the walk never comes back below the end of a     *)
(* region it has looked at.                                                *)
(***************************************************************************)
LEMMA StepWalk ==
  ASSUME TypeOK, WalkInv, [Next]_vars
  PROVE  WalkInv'
<1> USE DEF target, context, region, results, history
<1>1. CASE UNCHANGED vars
  BY <1>1 DEF vars, WalkInv, InRegion
<1>2. CASE Target
  <2>1. UNCHANGED <<pc, mbi, p, out>>
    BY <1>2, TargetKeeps
  <2> QED BY <2>1 DEF WalkInv, InRegion
<1>3. CASE QueryRegion
  <2>1. PICK n \in 1..(NumPages - p) : mbi' = RegionAt(mem, p, n) /\ p' = p + n
    BY <1>3 DEF QueryRegion, NextAddress
  <2>2. /\ mbi'.base = p /\ mbi'.size = n /\ p <= p' /\ p' = p + n
        /\ pc = "walk" /\ pc' \in {"resolve", "walk"} /\ out' = out
    BY <1>3, <2>1, OutTypes, ScanAssumption DEF QueryRegion, RegionAt
  <2>3. \A i \in DOMAIN out : out[i].base + out[i].size <= p
    BY <2>2 DEF WalkInv, InRegion
  <2>4. \A i \in DOMAIN out : out[i].base + out[i].size <= p'
    <3>1. p \in Nat /\ p' \in Nat
      BY <2>1, <2>2, OutTypes
    <3>2. \A i \in DOMAIN out : out[i].base \in Nat /\ out[i].size \in Nat
      BY OutTypes
    <3> QED BY <2>2, <2>3, <3>1, <3>2
  <2> QED BY <2>2, <2>3, <2>4 DEF WalkInv, InRegion
<1>4. CASE Judge
  <2>1. /\ pc = "judge" /\ pc' \in {"walk", "evidence"} /\ mbi' = mbi /\ p' = p
        /\ mbi.base + mbi.size = p
        /\ \A i \in DOMAIN out : out[i].base + out[i].size <= mbi.base
    BY <1>4 DEF Judge, EvidenceDue, WalkInv, InRegion
  <2>2. \A i \in DOMAIN out : out[i].base + out[i].size <= p
    BY <2>1, OutTypes
  <2>3. CASE out' = out
    BY <2>1, <2>2, <2>3 DEF WalkInv, InRegion
  <2>4. CASE out' = Append(out, JudgedAnomaly)
    <3>1. \A i \in DOMAIN out' : out'[i].base + out'[i].size <= p
      BY <2>1, <2>2, <2>4, OutTypes, OutAppended
    <3> QED BY <2>1, <3>1 DEF WalkInv, InRegion
  <2> QED BY <1>4, <2>3, <2>4 DEF Judge, EvidenceDue, JudgedAnomaly
<1>5. CASE Scanner /\ ~QueryRegion /\ ~Judge
  <2>1. /\ UNCHANGED <<mbi, p, out>>
        /\ InRegion' => InRegion
        /\ pc' = "evidence" => pc = "evidence"
    BY <1>5 DEF Scanner, OpenFails, Open, CollectThreadStarts, CollectModules, StopWalk,
       ResolvePath, Probe, AfterProbe, CachedLayout, LoadImageLayout, ReadPrivatePe,
       CaptureEvidence, InRegion
  <2>2. InRegion => mbi.base <= p
    BY OutTypes DEF WalkInv
  <2>3. \A i \in DOMAIN out : out[i].base + out[i].size <= p
    BY <2>2, OutTypes DEF WalkInv
  <2> QED BY <2>1, <2>3 DEF WalkInv
<1> QED BY <1>1, <1>2, <1>3, <1>4, <1>5 DEF Next, Done, vars

LEMMA StepDisjoint ==
  ASSUME TypeOK, WalkInv, FindingsDisjoint, [Next]_vars
  PROVE  FindingsDisjoint'
<1>1. CASE out' = out
  BY <1>1 DEF FindingsDisjoint
<1>2. CASE pc = "judge" /\ out' = Append(out, JudgedAnomaly)
  <2>1. \A i \in DOMAIN out : out[i].base + out[i].size <= JudgedAnomaly.base
    BY <1>2, OutTypes DEF WalkInv, InRegion
  <2> QED BY <1>2, <2>1, OutTypes, OutAppended DEF FindingsDisjoint
<1> QED BY <1>1, <1>2, StepOut

\* No address is reported twice, whatever the target does during the walk.
THEOREM Disjoint == Spec => []FindingsDisjoint
<1>1. Init => TypeOK /\ CountInv /\ WalkInv /\ FindingsDisjoint
  BY InitType DEF Init, CountInv, WalkInv, InRegion, FindingsDisjoint
<1>2. TypeOK /\ CountInv /\ WalkInv /\ FindingsDisjoint /\ [Next]_vars
        => (TypeOK /\ CountInv /\ WalkInv /\ FindingsDisjoint)'
  BY StepType, StepWalk, StepDisjoint
<1> QED BY <1>1, <1>2, PTL DEF Spec

(***************************************************************************)
(* The evidence budget.                                                    *)
(***************************************************************************)
LEMMA StepBudget ==
  ASSUME TypeOK, CountInv, BudgetInv, EvidenceBudget, [Next]_vars
  PROVE  BudgetInv' /\ EvidenceBudget'
<1> USE DEF target, context, region, results, history
<1>0. /\ evidence \in Seq([base : Pages, written : BOOLEAN])
      /\ DOMAIN evidence = 1..Len(evidence) /\ Len(evidence) \in Nat /\ EvidenceCap \in Nat
      /\ evidence_count = Len(evidence)
      /\ \A i \in DOMAIN evidence : i \in DOMAIN out /\ evidence[i].base = out[i].base
  BY LenProperties, ScanAssumption DEF TypeOK, BudgetInv, EvidenceBudget
<1>1. CASE UNCHANGED vars
  BY <1>1 DEF vars, BudgetInv, EvidenceBudget
<1>2. CASE Target
  BY <1>2, TargetKeeps DEF BudgetInv, EvidenceBudget
<1>3. CASE CaptureEvidence
  <2>1. PICK written \in BOOLEAN :
          evidence' = Append(evidence, [base |-> mbi.base, written |-> written])
    BY <1>3 DEF CaptureEvidence, CountAfter
  <2>2. /\ pc = "evidence" /\ pc' = "walk" /\ out' = out
        /\ evidence_count' = evidence_count + 1
        /\ Len(out) \in 1..EvidenceCap /\ out[Len(out)].base = mbi.base
        /\ Len(evidence) = Len(out) - 1
    BY <1>3 DEF CaptureEvidence, CountAfter, BudgetInv, EvidenceBudget
  <2>3. [base |-> mbi.base, written |-> written] \in [base : Pages, written : BOOLEAN]
    BY ReadTypes
  <2>4. /\ Len(evidence') = Len(out) /\ DOMAIN evidence' = 1..Len(out)
        /\ \A i \in DOMAIN evidence : evidence'[i] = evidence[i]
        /\ evidence'[Len(out)].base = mbi.base
    BY <1>0, <2>1, <2>2, <2>3, AppendProperties, LenProperties
  <2>5. \A i \in DOMAIN evidence' : i \in DOMAIN out' /\ evidence'[i].base = out'[i].base
    <3> SUFFICES ASSUME NEW i \in 1..Len(out)
                 PROVE  i \in DOMAIN out /\ evidence'[i].base = out[i].base
      BY <2>2, <2>4
    <3>1. CASE i = Len(out)
      BY <2>2, <2>4, <3>1, OutTypes
    <3>2. CASE i # Len(out)
      <4>1. i \in DOMAIN evidence
        BY <1>0, <2>2, <3>2, OutTypes
      <4> QED BY <1>0, <2>4, <4>1
    <3> QED BY <3>1, <3>2
  <2>6. Smaller(EvidenceCap, Len(out)) = Len(out)
    BY <1>0, <2>2, OutTypes DEF Smaller
  <2> QED BY <1>0, <2>2, <2>4, <2>5, <2>6 DEF BudgetInv, EvidenceBudget
<1>4. CASE Judge
  <2>1. /\ pc = "judge" /\ UNCHANGED <<mbi, evidence, evidence_count>>
        /\ Len(evidence) = Smaller(EvidenceCap, Len(out))
    BY <1>4 DEF Judge, EvidenceDue, EvidenceBudget
  <2>2. CASE out' = out /\ pc' = "walk"
    BY <2>1, <2>2, <1>0 DEF BudgetInv, EvidenceBudget
  <2>3. CASE /\ out' = Append(out, JudgedAnomaly)
             /\ pc' = IF evidence_count < EvidenceCap THEN "evidence" ELSE "walk"
    <3>1. /\ Len(out') = Len(out) + 1 /\ Len(out) \in Nat /\ DOMAIN out = 1..Len(out)
          /\ DOMAIN out' = 1..(Len(out) + 1)
          /\ out'[Len(out')].base = mbi.base
          /\ \A i \in DOMAIN out : out'[i] = out[i]
      BY <2>3, OutTypes, OutAppended
    <3>2. \A i \in DOMAIN evidence' : i \in DOMAIN out' /\ evidence'[i].base = out'[i].base
      BY <1>0, <2>1, <3>1
    <3>3. CASE evidence_count < EvidenceCap
      <4>1. Len(evidence) = Len(out) /\ Len(out) < EvidenceCap
        BY <1>0, <2>1, <3>1, <3>3 DEF Smaller
      <4>2. Len(out') \in 1..EvidenceCap
        BY <1>0, <3>1, <4>1
      <4>3. pc' = "evidence"
        BY <2>3, <3>3
      <4> QED BY <1>0, <2>1, <3>1, <3>2, <4>1, <4>2, <4>3 DEF BudgetInv, EvidenceBudget
    <3>4. CASE ~(evidence_count < EvidenceCap)
      <4>1. Len(evidence) = Smaller(EvidenceCap, Len(out')) /\ pc' = "walk"
        BY <1>0, <2>1, <2>3, <3>1, <3>4 DEF Smaller
      <4> QED BY <1>0, <2>1, <3>2, <4>1 DEF BudgetInv, EvidenceBudget
    <3> QED BY <3>3, <3>4
  <2> QED BY <1>4, <2>2, <2>3 DEF Judge, EvidenceDue, JudgedAnomaly
<1>5. CASE Scanner /\ ~CaptureEvidence /\ ~Judge
  <2>1. UNCHANGED <<out, evidence, evidence_count>> /\ pc # "evidence" /\ pc' # "evidence"
    <3>1. CASE OpenFails \/ Open \/ CollectThreadStarts \/ CollectModules \/ StopWalk
      BY <3>1 DEF OpenFails, Open, CollectThreadStarts, CollectModules, StopWalk
    <3>2. CASE QueryRegion \/ ResolvePath \/ Probe
      BY <3>2 DEF QueryRegion, ResolvePath, Probe, AfterProbe
    <3>3. CASE CachedLayout \/ LoadImageLayout \/ ReadPrivatePe
      BY <3>3 DEF CachedLayout, LoadImageLayout, ReadPrivatePe
    <3> QED BY <1>5, <3>1, <3>2, <3>3 DEF Scanner
  <2> QED BY <2>1, <1>0 DEF BudgetInv, EvidenceBudget
<1> QED BY <1>1, <1>2, <1>3, <1>4, <1>5 DEF Next, Done

\* Evidence goes to the first findings, in order, and to no more than the cap.
THEOREM Budget == Spec => []EvidenceBudget
<1>1. Init => TypeOK /\ CountInv /\ BudgetInv /\ EvidenceBudget
  <2> SUFFICES ASSUME Init PROVE CountInv /\ BudgetInv /\ EvidenceBudget
    BY InitType
  <2>1. /\ pc = "open" /\ out = <<>> /\ evidence = <<>> /\ evidence_count = 0
        /\ Len(out) = 0 /\ Len(evidence) = 0 /\ DOMAIN evidence = {} /\ EvidenceCap \in Nat
    BY ScanAssumption DEF Init
  <2> QED BY <2>1 DEF CountInv, BudgetInv, EvidenceBudget, Smaller
<1>2. TypeOK /\ CountInv /\ BudgetInv /\ EvidenceBudget /\ [Next]_vars
        => (TypeOK /\ CountInv /\ BudgetInv /\ EvidenceBudget)'
  BY StepType, StepBudget
<1> QED BY <1>1, <1>2, PTL DEF Spec

(***************************************************************************)
(* Context needs a primary signal.                                         *)
(***************************************************************************)
LEMMA ContextOfReasons ==
  ASSUME NEW m, NEW bytes, NEW path, NEW known, NEW mods, NEW pe_layout, NEW starts,
         m.type = "PRIVATE" => pe_layout = NoLayout \/ ContainsMzPe(bytes),
         RegionReasons(m, bytes, path, known, mods, pe_layout, starts) # {}
  PROVE  LET reasons == RegionReasons(m, bytes, path, known, mods, pe_layout, starts)
         IN  \/ reasons \ ContextReasons # {}
             \/ /\ m.type = "PRIVATE" /\ HasExecute(m.protect)
                /\ reasons = {"HighEntropyExecutable"}
<1> DEFINE primary == PrimaryReasons(m, bytes, path, known, mods, pe_layout)
           imports == AddSuspiciousImportContext(m.type, ApiTagsOf(pe_layout), primary)
           packed  == AddHighEntropy(m, bytes, imports)
           overlay == AddLargeOverlay(m, path, packed)
           started == IF ThreadsInRegion(starts, m) # {} THEN {"PrivateThreadStart"} ELSE {}
           reasons == RegionReasons(m, bytes, path, known, mods, pe_layout, starts)
<1>1. reasons = overlay \cup started
  BY DEF RegionReasons
<1>2. primary \subseteq imports
  BY DEF AddSuspiciousImportContext
<1>3. imports \subseteq packed
  BY DEF AddHighEntropy
<1>4. packed \subseteq overlay
  BY DEF AddLargeOverlay
<1>5. primary \cap ContextReasons = {}
  <2>1. AddImageHeaderComparison(bytes, path) \subseteq {"ImageHeaderMismatch"}
    BY DEF AddImageHeaderComparison
  <2>2. AddModuleConsistency(m, ContainsMzPe(bytes), path, known, mods)
          \subseteq {"ImageNotInModuleList", "ModulePathMismatch"}
    BY DEF AddModuleConsistency
  <2>3. AddSectionProtectionCheck(m, pe_layout) \subseteq {"SectionProtectionMismatch"}
    BY DEF AddSectionProtectionCheck
  <2> QED BY <2>1, <2>2, <2>3 DEF PrimaryReasons, ContextReasons
<1>6. CASE primary # {}
  <2> HIDE DEF primary, imports, packed, overlay, started, reasons
  <2>1. reasons \ ContextReasons # {}
    BY <1>1, <1>2, <1>3, <1>4, <1>5, <1>6
  <2> QED BY <2>1 DEF reasons
<1>7. CASE primary = {}
  <2>1. m.type = "PRIVATE" => ApiTagsOf(pe_layout) = {}
    <3>1. m.type = "PRIVATE" => ~ContainsMzPe(bytes)
      BY <1>7 DEF PrimaryReasons
    <3>2. pe_layout = NoLayout => ~LayoutValid(pe_layout)
      BY DEF NoLayout, LayoutValid, ContainsMzPe
    <3> QED BY <3>1, <3>2 DEF ApiTagsOf
  <2>2. imports = {}
    <3> HIDE DEF primary
    <3> QED BY <1>7, <2>1 DEF AddSuspiciousImportContext
  <2>3. \/ packed = {}
        \/ packed = {"HighEntropyExecutable"} /\ m.type = "PRIVATE" /\ HasExecute(m.protect)
    <3> HIDE DEF imports
    <3> QED BY <2>2 DEF AddHighEntropy
  <2>4. overlay = packed
    <3> HIDE DEF packed
    <3> QED BY <2>3 DEF AddLargeOverlay
  <2> HIDE DEF primary, imports, packed, overlay, started, reasons
  <2>5. CASE started = {}
    <3>1. reasons = packed /\ reasons # {}
      BY <1>1, <2>4, <2>5 DEF reasons
    <3> QED BY <2>3, <3>1 DEF reasons
  <2>6. CASE started = {"PrivateThreadStart"}
    <3>1. reasons \ ContextReasons # {}
      BY <1>1, <2>6 DEF ContextReasons
    <3> QED BY <3>1 DEF reasons
  <2> QED BY <2>5, <2>6 DEF started
<1> QED BY <1>6, <1>7

LEMMA StepHeader ==
  ASSUME TypeOK, HeaderInv, [Next]_vars
  PROVE  HeaderInv'
<1> USE DEF target, context, region, results, history, HeaderInv
<1>1. CASE UNCHANGED vars
  BY <1>1 DEF vars
<1>2. CASE Target
  BY <1>2, TargetKeeps DEF ContainsMzPe
<1>3. CASE OpenFails \/ Open \/ CollectThreadStarts \/ CollectModules \/ StopWalk
  BY <1>3 DEF OpenFails, Open, CollectThreadStarts, CollectModules, StopWalk
<1>4. CASE QueryRegion
  <2>1. pc' \in {"resolve", "walk"} /\ layout' = NoLayout
    BY <1>4 DEF QueryRegion, FreshRegion
  <2> QED BY <2>1
<1>5. CASE ResolvePath
  <2>1. pc = "resolve" /\ pc' \in {"probe", "walk"} /\ layout' = layout
    BY <1>5 DEF ResolvePath
  <2> QED BY <2>1
<1>6. CASE Probe
  <2>1. /\ layout' = NoLayout /\ mbi' = mbi
        /\ pc' = AfterProbe(head')
    BY <1>6 DEF Probe
  <2> QED BY <2>1 DEF AfterProbe, ContainsMzPe
<1>7. CASE CachedLayout \/ LoadImageLayout
  <2>1. mbi' = mbi /\ mbi.type = "IMAGE" /\ pc' \in {"judge", "layout"}
    BY <1>7 DEF CachedLayout, LoadImageLayout
  <2> QED BY <2>1
<1>8. CASE ReadPrivatePe
  <2>1. pc = "private" /\ pc' = "judge" /\ mbi' = mbi /\ head' = head
    BY <1>8 DEF ReadPrivatePe
  <2> QED BY <2>1 DEF ContainsMzPe
<1>9. CASE Judge \/ CaptureEvidence
  <2>1. pc' \in {"evidence", "walk"}
    BY <1>9 DEF Judge, EvidenceDue, CaptureEvidence
  <2> QED BY <2>1
<1> QED BY <1>1, <1>2, <1>3, <1>4, <1>5, <1>6, <1>7, <1>8, <1>9 DEF Next, Scanner, Done

LEMMA StepContext ==
  ASSUME TypeOK, HeaderInv, ContextNeedsPrimary, [Next]_vars
  PROVE  ContextNeedsPrimary'
<1>1. CASE out' = out
  BY <1>1 DEF ContextNeedsPrimary
<1>2. CASE pc = "judge" /\ Reported(JudgedAnomaly) /\ out' = Append(out, JudgedAnomaly)
  <2>1. JudgedAnomaly.reasons = RegionReasons(mbi, head, mapped, modules_known, modules, layout,
                                              thread_starts)
    BY DEF JudgedAnomaly, AnomalyOf
  <2>2. \/ JudgedAnomaly.reasons \ ContextReasons # {}
        \/ /\ JudgedAnomaly.type = "PRIVATE" /\ HasExecute(JudgedAnomaly.protect)
           /\ JudgedAnomaly.reasons = {"HighEntropyExecutable"}
    <3>1. JudgedAnomaly.reasons # {}
      BY <1>2 DEF Reported
    <3>2. JudgedAnomaly.type = mbi.type /\ JudgedAnomaly.protect = mbi.protect
      BY OutTypes
    <3> HIDE DEF JudgedAnomaly
    <3> QED BY <1>2, <2>1, <3>1, <3>2, ContextOfReasons DEF HeaderInv
  <2> HIDE DEF JudgedAnomaly
  <2> QED BY <1>2, <2>2, OutTypes, OutAppended DEF ContextNeedsPrimary
<1> QED BY <1>1, <1>2, StepOut

\* No finding rests on context alone, whatever the target does between the reads.
THEOREM Context == Spec => []ContextNeedsPrimary
<1>1. Init => TypeOK /\ CountInv /\ HeaderInv /\ ContextNeedsPrimary
  BY InitType DEF Init, CountInv, HeaderInv, ContextNeedsPrimary
<1>2. TypeOK /\ CountInv /\ HeaderInv /\ ContextNeedsPrimary /\ [Next]_vars
        => (TypeOK /\ CountInv /\ HeaderInv /\ ContextNeedsPrimary)'
  BY StepType, StepHeader, StepContext
<1> QED BY <1>1, <1>2, PTL DEF Spec

(***************************************************************************)
(* The two paths of an image.                                              *)
(***************************************************************************)

\* The target changes the pages that it touches and no others.
LEMMA TargetTouches ==
  ASSUME TypeOK, Target
  PROVE  /\ touched \subseteq touched'
         /\ \A b \in Pages \ touched' : mem'[b] = mem[b]
         /\ alive' = alive \/ touched' = Pages
<1>0. mem \in [Pages -> PageState] /\ touched \subseteq Pages
  BY DEF TypeOK
<1>1. ASSUME NEW a \in Pages, NEW protect \in NewProtections, Protect(a, protect)
      PROVE  touched' = touched \cup {a} /\ alive' = alive /\ \A b \in Pages \ {a} : mem'[b] = mem[b]
  BY <1>0, <1>1 DEF Protect, Change
<1>2. ASSUME NEW a \in Pages, NEW content \in NewContents, Write(a, content)
      PROVE  touched' = touched \cup {a} /\ alive' = alive /\ \A b \in Pages \ {a} : mem'[b] = mem[b]
  BY <1>0, <1>2 DEF Write, Change
<1>3. ASSUME NEW a \in Pages, NEW protect \in NewProtections, NEW content \in NewContents,
             AllocatePrivate(a, protect, content)
      PROVE  touched' = touched \cup {a} /\ alive' = alive /\ \A b \in Pages \ {a} : mem'[b] = mem[b]
  BY <1>0, <1>3 DEF AllocatePrivate, Change
<1>4. ASSUME NEW a \in Pages, NEW image \in NewImages, MapImage(a, image)
      PROVE  LET span == a..(a + Len(image.pages) - 1)
             IN  /\ touched' = touched \cup span /\ alive' = alive
                 /\ \A b \in Pages \ span : mem'[b] = mem[b]
  <2> DEFINE span == a..(a + Len(image.pages) - 1)
  <2>1. /\ touched' = touched \cup span /\ alive' = alive
        /\ mem' = [b \in Pages |->
                     IF b \in span
                     THEN [st |-> "commit", alloc |-> a, type |-> "IMAGE",
                           protect |-> image.pages[b - a + 1].protect,
                           content |-> image.pages[b - a + 1].content, file |-> image.file]
                     ELSE mem[b]]
    BY <1>4 DEF MapImage, Change
  <2> HIDE DEF span
  <2>2. \A b \in Pages \ span : mem'[b] = mem[b]
    BY <2>1
  <2> QED BY <2>1, <2>2 DEF span
<1>5. ASSUME NEW a \in Pages, UnmapImage(a)
      PROVE  LET span == {b \in Pages : mem[b].st = "commit" /\ mem[b].alloc = a}
             IN  /\ touched' = touched \cup span /\ alive' = alive
                 /\ \A b \in Pages \ span : mem'[b] = mem[b]
  BY <1>5 DEF UnmapImage, Change
<1>6. ASSUME NEW a \in Pages, ListModule(a) \/ \E t \in Tids : StartThread(t, a)
      PROVE  touched' = touched \cup {a} /\ alive' = alive /\ mem' = mem
  BY <1>6 DEF ListModule, StartThread, Change
<1>7. CASE Exit
  BY <1>0, <1>7 DEF Exit, Change
<1> QED BY <1>1, <1>2, <1>3, <1>4, <1>5, <1>6, <1>7 DEF Target

\* Only the check of the module list speaks of two paths.
LEMMA MismatchOfReasons ==
  ASSUME NEW m, NEW bytes, NEW path, NEW known, NEW mods, NEW pe_layout, NEW starts
  PROVE  "ModulePathMismatch" \in RegionReasons(m, bytes, path, known, mods, pe_layout, starts)
           <=> "ModulePathMismatch"
                 \in AddModuleConsistency(m, ContainsMzPe(bytes), path, known, mods)
<1> DEFINE consistency == AddModuleConsistency(m, ContainsMzPe(bytes), path, known, mods)
           primary == PrimaryReasons(m, bytes, path, known, mods, pe_layout)
           imports == AddSuspiciousImportContext(m.type, ApiTagsOf(pe_layout), primary)
           packed  == AddHighEntropy(m, bytes, imports)
           overlay == AddLargeOverlay(m, path, packed)
           started == IF ThreadsInRegion(starts, m) # {} THEN {"PrivateThreadStart"} ELSE {}
           word    == "ModulePathMismatch"
<1>1. word \in primary <=> word \in consistency
  <2>1. word \notin AddImageHeaderComparison(bytes, path)
    BY DEF AddImageHeaderComparison
  <2>2. word \notin AddSectionProtectionCheck(m, pe_layout)
    BY DEF AddSectionProtectionCheck
  <2> HIDE DEF consistency
  <2> QED BY <2>1, <2>2 DEF PrimaryReasons, consistency
<1> HIDE DEF consistency, primary
<1>2. word \in imports <=> word \in primary
  BY DEF AddSuspiciousImportContext
<1> HIDE DEF imports
<1>3. word \in packed <=> word \in imports
  BY DEF AddHighEntropy
<1> HIDE DEF packed
<1>4. word \in overlay <=> word \in packed
  BY DEF AddLargeOverlay
<1> HIDE DEF overlay
<1>5. RegionReasons(m, bytes, path, known, mods, pe_layout, starts) = overlay \cup started
  BY DEF RegionReasons, overlay, packed, imports, primary
<1>6. word \notin started
  OBVIOUS
<1> HIDE DEF started
<1> QED BY <1>1, <1>2, <1>3, <1>4, <1>5, <1>6 DEF consistency

\* What a finding says of its two names.
SaysItsNames(f) ==
  f.is_pe /\ f.module_path # NoName /\ f.mapped_path # NoName =>
    ("ModulePathMismatch" \in f.reasons)
      = (NormalizePath(f.mapped_path) # NormalizePath(f.module_path))

LEMMA JudgedSays ==
  ASSUME modules_known \/ modules = NoModules, mbi.alloc \in Pages
  PROVE  JudgedAnomaly.mapped_path = mapped /\ SaysItsNames(JudgedAnomaly)
<1> DEFINE f == JudgedAnomaly
<1>1. /\ f.mapped_path = mapped /\ f.is_pe = ContainsMzPe(head)
      /\ f.module_path = ModulePath(mbi, modules)
      /\ f.reasons = RegionReasons(mbi, head, mapped, modules_known, modules, layout, thread_starts)
  BY DEF JudgedAnomaly, AnomalyOf
<1> HIDE DEF f
<1>2. ASSUME f.is_pe, f.module_path # NoName, f.mapped_path # NoName
      PROVE  ("ModulePathMismatch" \in f.reasons)
               = (NormalizePath(f.mapped_path) # NormalizePath(f.module_path))
  <2>1. /\ AtAllocationBase(mbi) /\ modules[mbi.alloc] # NotListed
        /\ f.module_path = modules[mbi.alloc]
    BY <1>1, <1>2 DEF ModulePath
  <2>2. modules_known
    BY <2>1 DEF NoModules
  <2>3. ("ModulePathMismatch" \in f.reasons)
          <=> "ModulePathMismatch"
                \in AddModuleConsistency(mbi, ContainsMzPe(head), mapped, modules_known, modules)
    BY <1>1, MismatchOfReasons
  <2>4. AddModuleConsistency(mbi, ContainsMzPe(head), mapped, modules_known, modules)
          = IF NormalizePath(mapped) # NormalizePath(modules[mbi.alloc])
            THEN {"ModulePathMismatch"} ELSE {}
    BY <1>1, <1>2, <2>1, <2>2 DEF AddModuleConsistency
  <2> QED BY <1>1, <2>1, <2>3, <2>4
<1> QED BY <1>1, <1>2 DEF SaysItsNames, f

LEMMA FindingsInPages ==
  ASSUME TypeOK
  PROVE  mbi.base \in Pages /\ mbi.alloc \in Pages /\ \A i \in DOMAIN out : out[i].base \in Pages
<1>1. \A i \in DOMAIN out : out[i] \in Anomaly
  BY OutTypes, ElementOfSeq
<1> QED BY <1>1 DEF Anomaly, TypeOK, Regions

LEMMA StepPath ==
  ASSUME TypeOK, PathInv, [Next]_vars
  PROVE  PathInv'
<1> USE DEF target, context, region, results, history
<1> DEFINE Asked == pc \in {"probe", "layout", "private", "judge"} =>
                      mbi.base \in touched \/ mapped = MappedPath(mem, mbi.base)
           Known == modules_known \/ modules = NoModules
           Found == \A i \in DOMAIN out :
                      /\ out[i].base \in touched \/ out[i].mapped_path = MappedPath(mem, out[i].base)
                      /\ SaysItsNames(out[i])
           Gone  == alive \/ touched = Pages
<1>0. Asked /\ Known /\ Found /\ Gone
  BY DEF PathInv, SaysItsNames
<1> SUFFICES Asked' /\ Known' /\ Found' /\ Gone'
  BY DEF PathInv, SaysItsNames
<1>1. CASE UNCHANGED vars
  BY <1>0, <1>1 DEF vars, MappedPath, SaysItsNames
<1>2. CASE Target
  <2>1. \A b \in Pages \ touched' : MappedPath(mem', b) = MappedPath(mem, b)
    BY <1>2, TargetTouches DEF MappedPath
  <2>2. /\ touched \subseteq touched' /\ touched \subseteq Pages /\ touched' \subseteq Pages
        /\ alive' = alive \/ touched' = Pages
    BY <1>2, TargetTouches, TargetType DEF TypeOK
  <2>3. UNCHANGED <<pc, context, image_cache, p, region, results>>
    BY <1>2, TargetKeeps
  <2>4. Known' /\ Gone'
    BY <1>0, <2>2, <2>3
  <2>5. Asked'
    BY <1>0, <2>1, <2>2, <2>3, FindingsInPages
  <2>6. ASSUME NEW i \in DOMAIN out
        PROVE  /\ out[i].base \in touched' \/ out[i].mapped_path = MappedPath(mem', out[i].base)
               /\ SaysItsNames(out[i])
    BY <1>0, <2>1, <2>2, <2>6, FindingsInPages
  <2>7. out' = out
    BY <2>3
  <2> QED BY <2>4, <2>5, <2>6, <2>7 DEF SaysItsNames
<1>3. CASE Scanner
  <2>0. UNCHANGED <<target, history>>
    BY <1>3 DEF Scanner, OpenFails, Open, CollectThreadStarts, CollectModules, StopWalk, QueryRegion,
                ResolvePath, Probe, CachedLayout, LoadImageLayout, ReadPrivatePe, Judge,
                CaptureEvidence
  <2>1. Gone'
    BY <1>0, <2>0
  <2>2. Known'
    <3>1. CASE CollectModules
      BY <3>1 DEF CollectModules
    <3>2. CASE modules' = modules /\ modules_known' = modules_known
      BY <1>0, <3>2
    <3> QED BY <1>3, <3>1, <3>2
      DEF Scanner, OpenFails, Open, CollectThreadStarts, StopWalk, QueryRegion, ResolvePath, Probe,
          CachedLayout, LoadImageLayout, ReadPrivatePe, Judge, CaptureEvidence
  <2>3. Asked'
    <3>1. CASE pc' \notin {"probe", "layout", "private", "judge"}
      BY <3>1
    <3>2. CASE ResolvePath
      BY <1>0, <2>0, <3>2, FindingsInPages DEF ResolvePath
    <3>3. CASE Probe \/ CachedLayout \/ LoadImageLayout \/ ReadPrivatePe
      <4>1. /\ pc \in {"probe", "layout", "private", "judge"}
            /\ mbi' = mbi /\ mapped' = mapped
        BY <3>3 DEF Probe, CachedLayout, LoadImageLayout, ReadPrivatePe
      <4> QED BY <1>0, <2>0, <4>1
    <3>4. CASE OpenFails \/ Open \/ CollectThreadStarts \/ CollectModules \/ StopWalk
      BY <3>1, <3>4 DEF OpenFails, Open, CollectThreadStarts, CollectModules, StopWalk
    <3>5. CASE QueryRegion
      <4>1. pc' \in {"resolve", "walk"}
        BY <3>5 DEF QueryRegion
      <4> QED BY <3>1, <4>1
    <3>6. CASE Judge \/ CaptureEvidence
      <4>1. pc' \in {"evidence", "walk"}
        BY <3>6 DEF Judge, CaptureEvidence
      <4> QED BY <3>1, <4>1
    <3> QED BY <1>3, <3>2, <3>3, <3>4, <3>5, <3>6 DEF Scanner
  <2>4. Found'
    <3>1. CASE out' = out
      BY <1>0, <2>0, <3>1 DEF SaysItsNames
    <3>2. CASE pc = "judge" /\ out' = Append(out, JudgedAnomaly)
      <4>1. SaysItsNames(JudgedAnomaly) /\ JudgedAnomaly.mapped_path = mapped
        BY <1>0, JudgedSays, FindingsInPages
      <4>2. JudgedAnomaly.base = mbi.base
        BY OutTypes
      <4> HIDE DEF JudgedAnomaly
      <4>3. ASSUME NEW i \in DOMAIN out'
            PROVE  /\ out'[i].base \in touched \/ out'[i].mapped_path = MappedPath(mem, out'[i].base)
                   /\ SaysItsNames(out'[i])
        <5>1. CASE i \in DOMAIN out
          <6>1. out'[i] = out[i]
            BY <3>2, <5>1, OutAppended
          <6> QED BY <1>0, <5>1, <6>1
        <5>2. CASE i = Len(out) + 1
          <6>1. out'[i] = JudgedAnomaly
            BY <3>2, <5>2, OutAppended
          <6> QED BY <1>0, <3>2, <4>1, <4>2, <6>1
        <5>3. i \in DOMAIN out \/ i = Len(out) + 1
          BY <3>2, OutAppended, OutTypes
        <5> QED BY <5>1, <5>2, <5>3
      <4>4. mem' = mem /\ touched' = touched
        BY <2>0
      <4> QED BY <4>3, <4>4 DEF SaysItsNames
    <3> QED BY <3>1, <3>2, StepOut
  <2> QED BY <2>1, <2>2, <2>3, <2>4
<1> QED BY <1>1, <1>2, <1>3 DEF Next, Done

\* Where each file is found on its drive and no other path names it, the two paths of an
\* untouched image are said to disagree exactly if the loader lists another file than
\* the one that is mapped, whatever the target does (memscan.cpp:72-90, 422-438).
THEOREM PathsCompared ==
  ASSUME DrivesTellApart
  PROVE  Spec => []PathMismatchExact
<1>1. Init => TypeOK /\ CountInv /\ PathInv
  BY InitType DEF Init, CountInv, PathInv
<1>2. TypeOK /\ CountInv /\ PathInv /\ [Next]_vars => (TypeOK /\ CountInv /\ PathInv)'
  BY StepType, StepPath
<1>3. TypeOK /\ PathInv => PathMismatchExact
  <2> SUFFICES ASSUME TypeOK, PathInv, NEW i \in DOMAIN out,
                      out[i].base \notin touched, out[i].is_pe,
                      out[i].module_path # NoName, out[i].mapped_path # NoName
               PROVE  ("ModulePathMismatch" \in out[i].reasons)
                        = (out[i].module_path \notin PathsOf[mem[out[i].base].file])
    BY DEF PathMismatchExact
  <2>1. /\ out[i].mapped_path = MappedPath(mem, out[i].base)
        /\ ("ModulePathMismatch" \in out[i].reasons)
             = (NormalizePath(out[i].mapped_path) # NormalizePath(out[i].module_path))
    BY DEF PathInv
  <2>2. out[i] \in Anomaly
    BY OutTypes, ElementOfSeq
  <2>3. out[i].base \in Pages /\ out[i].module_path \in Names
    BY <2>2 DEF Anomaly
  <2>4. mem[out[i].base] \in PageState
    BY <2>3 DEF TypeOK
  <2>5. /\ mem[out[i].base].file \in Files
        /\ out[i].mapped_path = DosPathFromDevice(mem[out[i].base].file)
    BY <2>1, <2>4 DEF MappedPath, PageState
  <2> QED BY <2>1, <2>3, <2>5 DEF DrivesTellApart
<1> QED BY <1>1, <1>2, <1>3, PTL DEF Spec
=============================================================================
