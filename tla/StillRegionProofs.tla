------------------------- MODULE StillRegionProofs -------------------------
(***************************************************************************)
(* The walk of ScanPid takes many calls while the target runs: that it     *)
(* nevertheless reports a region which stands still as if it had looked    *)
(* once, for every address space, module list, thread map and change that  *)
(* the target may make elsewhere.                                          *)
(***************************************************************************)
EXTENDS ProcessScanProofs

(***************************************************************************)
(* The inductive invariant.                                                *)
(***************************************************************************)

\* Nobody touched a page that a header probe at allocation A reaches.
Quiet(A) == \A q \in touched : q < A \/ \A k \in Range(LayoutProbes) : q >= A + k

\* The layout of the image at A, read in one instant.
Readable(A) == {k \in Range(LayoutProbes) : CanRead(mem, A, k)}
ImageLayout(A) ==
  IF Readable(A) = {} THEN NoLayout
  ELSE [head |-> mem[A].content, pages |-> CHOOSE k \in Readable(A) : \A l \in Readable(A) : l <= k]

\* The first page, read in one instant.
InstantHead(b) == IF CanRead(mem, b, 1) THEN mem[b].content ELSE NoBytes

\* What the cache says of an allocation is what its headers say.
CacheInv ==
  \A A \in Pages : image_cache[A] # NotCached /\ Quiet(A) => image_cache[A] = ImageLayout(A)

\* The snapshot of the module list differs from the list only where it was changed.
ListInv == modules_known => \A a \in Pages : a \in touched \/ modules[a] = ldr[a]

\* The walk begins after the snapshots, the layout probes begin with the largest, and
\* what is read again for its imports is private.
StageInv ==
  /\ pc \in {"open", "threads", "modules"} => p = 0
  /\ pc \in {"resolve", "probe"} => attempt = 1
  /\ pc = "private" => mbi.type = "PRIVATE"

\* The probes that were tried would fail again.
ProbeInv ==
  \A A \in Pages :
    pc = "layout" /\ mbi.alloc = A /\ Quiet(A) =>
      \A j \in 1..(attempt - 1) : ~CanRead(mem, A, LayoutProbes[j])

\* What the scanner holds of the region at hand is what it would see there now.
HeldInv ==
  \A b \in Pages : \A n \in 1..(NumPages - b) :
    InRegion /\ mbi.base = b /\ Still(b, n) =>
      /\ mbi = RegionAt(mem, b, n) /\ mem[b].st = "commit"
      /\ pc # "resolve" => mapped = MappedPath(mem, b) /\ ~ShouldIgnore(mapped)
      /\ pc \in {"layout", "private", "judge"} => head = InstantHead(b)
      /\ pc = "judge" => layout = InstantLayout(b, n)

\* The findings at b, and those that one look at the n pages at b would yield.
FoundAt(b) == {f \in Range(out) : f.base = b}
Expected(b, n) ==
  {f \in {InstantAnomaly(b, n)} :
     mem[b].st = "commit" /\ ~ShouldIgnore(MappedPath(mem, b)) /\ Reported(f)}

\* Every still region that the walk has left behind was reported exactly.
ExactInv ==
  \A b \in Pages : \A n \in 1..(NumPages - b) :
    /\ Still(b, n) /\ b < p
    /\ ~(InRegion /\ mbi.base = b)
    => FoundAt(b) = Expected(b, n)

StillInv == CacheInv /\ ListInv /\ StageInv /\ ProbeInv /\ HeldInv /\ ExactInv

(***************************************************************************)
(* What the target cannot disturb.                                         *)
(***************************************************************************)

\* The target changes nothing outside the pages that it touches.
Elsewhere ==
  /\ touched \subseteq touched'
  /\ \A b \in Pages \ touched' : mem'[b] = mem[b] /\ ldr'[b] = ldr[b]

LEMMA TargetElsewhere ==
  ASSUME TypeOK, Target
  PROVE  Elsewhere
<1>1. ASSUME NEW a \in Pages, ListModule(a), NEW b \in Pages \ touched'
      PROVE  ldr'[b] = ldr[b]
  <2>1. touched' = touched \cup {a} /\ ldr \in [Pages -> Names \cup {NoName, NotListed}]
    BY <1>1 DEF ListModule, Change, TypeOK, ModuleLists
  <2>2. PICK path : ldr' = [ldr EXCEPT ![a] = path]
    BY <1>1 DEF ListModule
  <2> QED BY <2>1, <2>2
<1>2. \A b \in Pages \ touched' : ldr'[b] = ldr[b]
  <2>1. CASE \E a \in Pages : ListModule(a)
    BY <1>1, <2>1
  <2>2. CASE ldr' = ldr
    BY <2>2
  <2>3. ldr' = ldr \/ \E a \in Pages : ListModule(a)
    BY DEF Target, Protect, Write, AllocatePrivate, MapImage, UnmapImage, StartThread, Exit
  <2> QED BY <2>1, <2>2, <2>3
<1> QED BY <1>2, TargetTouches DEF Elsewhere

LEMMA ProbeSizes ==
  /\ \A k \in Range(LayoutProbes) : k \in Nat \ {0}
  /\ Range(LayoutProbes) # {}
  /\ DOMAIN LayoutProbes = 1..Len(LayoutProbes) /\ Len(LayoutProbes) \in Nat \ {0}
  /\ \A i \in 1..Len(LayoutProbes) : LayoutProbes[i] \in Range(LayoutProbes)
<1>1. /\ LayoutProbes \in Seq(Nat \ {0}) /\ Len(LayoutProbes) \in Nat \ {0}
      /\ DOMAIN LayoutProbes = 1..Len(LayoutProbes)
  BY ScanAssumption, LenProperties
<1>2. \A i \in 1..Len(LayoutProbes) : LayoutProbes[i] \in Nat \ {0}
  BY <1>1, ElementOfSeq
<1>3. 1 \in 1..Len(LayoutProbes)
  BY <1>1
<1> QED BY <1>1, <1>2, <1>3 DEF Range

\* A probe at a quiet allocation meets only pages that nobody touched.
LEMMA QuietReach ==
  ASSUME TypeOK, NEW A \in Pages, Quiet(A), NEW k \in Range(LayoutProbes)
  PROVE  A \notin touched /\ \A q \in Pages : q \in A..(A + k - 1) => q \notin touched
<1>1. k \in Nat \ {0} /\ A \in Nat /\ Pages \subseteq Nat /\ touched \subseteq Pages
  BY ProbeSizes, ScanAssumption DEF Pages, TypeOK
<1>2. \A q \in touched : q < A \/ q >= A + k
  BY DEF Quiet
<1> QED BY <1>1, <1>2

LEMMA StillParts ==
  ASSUME TypeOK, NEW b \in Pages, NEW n \in 1..(NumPages - b), Still(b, n)
  PROVE  /\ \A q \in (b - 1)..(b + n) : q \notin touched
         /\ b \notin touched /\ b \in Nat /\ n \in Nat \ {0} /\ b + n <= NumPages
         /\ mem[b] \in PageState /\ mem[b].alloc \in Pages /\ Quiet(mem[b].alloc)
         /\ touched # Pages
<1>1. b \in Nat /\ n \in Nat \ {0} /\ b + n <= NumPages
  BY ScanAssumption DEF Pages
<1>2. \A q \in (b - 1)..(b + n) : q \notin touched
  BY DEF Still
<1>3. b \in (b - 1)..(b + n)
  BY <1>1
<1>4. mem[b] \in PageState /\ mem[b].alloc \in Pages
  BY DEF TypeOK, PageState
<1>5. Quiet(mem[b].alloc)
  BY DEF Still, Quiet
<1> QED BY <1>1, <1>2, <1>3, <1>4, <1>5

\* Reads of untouched pages.
LEMMA SameReads ==
  ASSUME TypeOK, TypeOK', Elsewhere, NEW a \in Pages, NEW k \in Nat \ {0},
         \A q \in Pages : q \in a..(a + k - 1) => q \notin touched'
  PROVE  CanRead(mem', a, k) <=> CanRead(mem, a, k)
<1>1. CASE a + k <= NumPages
  <2>1. \A q \in a..(a + k - 1) : q \in Pages
    BY <1>1, ScanAssumption DEF Pages
  <2>2. \A q \in a..(a + k - 1) : mem'[q] = mem[q]
    BY <2>1 DEF Elsewhere
  <2> QED BY <2>2 DEF CanRead
<1>2. CASE ~(a + k <= NumPages)
  BY <1>2 DEF CanRead
<1> QED BY <1>1, <1>2

\* The headers of a quiet allocation are what they were.
LEMMA QuietBefore ==
  ASSUME TypeOK, TypeOK', Elsewhere, NEW A \in Pages, Quiet(A)'
  PROVE  /\ Quiet(A)
         /\ \A k \in Range(LayoutProbes) : CanRead(mem', A, k) <=> CanRead(mem, A, k)
         /\ mem'[A] = mem[A]
         /\ ImageLayout(A)' = ImageLayout(A)
<1>1. Quiet(A)
  BY DEF Quiet, Elsewhere
<1>2. \A k \in Range(LayoutProbes) :
        A \notin touched' /\ \A q \in Pages : q \in A..(A + k - 1) => q \notin touched'
  <2>1. \A k \in Range(LayoutProbes) : k \in Nat \ {0}
    BY ProbeSizes
  <2>2. A \in Nat /\ Pages \subseteq Nat /\ touched' \subseteq Pages
    BY ScanAssumption DEF Pages, TypeOK
  <2>3. \A k \in Range(LayoutProbes) : \A q \in touched' : q < A \/ q >= A + k
    BY DEF Quiet
  <2> QED BY <2>1, <2>2, <2>3
<1>3. ASSUME NEW k \in Range(LayoutProbes)
      PROVE  CanRead(mem', A, k) <=> CanRead(mem, A, k)
  BY <1>2, ProbeSizes, SameReads
<1>4. mem'[A] = mem[A]
  BY <1>2, ProbeSizes DEF Elsewhere
<1>5. Readable(A)' = Readable(A)
  BY <1>3 DEF Readable
<1> QED BY <1>1, <1>3, <1>4, <1>5 DEF ImageLayout

\* What is still after a step was still before it, and looks the same.
LEMMA StillBefore ==
  ASSUME TypeOK, TypeOK', Elsewhere, NEW b \in Pages, NEW n \in 1..(NumPages - b), Still(b, n)'
  PROVE  /\ Still(b, n) /\ b \notin touched' /\ mem'[b] = mem[b] /\ ldr'[b] = ldr[b]
         /\ InstantLayout(b, n)' = InstantLayout(b, n)
         /\ InstantHead(b)' = InstantHead(b)
         /\ \A k \in Range(LayoutProbes) : CanRead(mem', mem[b].alloc, k) <=> CanRead(mem, mem[b].alloc, k)
<1>1. b \in Nat /\ n \in Nat \ {0} /\ b + n <= NumPages /\ NumPages \in Nat
  BY ScanAssumption DEF Pages
<1>2. \A q \in (b - 1)..(b + n) : q \notin touched'
  BY DEF Still
<1>3. \A q \in Pages : q \in (b - 1)..(b + n) => mem'[q] = mem[q]
  BY <1>2 DEF Elsewhere
<1>4. b \notin touched' /\ mem'[b] = mem[b] /\ ldr'[b] = ldr[b] /\ mem[b].alloc \in Pages
  <2>1. b \in (b - 1)..(b + n)
    BY <1>1
  <2> QED BY <1>2, <2>1 DEF Elsewhere, TypeOK, PageState
<1>5. /\ Quiet(mem[b].alloc)'
      /\ Quiet(mem[b].alloc)
      /\ \A k \in Range(LayoutProbes) : CanRead(mem', mem[b].alloc, k) <=> CanRead(mem, mem[b].alloc, k)
      /\ mem'[mem[b].alloc] = mem[mem[b].alloc]
  <2> DEFINE A == mem[b].alloc
  <2>1. \A q \in touched' : q < A \/ \A k \in Range(LayoutProbes) : q >= A + k
    BY <1>4 DEF Still
  <2>2. PICK A0 \in Pages : A0 = A
    BY <1>4
  <2>3. Quiet(A0)'
    BY <2>1, <2>2 DEF Quiet
  <2>4. /\ Quiet(A0)
        /\ \A k \in Range(LayoutProbes) : CanRead(mem', A0, k) <=> CanRead(mem, A0, k)
        /\ mem'[A0] = mem[A0]
    BY <2>3, QuietBefore
  <2> QED BY <1>4, <2>2, <2>3, <2>4 DEF Quiet
<1>6. Still(b, n)
  <2>1. IsRegion(mem, b, n)
    <3>1. IsRegion(mem', b, n)
      BY DEF Still
    <3>2. \A c \in b..(b + n - 1) : c \in Pages /\ c \in (b - 1)..(b + n)
      BY <1>1 DEF Pages
    <3>3. b + n < NumPages => b + n \in Pages /\ b + n \in (b - 1)..(b + n)
      BY <1>1 DEF Pages
    <3> QED BY <1>3, <1>4, <3>1, <3>2, <3>3 DEF IsRegion, SameRegion
  <2>2. b > 0 => ~SameRegion(mem, b - 1, b)
    <3>1. b > 0 => b - 1 \in Pages /\ b - 1 \in (b - 1)..(b + n)
      BY <1>1 DEF Pages
    <3>2. b > 0 => ~SameRegion(mem', b - 1, b)
      BY DEF Still
    <3> QED BY <1>3, <1>4, <3>1, <3>2 DEF SameRegion
  <2>3. touched \cap ((b - 1)..(b + n)) = {}
    BY <1>2 DEF Elsewhere
  <2> QED BY <1>5, <2>1, <2>2, <2>3 DEF Still, Quiet
<1>7. ASSUME NEW k \in 1..n
      PROVE  CanRead(mem', b, k) <=> CanRead(mem, b, k)
  <2>1. \A q \in Pages : q \in b..(b + k - 1) => q \notin touched'
    BY <1>1, <1>2
  <2> QED BY <2>1, SameReads
<1>8. InstantHead(b)' = InstantHead(b)
  BY <1>1, <1>4, <1>7 DEF InstantHead
<1>9. InstantLayout(b, n)' = InstantLayout(b, n)
  <2>1. CASE mem[b].type = "IMAGE"
    <3> DEFINE good == {k \in Range(LayoutProbes) : CanRead(mem, mem[b].alloc, k)}
    <3>1. good = {k \in Range(LayoutProbes) : CanRead(mem', mem'[b].alloc, k)}
      BY <1>4, <1>5
    <3>2. InstantLayout(b, n) = IF good = {} THEN NoLayout
                                ELSE [head |-> mem[mem[b].alloc].content,
                                      pages |-> CHOOSE k \in good : \A l \in good : l <= k]
      BY <2>1 DEF InstantLayout
    <3>3. InstantLayout(b, n)' = IF good = {} THEN NoLayout
                                 ELSE [head |-> mem'[mem[b].alloc].content,
                                       pages |-> CHOOSE k \in good : \A l \in good : l <= k]
      <4> HIDE DEF good
      <4> QED BY <1>4, <2>1, <3>1 DEF InstantLayout
    <3> HIDE DEF good
    <3> QED BY <1>5, <3>2, <3>3
  <2>2. CASE mem[b].type # "IMAGE"
    <3> DEFINE s == Smaller(n, PeReadPages)
               good == {k \in {s} : CanRead(mem, b, k)}
    <3>1. s \in 1..n
      BY <1>1, ScanAssumption DEF Smaller
    <3>2. good = {k \in {s} : CanRead(mem', b, k)}
      <4> HIDE DEF s
      <4> QED BY <1>7, <3>1
    <3> QED BY <1>4, <2>2, <3>2 DEF InstantLayout
  <2> QED BY <2>1, <2>2
<1> QED BY <1>4, <1>5, <1>6, <1>8, <1>9

(***************************************************************************)
(* What would be said of a region in one instant.                          *)
(***************************************************************************)

\* Of the loader's list, only the entry of the allocation matters.
LEMMA ListsThatAgree ==
  ASSUME NEW m, NEW path, NEW bytes, NEW pe_layout, NEW known, NEW mods, NEW mods2, NEW starts,
         NEW name, AtAllocationBase(m) => mods[m.alloc] = mods2[m.alloc]
  PROVE  AnomalyOf(m, path, bytes, pe_layout, known, mods, starts, name)
           = AnomalyOf(m, path, bytes, pe_layout, known, mods2, starts, name)
<1>1. AddModuleConsistency(m, ContainsMzPe(bytes), path, known, mods)
        = AddModuleConsistency(m, ContainsMzPe(bytes), path, known, mods2)
  BY DEF AddModuleConsistency
<1>2. PrimaryReasons(m, bytes, path, known, mods, pe_layout)
        = PrimaryReasons(m, bytes, path, known, mods2, pe_layout)
  BY <1>1 DEF PrimaryReasons
<1>3. RegionReasons(m, bytes, path, known, mods, pe_layout, starts)
        = RegionReasons(m, bytes, path, known, mods2, pe_layout, starts)
  BY <1>2 DEF RegionReasons
<1>4. ModulePath(m, mods) = ModulePath(m, mods2)
  BY DEF ModulePath
<1> QED BY <1>3, <1>4 DEF AnomalyOf

LEMMA ExpectedBefore ==
  ASSUME TypeOK, TypeOK', Elsewhere, UNCHANGED <<process, thread_starts, modules_known>>,
         NEW b \in Pages, NEW n \in 1..(NumPages - b), Still(b, n)'
  PROVE  Expected(b, n)' = Expected(b, n)
<1> DEFINE m == RegionAt(mem, b, n)
           path == MappedPath(mem, b)
           mods == IF modules_known THEN ldr ELSE NoModules
<1>1. /\ mem'[b] = mem[b] /\ ldr'[b] = ldr[b]
      /\ InstantLayout(b, n)' = InstantLayout(b, n) /\ InstantHead(b)' = InstantHead(b)
  BY StillBefore
<1>2. RegionAt(mem', b, n) = m /\ MappedPath(mem', b) = path
  BY <1>1 DEF RegionAt, MappedPath
<1>3. /\ InstantAnomaly(b, n) = AnomalyOf(m, path, InstantHead(b), InstantLayout(b, n), modules_known,
                                          mods, thread_starts, process)
      /\ InstantAnomaly(b, n)' = AnomalyOf(m, path, InstantHead(b), InstantLayout(b, n),
                                           modules_known, mods', thread_starts, process)
  <2>1. InstantAnomaly(b, n) = AnomalyOf(m, path, InstantHead(b), InstantLayout(b, n), modules_known,
                                          mods, thread_starts, process)
    BY DEF InstantAnomaly, InstantHead
  <2>2. InstantAnomaly(b, n)' = AnomalyOf(RegionAt(mem', b, n), MappedPath(mem', b), InstantHead(b)',
                                          InstantLayout(b, n)', modules_known', mods', thread_starts',
                                          process')
    BY DEF InstantAnomaly, InstantHead
  <2> HIDE DEF m, path, mods
  <2> QED BY <1>1, <1>2, <2>1, <2>2
<1>4. AtAllocationBase(m) => mods[m.alloc] = mods'[m.alloc]
  <2>1. AtAllocationBase(m) => m.alloc = b
    BY DEF AtAllocationBase, RegionAt
  <2> HIDE DEF m
  <2> QED BY <1>1, <2>1
<1>5. InstantAnomaly(b, n)' = InstantAnomaly(b, n)
  <2> HIDE DEF m, path, mods
  <2> QED BY <1>3, <1>4, ListsThatAgree
<1> QED BY <1>1, <1>2, <1>5 DEF Expected, ShouldIgnore, Reported

\* The layout of one instant, by the type of the region.
LEMMA LayoutOfType ==
  ASSUME TypeOK, NEW b \in Pages, NEW n \in 1..(NumPages - b)
  PROVE  /\ mem[b].type = "IMAGE" => InstantLayout(b, n) = ImageLayout(mem[b].alloc)
         /\ mem[b].type = "MAPPED" => InstantLayout(b, n) = NoLayout
         /\ mem[b].type = "PRIVATE" =>
              InstantLayout(b, n) =
                IF CanRead(mem, b, Smaller(n, PeReadPages)) /\ Pe[mem[b].content].valid
                THEN [head |-> mem[b].content, pages |-> Smaller(n, PeReadPages)] ELSE NoLayout
<1>1. CASE mem[b].type = "IMAGE"
  BY <1>1 DEF InstantLayout, ImageLayout, Readable
<1>2. CASE mem[b].type = "MAPPED"
  BY <1>2 DEF InstantLayout
<1>3. CASE mem[b].type = "PRIVATE"
  <2> DEFINE s == Smaller(n, PeReadPages)
             good == {k \in {s} : CanRead(mem, b, k)}
  <2>1. s \in Nat
    BY ScanAssumption DEF Smaller, Pages
  <2>2. InstantLayout(b, n) =
          IF good = {} \/ ~Pe[mem[b].content].valid THEN NoLayout
          ELSE [head |-> mem[b].content, pages |-> CHOOSE k \in good : \A l \in good : l <= k]
    BY <1>3 DEF InstantLayout
  <2> HIDE DEF s
  <2>3. CASE CanRead(mem, b, s)
    <3>1. good = {s}
      BY <2>3
    <3> HIDE DEF good
    <3>2. (CHOOSE k \in good : \A l \in good : l <= k) = s
      BY <2>1, <3>1
    <3> QED BY <1>3, <2>2, <2>3, <3>1, <3>2 DEF s
  <2>4. CASE ~CanRead(mem, b, s)
    <3>1. good = {}
      BY <2>4
    <3> QED BY <1>3, <2>2, <2>4, <3>1 DEF s
  <2> QED BY <2>3, <2>4
<1> QED BY <1>1, <1>2, <1>3 DEF TypeOK, PageState, Types

\* The first of the decreasing probes to be read is the largest that can be.
LEMMA FirstProbe ==
  ASSUME TypeOK, NEW A \in Pages, NEW i \in 1..Len(LayoutProbes),
         \A j \in 1..(i - 1) : ~CanRead(mem, A, LayoutProbes[j])
  PROVE  /\ CanRead(mem, A, LayoutProbes[i]) =>
              ImageLayout(A) = [head |-> mem[A].content, pages |-> LayoutProbes[i]]
         /\ ~CanRead(mem, A, LayoutProbes[i]) /\ i = Len(LayoutProbes) => ImageLayout(A) = NoLayout
<1>1. /\ DOMAIN LayoutProbes = 1..Len(LayoutProbes) /\ Len(LayoutProbes) \in Nat
      /\ \A j \in 1..Len(LayoutProbes) : LayoutProbes[j] \in Nat
      /\ \A j, l \in 1..Len(LayoutProbes) : j < l => LayoutProbes[j] > LayoutProbes[l]
  BY ProbeSizes, ScanAssumption
<1>2. ASSUME CanRead(mem, A, LayoutProbes[i])
      PROVE  ImageLayout(A) = [head |-> mem[A].content, pages |-> LayoutProbes[i]]
  <2>1. LayoutProbes[i] \in Readable(A)
    BY <1>2, ProbeSizes DEF Readable
  <2>2. ASSUME NEW k \in Readable(A) PROVE k <= LayoutProbes[i] /\ k \in Nat
    <3>1. PICK j \in 1..Len(LayoutProbes) : k = LayoutProbes[j] /\ CanRead(mem, A, k)
      BY <1>1, <2>2 DEF Readable, Range
    <3>2. ~(j < i)
      BY <3>1
    <3> QED BY <1>1, <3>1, <3>2
  <2>3. LayoutProbes[i] = CHOOSE k \in Readable(A) : \A l \in Readable(A) : l <= k
    <3>1. ASSUME NEW k \in Readable(A), \A l \in Readable(A) : l <= k
          PROVE  k = LayoutProbes[i]
      BY <1>1, <2>1, <2>2, <3>1
    <3> QED BY <2>1, <2>2, <3>1
  <2> QED BY <2>1, <2>3 DEF ImageLayout
<1>3. ASSUME ~CanRead(mem, A, LayoutProbes[i]), i = Len(LayoutProbes)
      PROVE  ImageLayout(A) = NoLayout
  <2>1. \A j \in 1..Len(LayoutProbes) : ~CanRead(mem, A, LayoutProbes[j])
    BY <1>1, <1>3
  <2>2. Readable(A) = {}
    BY <1>1, <2>1 DEF Readable, Range
  <2> QED BY <2>2 DEF ImageLayout
<1> QED BY <1>2, <1>3

(***************************************************************************)
(* Every step keeps the invariant.  Each lemma is about one conjunct.      *)
(***************************************************************************)

LEMMA StepElsewhere ==
  ASSUME TypeOK, [Next]_vars
  PROVE  Elsewhere
<1>1. CASE Target
  BY <1>1, TargetElsewhere
<1>2. CASE UNCHANGED <<target, history>>
  BY <1>2 DEF target, history, Elsewhere
<1>3. CASE Scanner
  BY <1>2, <1>3 DEF Scanner, OpenFails, Open, CollectThreadStarts, CollectModules, StopWalk,
     QueryRegion, ResolvePath, Probe, CachedLayout, LoadImageLayout, ReadPrivatePe, Judge,
     CaptureEvidence
<1> QED BY <1>1, <1>2, <1>3 DEF Next, Done, vars

\* A region that is still belongs to a process that runs.
LEMMA StillAlive ==
  ASSUME TypeOK, PathInv, NEW b \in Pages, NEW n \in 1..(NumPages - b), Still(b, n)
  PROVE  alive
BY StillParts DEF PathInv

\* VirtualQueryEx has one answer for an address.
LEMMA OneRegion ==
  ASSUME NEW m, NEW b \in Nat, NEW n, NEW k, IsRegion(m, b, n), IsRegion(m, b, k)
  PROVE  n = k
<1>1. n \in Nat \ {0} /\ k \in Nat \ {0} /\ b + n <= NumPages /\ b + k <= NumPages /\ NumPages \in Nat
  BY ScanAssumption DEF IsRegion
<1>2. ~(n < k)
  <2> SUFFICES ASSUME n < k PROVE FALSE
    OBVIOUS
  <2>1. b + n \in b..(b + k - 1) /\ b + n < NumPages
    BY <1>1
  <2> QED BY <2>1 DEF IsRegion
<1>3. ~(k < n)
  <2> SUFFICES ASSUME k < n PROVE FALSE
    OBVIOUS
  <2>1. b + k \in b..(b + n - 1) /\ b + k < NumPages
    BY <1>1
  <2> QED BY <2>1 DEF IsRegion
<1> QED BY <1>1, <1>2, <1>3

\* No region starts inside another one.
LEMMA NoBorderInside ==
  ASSUME NEW m, NEW a \in Nat, NEW n, NEW b \in Nat, IsRegion(m, a, n), a < b, b < a + n
  PROVE  SameRegion(m, b - 1, b)
<1>1. n \in Nat
  BY DEF IsRegion
<1>2. b - 1 \in a..(a + n - 1) /\ b \in a..(a + n - 1)
  BY <1>1
<1>3. SameRegion(m, a, b - 1) /\ SameRegion(m, a, b)
  BY <1>2 DEF IsRegion
<1> QED BY <1>3 DEF SameRegion

\* Where the walk has not been, nothing was found.
LEMMA NothingAhead ==
  ASSUME TypeOK, WalkInv, NEW b \in Nat, b >= IF InRegion THEN mbi.base ELSE p
  PROVE  FoundAt(b) = {}
<1>1. \A i \in DOMAIN out : out[i].base + out[i].size <= IF InRegion THEN mbi.base ELSE p
  BY DEF WalkInv
<1>2. \A i \in DOMAIN out : out[i].base \in Nat /\ out[i].size \in Nat \ {0}
  <2>1. \A i \in DOMAIN out : out[i] \in Anomaly
    BY OutTypes, ElementOfSeq
  <2> QED BY <2>1, ScanAssumption DEF Anomaly, Pages
<1>3. mbi.base \in Nat /\ p \in Nat
  BY OutTypes
<1>4. \A i \in DOMAIN out : out[i].base # b
  BY <1>1, <1>2, <1>3
<1> QED BY <1>4 DEF FoundAt, Range

LEMMA StepList ==
  ASSUME TypeOK, ListInv, [Next]_vars
  PROVE  ListInv'
<1>1. Elsewhere
  BY StepElsewhere
<1>2. CASE CollectModules
  BY <1>2 DEF CollectModules, ListInv, target, history
<1>3. CASE UNCHANGED <<modules, modules_known>>
  <2>1. \A a \in Pages : a \notin touched' => a \notin touched /\ ldr'[a] = ldr[a]
    BY <1>1 DEF Elsewhere
  <2> QED BY <1>3, <2>1 DEF ListInv
<1>4. CASE Scanner
  BY <1>2, <1>3, <1>4 DEF Scanner, OpenFails, Open, CollectThreadStarts, StopWalk, QueryRegion,
     ResolvePath, Probe, CachedLayout, LoadImageLayout, ReadPrivatePe, Judge, CaptureEvidence,
     context
<1>5. CASE Target
  BY <1>3, <1>5, TargetKeeps DEF context
<1> QED BY <1>3, <1>4, <1>5 DEF Next, Done, vars, context

LEMMA StepStage ==
  ASSUME TypeOK, StageInv, [Next]_vars
  PROVE  StageInv'
<1> USE DEF target, context, region, results, history, StageInv
<1>1. CASE UNCHANGED vars
  BY <1>1 DEF vars
<1>2. CASE Target
  BY <1>2, TargetKeeps
<1>3. CASE OpenFails \/ Open \/ CollectThreadStarts \/ CollectModules \/ StopWalk
  BY <1>3 DEF OpenFails, Open, CollectThreadStarts, CollectModules, StopWalk
<1>4. CASE QueryRegion
  <2>1. pc' \in {"resolve", "walk"} /\ attempt' = 1
    BY <1>4 DEF QueryRegion, FreshRegion
  <2> QED BY <2>1
<1>5. CASE ResolvePath
  <2>1. pc = "resolve" /\ pc' \in {"probe", "walk"} /\ attempt' = attempt
    BY <1>5 DEF ResolvePath
  <2> QED BY <2>1
<1>6. CASE Probe
  BY <1>6 DEF Probe, AfterProbe
<1>7. CASE CachedLayout \/ LoadImageLayout \/ ReadPrivatePe
  <2>1. pc' \in {"judge", "layout"}
    BY <1>7 DEF CachedLayout, LoadImageLayout, ReadPrivatePe
  <2> QED BY <2>1
<1>8. CASE Judge \/ CaptureEvidence
  <2>1. pc' \in {"evidence", "walk"}
    BY <1>8 DEF Judge, CaptureEvidence
  <2> QED BY <2>1
<1> QED BY <1>1, <1>2, <1>3, <1>4, <1>5, <1>6, <1>7, <1>8 DEF Next, Scanner, Done

\* What a read of the current probe says of a quiet allocation.
LEMMA QuietRead ==
  ASSUME TypeOK, PathInv, NEW A \in Pages, Quiet(A)
  PROVE  alive
<1>1. \E k \in Range(LayoutProbes) : TRUE
  BY ProbeSizes
<1>2. A \notin touched
  BY <1>1, QuietReach
<1> QED BY <1>2 DEF PathInv

LEMMA StepProbe ==
  ASSUME TypeOK, TypeOK', PathInv, StageInv, ProbeInv, [Next]_vars
  PROVE  ProbeInv'
<1> USE DEF target, context, region, results, history
<1> SUFFICES ASSUME NEW A \in Pages, pc' = "layout", mbi'.alloc = A, Quiet(A)'
             PROVE  \A j \in 1..(attempt' - 1) : ~CanRead(mem', A, LayoutProbes[j])
  BY DEF ProbeInv
<1>1. /\ Quiet(A)
      /\ \A k \in Range(LayoutProbes) : CanRead(mem', A, k) <=> CanRead(mem, A, k)
  BY StepElsewhere, QuietBefore
<1>2. /\ attempt \in 1..Len(LayoutProbes) /\ attempt' \in 1..Len(LayoutProbes)
      /\ Len(LayoutProbes) \in Nat
      /\ \A j \in 1..Len(LayoutProbes) : LayoutProbes[j] \in Range(LayoutProbes)
  BY ProbeSizes DEF TypeOK
<1>3. CASE pc = "layout" /\ mbi' = mbi /\ attempt' = attempt
  <2>1. \A j \in 1..(attempt - 1) : ~CanRead(mem, A, LayoutProbes[j])
    BY <1>1, <1>3 DEF ProbeInv
  <2> QED BY <1>1, <1>2, <1>3, <2>1
<1>4. CASE Probe
  <2>1. attempt' = 1
    BY <1>4 DEF Probe, StageInv
  <2> QED BY <2>1
<1>5. CASE LoadImageLayout
  <2>1. /\ pc = "layout" /\ mbi.alloc = A /\ attempt' = attempt + 1
        /\ ~(alive /\ CanRead(mem, A, LayoutProbes[attempt]))
    BY <1>5 DEF LoadImageLayout, LayoutBase
  <2>2. \A j \in 1..(attempt - 1) : ~CanRead(mem, A, LayoutProbes[j])
    BY <1>1, <2>1 DEF ProbeInv
  <2>3. ~CanRead(mem, A, LayoutProbes[attempt])
    BY <1>1, <2>1, QuietRead
  <2>4. ASSUME NEW j \in 1..(attempt' - 1)
        PROVE  ~CanRead(mem, A, LayoutProbes[j]) /\ LayoutProbes[j] \in Range(LayoutProbes)
    <3>1. j \in 1..(attempt - 1) \/ j = attempt
      BY <1>2, <2>1
    <3> QED BY <1>2, <2>2, <2>3, <3>1
  <2> QED BY <1>1, <2>4
<1>6. CASE Target
  BY <1>3, <1>6, TargetKeeps
<1>7. CASE Scanner /\ ~Probe /\ ~LoadImageLayout
  <2>1. FALSE
    BY <1>7 DEF Scanner, OpenFails, Open, CollectThreadStarts, CollectModules, StopWalk, QueryRegion,
       ResolvePath, CachedLayout, ReadPrivatePe, Judge, CaptureEvidence
  <2> QED BY <2>1
<1> QED BY <1>3, <1>4, <1>5, <1>6, <1>7 DEF Next, Done, vars

LEMMA StepCache ==
  ASSUME TypeOK, TypeOK', PathInv, ProbeInv, CacheInv, [Next]_vars
  PROVE  CacheInv'
<1> USE DEF target, context, region, results, history
<1> SUFFICES ASSUME NEW A \in Pages, image_cache'[A] # NotCached, Quiet(A)'
             PROVE  image_cache'[A] = ImageLayout(A)'
  BY DEF CacheInv, NotCached
<1>1. Quiet(A) /\ ImageLayout(A)' = ImageLayout(A)
  BY StepElsewhere, QuietBefore
<1>2. CASE image_cache'[A] = image_cache[A]
  BY <1>1, <1>2 DEF CacheInv
<1>3. CASE LoadImageLayout
  <2> DEFINE pages == LayoutProbes[attempt]
             found == alive /\ CanRead(mem, mbi.alloc, pages)
             last  == attempt = Len(LayoutProbes)
  <2>1. /\ pc = "layout" /\ image_cache \in [Pages -> Layouts] /\ mbi.alloc \in Pages
        /\ attempt \in 1..Len(LayoutProbes)
        /\ layout' = IF found THEN [head |-> mem[mbi.alloc].content, pages |-> pages] ELSE NoLayout
        /\ image_cache' = IF found \/ last THEN [image_cache EXCEPT ![mbi.alloc] = layout']
                          ELSE image_cache
    BY <1>3, ReadTypes DEF LoadImageLayout, LayoutBase, TypeOK
  <2>2. CASE mbi.alloc = A /\ (found \/ last)
    <3>1. image_cache'[A] = layout'
      BY <2>1, <2>2
    <3>2. \A j \in 1..(attempt - 1) : ~CanRead(mem, A, LayoutProbes[j])
      BY <1>1, <2>1, <2>2 DEF ProbeInv
    <3>3. alive
      BY <1>1, QuietRead
    <3> QED BY <1>1, <2>1, <2>2, <3>1, <3>2, <3>3, FirstProbe
  <2>3. CASE ~(mbi.alloc = A /\ (found \/ last))
    <3>1. image_cache'[A] = image_cache[A]
      BY <2>1, <2>3
    <3> QED BY <1>2, <3>1
  <2> QED BY <2>2, <2>3
<1>4. CASE Target
  BY <1>2, <1>4, TargetKeeps
<1>5. CASE Scanner /\ ~LoadImageLayout
  BY <1>2, <1>5 DEF Scanner, OpenFails, Open, CollectThreadStarts, CollectModules, StopWalk,
     QueryRegion, ResolvePath, Probe, CachedLayout, ReadPrivatePe, Judge, CaptureEvidence
<1> QED BY <1>2, <1>3, <1>4, <1>5 DEF Next, Done, vars

LEMMA StepHeld ==
  ASSUME TypeOK, TypeOK', PathInv, HeaderInv, StageInv, CacheInv, ProbeInv, HeldInv, [Next]_vars
  PROVE  HeldInv'
<1> USE DEF target, context, region, results, history
<1> SUFFICES ASSUME NEW b \in Pages, NEW n \in 1..(NumPages - b),
                    InRegion', mbi'.base = b, Still(b, n)'
             PROVE  /\ mbi' = RegionAt(mem', b, n) /\ mem'[b].st = "commit"
                    /\ pc' # "resolve" => mapped' = MappedPath(mem', b) /\ ~ShouldIgnore(mapped)'
                    /\ pc' \in {"layout", "private", "judge"} => head' = InstantHead(b)'
                    /\ pc' = "judge" => layout' = InstantLayout(b, n)'
  BY DEF HeldInv
<1>1. /\ Still(b, n) /\ mem'[b] = mem[b]
      /\ InstantLayout(b, n)' = InstantLayout(b, n) /\ InstantHead(b)' = InstantHead(b)
  BY StepElsewhere, StillBefore
<1>2. RegionAt(mem', b, n) = RegionAt(mem, b, n) /\ MappedPath(mem', b) = MappedPath(mem, b)
  BY <1>1 DEF RegionAt, MappedPath
<1>3. /\ alive /\ b \in Nat /\ n \in Nat \ {0} /\ mem[b] \in PageState
      /\ mem[b].alloc \in Pages /\ Quiet(mem[b].alloc) /\ IsRegion(mem, b, n)
  BY <1>1, StillAlive, StillParts DEF Still
<1>4. ASSUME InRegion, mbi.base = b
      PROVE  /\ mbi = RegionAt(mem, b, n) /\ mem[b].st = "commit"
             /\ pc # "resolve" => mapped = MappedPath(mem, b) /\ ~ShouldIgnore(mapped)
             /\ pc \in {"layout", "private", "judge"} => head = InstantHead(b)
             /\ pc = "judge" => layout = InstantLayout(b, n)
             /\ mbi.alloc = mem[b].alloc /\ mbi.type = mem[b].type /\ mbi.size = n
             /\ mbi.protect = mem[b].protect
  <2>1. mbi = RegionAt(mem, b, n)
    BY <1>1, <1>4 DEF HeldInv
  <2> QED BY <1>1, <1>4, <2>1 DEF HeldInv, RegionAt
<1>5. CASE UNCHANGED <<pc, mbi, mapped, head, layout, process>>
  <2>1. InRegion /\ mbi.base = b
    BY <1>5 DEF InRegion
  <2> QED BY <1>1, <1>2, <1>4, <1>5, <2>1 DEF ShouldIgnore
<1>6. CASE QueryRegion
  <2>1. PICK k \in 1..(NumPages - p) : IsRegion(mem, p, k) /\ mbi' = RegionAt(mem, p, k)
    BY <1>6 DEF QueryRegion
  <2>2. p = b
    BY <2>1 DEF RegionAt
  <2>3. k = n
    BY <1>3, <2>1, <2>2, OneRegion
  <2>4. pc' = "resolve" /\ mbi'.st = "commit"
    BY <1>6 DEF QueryRegion, InRegion
  <2>5. mem[b].st = "commit"
    BY <2>1, <2>2, <2>4 DEF RegionAt
  <2> QED BY <1>1, <1>2, <2>1, <2>2, <2>3, <2>4, <2>5
<1>7. CASE ResolvePath
  <2>1. /\ pc = "resolve" /\ pc' = "probe" /\ mbi' = mbi /\ process' = process
        /\ mapped' = MappedPath(mem, b) /\ ~ShouldIgnore(mapped')
    BY <1>3, <1>7 DEF ResolvePath, InRegion
  <2> QED BY <1>1, <1>2, <1>4, <2>1 DEF InRegion, ShouldIgnore
<1>8. CASE Probe
  <2>1. /\ pc = "probe" /\ mbi' = mbi /\ mapped' = mapped /\ layout' = layout /\ process' = process
        /\ head' = IF IsReadableProbeTarget(mbi.protect) /\ alive /\ CanRead(mem, mbi.base, 1)
                   THEN mem[mbi.base].content ELSE NoBytes
        /\ pc' = AfterProbe(head')
    BY <1>8 DEF Probe
  <2>2. InRegion /\ mbi.base = b
    BY <2>1 DEF InRegion
  <2>3. CanRead(mem, b, 1) => IsReadableProbeTarget(mem[b].protect)
    <3>1. b \in b..(b + 1 - 1)
      BY <1>3
    <3> QED BY <3>1 DEF CanRead
  <2>4. head' = InstantHead(b)
    BY <1>3, <1>4, <2>1, <2>2, <2>3 DEF InstantHead
  <2>5. ASSUME pc' = "judge" PROVE layout' = InstantLayout(b, n)
    <3>1. layout' = NoLayout
      BY <2>1 DEF HeaderInv
    <3>2. mbi.type # "IMAGE" /\ (mbi.type = "PRIVATE" => ~ContainsMzPe(head'))
      BY <2>1, <2>5 DEF AfterProbe
    <3>3. CASE mem[b].type = "MAPPED"
      BY <3>1, <3>3, LayoutOfType
    <3>4. CASE mem[b].type = "PRIVATE"
      <4> DEFINE s == Smaller(n, PeReadPages)
      <4>1. ~ContainsMzPe(InstantHead(b))
        BY <1>4, <2>2, <2>4, <3>2, <3>4
      <4>2. s \in Nat \ {0}
        BY <1>3, ScanAssumption DEF Smaller
      <4>3. CanRead(mem, b, s) => CanRead(mem, b, 1)
        <5> HIDE DEF s
        <5>1. b..(b + 1 - 1) \subseteq b..(b + s - 1)
          BY <1>3, <4>2
        <5>2. b + s <= NumPages => b + 1 <= NumPages
          BY <1>3, <4>2, ScanAssumption
        <5> QED BY <5>1, <5>2 DEF CanRead
      <4>4. ~(CanRead(mem, b, s) /\ Pe[mem[b].content].valid)
        <5>1. mem[b].content # NoBytes
          BY <1>3, SignalAssumption DEF PageState
        <5> QED BY <4>1, <4>3, <5>1 DEF InstantHead, ContainsMzPe
      <4> QED BY <3>1, <3>4, <4>4, LayoutOfType
    <3> QED BY <1>3, <1>4, <2>2, <3>2, <3>3, <3>4 DEF PageState, Types
  <2> QED BY <1>1, <1>2, <1>4, <2>1, <2>2, <2>4, <2>5 DEF ShouldIgnore
<1>9. CASE CachedLayout
  <2>1. /\ pc = "layout" /\ pc' = "judge" /\ UNCHANGED <<mbi, mapped, head, process>>
        /\ image_cache[mbi.alloc] # NotCached /\ layout' = image_cache[mbi.alloc]
    BY <1>9 DEF CachedLayout, LayoutBase
  <2>2. InRegion /\ mbi.base = b /\ mbi.type = "IMAGE"
    BY <2>1 DEF InRegion, HeaderInv
  <2>3. layout' = ImageLayout(mem[b].alloc)
    BY <1>3, <1>4, <2>1, <2>2 DEF CacheInv
  <2>4. layout' = InstantLayout(b, n)
    BY <1>4, <2>2, <2>3, LayoutOfType
  <2> QED BY <1>1, <1>2, <1>4, <2>1, <2>2, <2>4 DEF ShouldIgnore
<1>10. CASE LoadImageLayout
  <2> DEFINE pages == LayoutProbes[attempt]
             found == alive /\ CanRead(mem, mbi.alloc, pages)
             last  == attempt = Len(LayoutProbes)
  <2>1. /\ pc = "layout" /\ UNCHANGED <<mbi, mapped, head, process>>
        /\ attempt \in 1..Len(LayoutProbes)
        /\ layout' = IF found THEN [head |-> mem[mbi.alloc].content, pages |-> pages] ELSE NoLayout
        /\ pc' = IF found \/ last THEN "judge" ELSE "layout"
    BY <1>10 DEF LoadImageLayout, LayoutBase, TypeOK
  <2>2. InRegion /\ mbi.base = b /\ mbi.type = "IMAGE"
    BY <2>1 DEF InRegion, HeaderInv
  <2>3. ASSUME found \/ last PROVE layout' = InstantLayout(b, n)
    <3>1. \A j \in 1..(attempt - 1) : ~CanRead(mem, mem[b].alloc, LayoutProbes[j])
      BY <1>3, <1>4, <2>1, <2>2 DEF ProbeInv
    <3>2. layout' = ImageLayout(mem[b].alloc)
      BY <1>3, <1>4, <2>1, <2>2, <2>3, <3>1, FirstProbe
    <3> QED BY <1>4, <2>2, <3>2, LayoutOfType
  <2> HIDE DEF found, last
  <2>4. pc' = "judge" => found \/ last
    BY <2>1
  <2> QED BY <1>1, <1>2, <1>4, <2>1, <2>2, <2>3, <2>4 DEF ShouldIgnore
<1>11. CASE ReadPrivatePe
  <2> DEFINE s == Smaller(n, PeReadPages)
  <2>1. /\ pc = "private" /\ pc' = "judge" /\ UNCHANGED <<mbi, mapped, head, process>>
        /\ layout' = IF alive /\ CanRead(mem, mbi.base, Smaller(mbi.size, PeReadPages))
                     THEN [head |-> mem[mbi.base].content,
                           pages |-> Smaller(mbi.size, PeReadPages)] ELSE NoLayout
    BY <1>11 DEF ReadPrivatePe
  <2>2. InRegion /\ mbi.base = b /\ mbi.type = "PRIVATE" /\ ContainsMzPe(head)
    BY <2>1 DEF InRegion, HeaderInv, StageInv
  <2>3. Pe[mem[b].content].valid
    BY <1>4, <2>1, <2>2 DEF InstantHead, ContainsMzPe
  <2>4. layout' = IF CanRead(mem, b, s) THEN [head |-> mem[b].content, pages |-> s] ELSE NoLayout
    BY <1>3, <1>4, <2>1, <2>2
  <2>5. layout' = InstantLayout(b, n)
    <3> HIDE DEF s
    <3>1. mem[b].type = "PRIVATE"
      BY <1>4, <2>2
    <3> QED BY <2>3, <2>4, <3>1, LayoutOfType DEF s
  <2> QED BY <1>1, <1>2, <1>4, <2>1, <2>2, <2>5 DEF ShouldIgnore
<1>12. CASE OpenFails \/ Open \/ CollectThreadStarts \/ CollectModules \/ StopWalk
  BY <1>12 DEF OpenFails, Open, CollectThreadStarts, CollectModules, StopWalk, InRegion
<1>13. CASE Judge \/ CaptureEvidence
  <2>1. pc' \in {"evidence", "walk"}
    BY <1>13 DEF Judge, CaptureEvidence
  <2> QED BY <2>1 DEF InRegion
<1>14. CASE Target
  BY <1>5, <1>14, TargetKeeps
<1>15. CASE UNCHANGED vars
  BY <1>5, <1>15 DEF vars
<1> QED BY <1>6, <1>7, <1>8, <1>9, <1>10, <1>11, <1>12, <1>13, <1>14, <1>15 DEF Next, Scanner, Done

\* The verdict on a still region at hand is the one of a single look.
LEMMA JudgedAtOnce ==
  ASSUME TypeOK, PathInv, ListInv, HeldInv, pc = "judge",
         NEW b \in Pages, NEW n \in 1..(NumPages - b), mbi.base = b, Still(b, n)
  PROVE  /\ JudgedAnomaly = InstantAnomaly(b, n)
         /\ mem[b].st = "commit" /\ ~ShouldIgnore(MappedPath(mem, b))
<1> DEFINE m == RegionAt(mem, b, n)
           path == MappedPath(mem, b)
           mods == IF modules_known THEN ldr ELSE NoModules
<1>1. /\ mbi = m /\ mem[b].st = "commit" /\ mapped = path /\ ~ShouldIgnore(path)
      /\ head = InstantHead(b) /\ layout = InstantLayout(b, n)
  BY DEF HeldInv, InRegion
<1>2. InstantAnomaly(b, n) = AnomalyOf(m, path, InstantHead(b), InstantLayout(b, n), modules_known,
                                        mods, thread_starts, process)
  BY DEF InstantAnomaly, InstantHead
<1>3. AtAllocationBase(m) => modules[m.alloc] = mods[m.alloc]
  <2>1. b \notin touched
    BY StillParts
  <2>2. modules_known => modules[b] = ldr[b]
    BY <2>1 DEF ListInv
  <2>3. ~modules_known => modules = NoModules
    BY DEF PathInv
  <2>4. AtAllocationBase(m) => m.alloc = b
    BY DEF AtAllocationBase, RegionAt
  <2> HIDE DEF m
  <2> QED BY <2>2, <2>3, <2>4
<1> HIDE DEF m, path, mods
<1>4. JudgedAnomaly = InstantAnomaly(b, n)
  BY <1>1, <1>2, <1>3, ListsThatAgree DEF JudgedAnomaly
<1> QED BY <1>1, <1>4 DEF path

LEMMA StepExact ==
  ASSUME TypeOK, TypeOK', WalkInv, PathInv, StageInv, ListInv, HeldInv, ExactInv, [Next]_vars
  PROVE  ExactInv'
<1> USE DEF target, context, region, results, history
<1> SUFFICES ASSUME NEW b \in Pages, NEW n \in 1..(NumPages - b), Still(b, n)', b < p',
                    ~(InRegion /\ mbi.base = b)'
             PROVE  FoundAt(b)' = Expected(b, n)'
  BY DEF ExactInv
<1>1. Still(b, n) /\ Elsewhere
  BY StepElsewhere, StillBefore
<1>2. alive /\ b \in Nat /\ n \in Nat \ {0} /\ IsRegion(mem, b, n)
  BY <1>1, StillAlive, StillParts DEF Still
<1>3. UNCHANGED <<process, thread_starts, modules_known>> => Expected(b, n)' = Expected(b, n)
  BY <1>1, ExpectedBefore
<1>4. out' = out => FoundAt(b)' = FoundAt(b)
  BY DEF FoundAt
<1>5. CASE /\ UNCHANGED <<process, thread_starts, modules_known, p, mbi, out>>
           /\ InRegion' \/ ~InRegion
  <2>1. FoundAt(b) = Expected(b, n)
    BY <1>1, <1>5 DEF ExactInv
  <2> QED BY <1>3, <1>4, <1>5, <2>1
<1>6. CASE OpenFails \/ StopWalk \/ CaptureEvidence
  BY <1>5, <1>6 DEF OpenFails, StopWalk, CaptureEvidence, InRegion
<1>7. CASE Open \/ CollectThreadStarts \/ CollectModules
  <2>1. p' = 0
    BY <1>7 DEF Open, CollectThreadStarts, CollectModules, StageInv
  <2> QED BY <1>2, <2>1
<1>8. CASE QueryRegion
  <2>1. PICK k \in 1..(NumPages - p) : /\ IsRegion(mem, p, k) /\ mbi' = RegionAt(mem, p, k)
                                       /\ p' = p + k
    BY <1>8 DEF QueryRegion, NextAddress
  <2>2. /\ pc = "walk" /\ p \in Nat /\ UNCHANGED <<process, thread_starts, modules_known, out>>
        /\ pc' = IF mbi'.st = "commit" THEN "resolve" ELSE "walk"
    BY <1>8, OutTypes DEF QueryRegion
  <2>3. ~InRegion
    BY <2>2 DEF InRegion
  <2>4. CASE b < p
    BY <1>1, <1>3, <1>4, <2>2, <2>3, <2>4 DEF ExactInv
  <2>5. CASE b = p
    <3>1. ~(mem[b].st = "commit")
      <4>1. mbi'.base = b /\ mbi'.st = mem[b].st
        BY <2>1, <2>5 DEF RegionAt
      <4> QED BY <2>2, <4>1 DEF InRegion
    <3>2. Expected(b, n) = {}
      BY <3>1 DEF Expected
    <3>3. FoundAt(b) = {}
      BY <1>2, <2>3, <2>5, NothingAhead
    <3> QED BY <1>3, <1>4, <2>2, <3>2, <3>3
  <2>6. CASE p < b
    <3>1. SameRegion(mem, b - 1, b)
      BY <1>2, <2>1, <2>2, <2>6, NoBorderInside
    <3>2. ~SameRegion(mem, b - 1, b)
      BY <1>1, <1>2, <2>2, <2>6 DEF Still
    <3> QED BY <3>1, <3>2
  <2> QED BY <1>2, <2>2, <2>4, <2>5, <2>6
<1>9. CASE ResolvePath
  <2>1. /\ pc = "resolve" /\ mapped' = IF alive THEN MappedPath(mem, mbi.base) ELSE NoName
        /\ pc' = IF ShouldIgnore(mapped') THEN "walk" ELSE "probe"
        /\ UNCHANGED <<process, thread_starts, modules_known, p, mbi, out>>
    BY <1>9 DEF ResolvePath
  <2>2. CASE mbi.base = b
    <3>1. ShouldIgnore(MappedPath(mem, b))
      BY <1>2, <2>1, <2>2 DEF InRegion
    <3>2. Expected(b, n) = {}
      BY <3>1 DEF Expected
    <3>3. FoundAt(b) = {}
      BY <1>2, <2>1, <2>2, NothingAhead DEF InRegion
    <3> QED BY <1>3, <1>4, <2>1, <3>2, <3>3
  <2>3. CASE mbi.base # b
    <3>1. FoundAt(b) = Expected(b, n)
      BY <1>1, <2>1, <2>3 DEF ExactInv
    <3> QED BY <1>3, <1>4, <2>1, <3>1
  <2> QED BY <2>2, <2>3
<1>10. CASE Probe
  <2>1. pc' \in {"layout", "private", "judge"}
    BY <1>10 DEF Probe, AfterProbe
  <2> QED BY <1>5, <1>10, <2>1 DEF Probe, InRegion
<1>11. CASE CachedLayout \/ LoadImageLayout \/ ReadPrivatePe
  <2>1. pc' \in {"layout", "judge"} /\ UNCHANGED <<process, thread_starts, modules_known, p, mbi, out>>
    BY <1>11 DEF CachedLayout, LoadImageLayout, ReadPrivatePe
  <2> QED BY <1>5, <2>1 DEF InRegion
<1>12. CASE Judge
  <2>1. /\ pc = "judge" /\ UNCHANGED <<process, thread_starts, modules_known, p, mbi>>
        /\ out' = IF Reported(JudgedAnomaly) THEN Append(out, JudgedAnomaly) ELSE out
    BY <1>12 DEF Judge, JudgedAnomaly
  <2>2. JudgedAnomaly.base = mbi.base
    BY OutTypes
  <2>3. FoundAt(b)' = FoundAt(b) \cup {f \in {JudgedAnomaly} : Reported(f) /\ f.base = b}
    <3> DEFINE a == JudgedAnomaly
    <3>1. CASE Reported(a)
      <4>1. Range(out') = Range(out) \cup {a}
        <5>1. /\ DOMAIN out = 1..Len(out) /\ DOMAIN out' = 1..(Len(out) + 1) /\ Len(out) \in Nat
              /\ \A i \in DOMAIN out : out'[i] = out[i]
              /\ out'[Len(out) + 1] = a
          BY <2>1, <3>1, OutTypes, OutAppended
        <5>2. DOMAIN out' = DOMAIN out \cup {Len(out) + 1}
          BY <5>1
        <5> HIDE DEF a
        <5>3. Range(out) \subseteq Range(out') /\ a \in Range(out')
          BY <5>1, <5>2 DEF Range
        <5>4. Range(out') \subseteq Range(out) \cup {a}
          BY <5>1, <5>2 DEF Range
        <5> QED BY <5>3, <5>4
      <4> HIDE DEF a
      <4> QED BY <3>1, <4>1 DEF FoundAt, a
    <3>2. CASE ~Reported(a)
      BY <1>4, <2>1, <3>2
    <3> QED BY <3>1, <3>2
  <2>4. CASE mbi.base = b
    <3>1. FoundAt(b) = {}
      BY <1>2, <2>1, <2>4, NothingAhead DEF InRegion
    <3>2. /\ JudgedAnomaly = InstantAnomaly(b, n)
          /\ mem[b].st = "commit" /\ ~ShouldIgnore(MappedPath(mem, b))
      BY <1>1, <2>1, <2>4, JudgedAtOnce
    <3> HIDE DEF JudgedAnomaly
    <3>3. FoundAt(b)' = Expected(b, n)
      BY <2>2, <2>3, <2>4, <3>1, <3>2 DEF Expected
    <3> QED BY <1>3, <2>1, <3>3
  <2>5. CASE mbi.base # b
    <3>1. FoundAt(b) = Expected(b, n)
      BY <1>1, <2>1, <2>5 DEF ExactInv
    <3> HIDE DEF JudgedAnomaly
    <3>2. FoundAt(b)' = FoundAt(b)
      BY <2>2, <2>3, <2>5
    <3> QED BY <1>3, <2>1, <3>1, <3>2
  <2> QED BY <2>4, <2>5
<1>13. CASE Target
  BY <1>5, <1>13, TargetKeeps DEF InRegion
<1>14. CASE UNCHANGED vars
  BY <1>5, <1>14 DEF vars, InRegion
<1> QED BY <1>6, <1>7, <1>8, <1>9, <1>10, <1>11, <1>12, <1>13, <1>14 DEF Next, Scanner, Done

(***************************************************************************)
(* The theorem.                                                            *)
(***************************************************************************)
LEMMA StillFromTheStart == Init => StillInv
<1> SUFFICES ASSUME Init PROVE StillInv
  OBVIOUS
<1>1. /\ pc = "open" /\ p = 0 /\ attempt = 1 /\ modules_known = FALSE
      /\ image_cache = [a \in Pages |-> NotCached]
  BY DEF Init
<1>2. CacheInv /\ ListInv /\ StageInv /\ ProbeInv /\ HeldInv
  BY <1>1 DEF CacheInv, ListInv, StageInv, ProbeInv, HeldInv, InRegion
<1>3. ExactInv
  BY <1>1, ScanAssumption DEF ExactInv, Pages
<1> QED BY <1>2, <1>3 DEF StillInv

\* The walk is not atomic, its module list is a snapshot and its layouts are cached, yet
\* every region that stands still, with its neighbours and the headers it depends on, is
\* reported exactly as if it had been judged in one instant, whatever the target does
\* elsewhere and whenever it does it (memscan.cpp:329-347, 488-628).
THEOREM StillExact == Spec => []StillRegionsExact
<1> DEFINE Inv == TypeOK /\ CountInv /\ WalkInv /\ HeaderInv /\ PathInv /\ StillInv
<1>1. Init => Inv
  BY InitType, StillFromTheStart DEF Init, CountInv, WalkInv, HeaderInv, PathInv, InRegion
<1>2. Inv /\ [Next]_vars => Inv'
  <2> SUFFICES ASSUME Inv, [Next]_vars PROVE Inv'
    OBVIOUS
  <2>1. TypeOK' /\ CountInv' /\ WalkInv' /\ HeaderInv' /\ PathInv'
    BY StepType, StepWalk, StepHeader, StepPath
  <2>2. CacheInv' /\ ListInv' /\ StageInv' /\ ProbeInv' /\ HeldInv' /\ ExactInv'
    BY <2>1, StepCache, StepList, StepStage, StepProbe, StepHeld, StepExact DEF StillInv
  <2> QED BY <2>1, <2>2 DEF StillInv
<1>3. Inv => StillRegionsExact
  <2> SUFFICES ASSUME Inv, pc = "done", p = NumPages, NEW b \in Pages,
                      NEW n \in 1..(NumPages - b), Still(b, n)
               PROVE  FoundAt(b) = Expected(b, n)
    BY DEF StillRegionsExact, FoundAt, Expected
  <2>1. b < p /\ ~InRegion
    BY ScanAssumption DEF Pages, InRegion
  <2> QED BY <2>1 DEF StillInv, ExactInv
<1> QED BY <1>1, <1>2, <1>3, PTL DEF Spec
=============================================================================
