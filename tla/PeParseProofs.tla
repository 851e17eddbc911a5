--------------------------- MODULE PeParseProofs ---------------------------
(***************************************************************************)
(* Theorems of PeParse, for every set of buffers over any words and for    *)
(* any limits.                                                             *)
(***************************************************************************)
EXTENDS PeParse, SequenceTheorems, TLAPS

(***************************************************************************)
(* The helpers that read the buffer.                                       *)
(***************************************************************************)
Inside(S) == S \subseteq 0..size - 1

LEMMA Constants ==
  /\ WordMax \in Nat /\ MaxSections \in Nat /\ MaxDescriptors \in Nat /\ MaxThunks \in Nat
  /\ MaxExports \in Nat /\ MaxText \in Nat /\ Words \subseteq Nat /\ 0 \in Words
  BY PeAssumption DEF Words

LEMMA SizeNat == ASSUME TypeOK PROVE size \in Nat /\ DOMAIN data = 1..size
  BY LenProperties DEF TypeOK, size

\* A field has the value of a word, wherever it is.
LEMMA AtWord == ASSUME TypeOK, NEW off PROVE At(off) \in Words
<1>1. CASE off \in 0..size - 1
  <2>1. off + 1 \in 1..Len(data)
    BY <1>1, SizeNat DEF size
  <2> QED BY <1>1, <2>1, ElementOfSeq DEF At, TypeOK
<1>2. CASE off \notin 0..size - 1
  BY <1>2, Constants DEF At
<1> QED BY <1>1, <1>2

LEMMA FitsInside ==
  ASSUME TypeOK, NEW off \in Nat, NEW n \in Nat, Fits(off, n)
  PROVE  Inside(Cells(off, n))
  BY SizeNat DEF Fits, Inside, Cells

LEMMA EmptyInside == Inside({})
  BY DEF Inside

LEMMA SmallerNat == ASSUME NEW a \in Nat, NEW b \in Nat PROVE Smaller(a, b) \in Nat
  BY DEF Smaller

\* A layout places an rva at an offset of the buffer.
LEMMA OffsetInside ==
  ASSUME TypeOK, NEW rva \in Words, NEW k \in Layouts(rva)
  PROVE  RvaOffset(rva, k) \in Nat /\ RvaOffset(rva, k) < size /\ k \in 0..Len(sections)
<1>1. k \in 0..Len(sections) /\ RvaOffset(rva, k) < size /\ Len(sections) \in Nat /\ rva \in Nat
  BY LenProperties, Constants DEF Layouts, TypeOK
<1>2. CASE k = 0
  BY <1>1, <1>2 DEF RvaOffset
<1>3. CASE k # 0
  <2>1. sections[k] \in Section
    BY <1>1, <1>3, ElementOfSeq DEF TypeOK
  <2>2. Covers(sections[k], rva)
    BY <1>3 DEF Layouts
  <2>3. sections[k].virtual_address \in Nat /\ sections[k].raw_offset \in Nat
    BY <2>1, Constants DEF Section
  <2>4. rva >= sections[k].virtual_address
    BY <2>2 DEF Covers
  <2> QED BY <1>1, <1>3, <2>3, <2>4 DEF RvaOffset
<1> QED BY <1>2, <1>3

LEMMA TextInside ==
  ASSUME TypeOK, NEW off \in Nat PROVE Inside(TextCells(off))
  BY SizeNat, Constants DEF TextCells, Inside, Smaller

LEMMA RvaTextInside ==
  ASSUME TypeOK, NEW rva \in Words, NEW skip \in Nat
  PROVE  Inside(RvaTextCells(rva, skip))
<1>1. \A k \in Layouts(rva) : RvaOffset(rva, k) + skip \in Nat
  BY OffsetInside
<1>2. \A k \in Layouts(rva) : Inside(TextCells(RvaOffset(rva, k) + skip))
  BY <1>1, TextInside
<1> QED BY <1>2, Zenon DEF RvaTextCells, Inside

\* A text is made of words of the buffer.
LEMMA ReadText ==
  ASSUME TypeOK, NEW off \in Nat PROVE ReadCStringAt(off) \in Texts
<1>1. CASE Ends(off) = {}
  BY <1>1, EmptySeq DEF ReadCStringAt, Texts
<1>2. CASE Ends(off) # {}
  <2> DEFINE e == CHOOSE x \in Ends(off) : TRUE
  <2>1. e \in Ends(off)
    BY <1>2
  <2>2. e \in Int /\ e < size
    BY <2>1, Constants DEF Ends, Cells
  <2>3. \A c \in off + 1..e : data[c] \in Words
    <3>1. \A c \in off + 1..e : c \in 1..Len(data)
      BY <2>2, SizeNat DEF size
    <3> QED BY <3>1, ElementOfSeq DEF TypeOK
  <2>4. SubSeq(data, off + 1, e) \in Seq(Words)
    <3> HIDE DEF e
    <3> QED BY <2>2, <2>3, SubSeqProperties
  <2> QED BY <1>2, <2>4 DEF ReadCStringAt, Texts
<1> QED BY <1>1, <1>2

LEMMA ReadTextRva ==
  ASSUME TypeOK, NEW rva \in Words, NEW skip \in Nat
  PROVE  ReadCStringRva(rva, skip) \subseteq Texts
<1>1. \A k \in Layouts(rva) : RvaOffset(rva, k) + skip \in Nat
  BY OffsetInside
<1>2. \A k \in First(TextLayouts(rva, skip)) : k \in Layouts(rva)
  BY DEF First, TextLayouts
<1> QED BY <1>1, <1>2, ReadText DEF ReadCStringRva

LEMMA SectionNat ==
  ASSUME NEW s \in Section
  PROVE  /\ s.virtual_address \in Nat /\ s.virtual_size \in Nat
         /\ s.raw_offset \in Nat /\ s.raw_size \in Nat
  BY Constants DEF Section

\* Where the headers are.
LEMMA HeaderOffsets ==
  ASSUME TypeOK
  PROVE  /\ NtOffset \in Nat /\ OptionalOffset \in Nat
         /\ At(NtOffset + 1) \in Nat /\ At(NtOffset + 2) \in Nat
<1>1. At(1) \in Words /\ At(NtOffset + 1) \in Words /\ At(NtOffset + 2) \in Words
  BY AtWord
<1>2. NtOffset \in Nat
  BY <1>1, Constants DEF NtOffset
<1>3. OptionalOffset \in Nat
  BY <1>2 DEF OptionalOffset, NtSize
<1> QED BY <1>1, <1>2, <1>3, Constants

LEMMA DirectoriesTyped ==
  ASSUME TypeOK, NEW dirs, NEW wide \in BOOLEAN
  PROVE  WithDirectories(dirs, wide) \in Headers
<1>1. /\ At(dirs + 1) \in Words /\ At(dirs + 2) \in Words
      /\ At(dirs + 3) \in Words /\ At(dirs + 4) \in Words /\ 0 \in Words
  BY AtWord, Constants
<1> DEFINE has(n) == At(dirs) > n
<1>2. /\ has(0) \in BOOLEAN /\ has(1) \in BOOLEAN
      /\ (has(14) /\ At(dirs + 5) # 0 /\ At(dirs + 6) # 0) \in BOOLEAN
  OBVIOUS
<1>3. \A n, r : r \in Words => (IF has(n) THEN r ELSE 0) \in Words
  BY <1>1
<1>4. out \in Headers
  BY DEF TypeOK
<1> DEFINE r1 == IF has(0) THEN At(dirs + 1) ELSE 0
           r2 == IF has(0) THEN At(dirs + 2) ELSE 0
           r3 == IF has(1) THEN At(dirs + 3) ELSE 0
           r4 == IF has(1) THEN At(dirs + 4) ELSE 0
           clr == has(14) /\ At(dirs + 5) # 0 /\ At(dirs + 6) # 0
<1>5. r1 \in Words /\ r2 \in Words /\ r3 \in Words /\ r4 \in Words /\ clr \in BOOLEAN
  BY <1>1, <1>2, <1>3
<1>6. WithDirectories(dirs, wide) =
        [out EXCEPT !.is64 = wide, !.export_rva = r1, !.export_size = r2, !.import_rva = r3,
                    !.import_size = r4, !.has_clr = clr]
  BY DEF WithDirectories
<1> HIDE DEF r1, r2, r3, r4, clr
<1> QED BY <1>4, <1>5, <1>6 DEF Headers

LEMMA EntropyInside ==
  ASSUME TypeOK, NEW s \in Section PROVE Inside(EntropyCells(s))
<1>2. s.raw_offset..Smaller(size, s.raw_offset + s.raw_size) - 1 \subseteq 0..size - 1
  BY SizeNat, SectionNat DEF Smaller
<1>3. s.virtual_address..Smaller(size, s.virtual_address + s.virtual_size) - 1 \subseteq 0..size - 1
  BY SizeNat, SectionNat DEF Smaller
<1> QED BY <1>2, <1>3, EmptyInside DEF EntropyCells, Inside

LEMMA DescriptorWords ==
  ASSUME TypeOK, NEW off
  PROVE  /\ DescriptorAt(off).Name \in Words
         /\ ThunkRva(DescriptorAt(off)) \in Words
  BY AtWord DEF DescriptorAt, ThunkRva

LEMMA ThunkWidth == ASSUME TypeOK PROVE ThunkSize \in {1, 2}
  BY DEF ThunkSize, TypeOK, Headers
(***************************************************************************)
(* The invariant.  While thunks are read, the rva of their array has the   *)
(* layout that is tried; without it a thunk could be read anywhere.  While *)
(* sections are read, i counts them.                                       *)
(***************************************************************************)
AtWork ==
  /\ pc = "thunks" => dll.layout \in Layouts(dll.rva)
  /\ pc \in {"dos", "nt", "optional", "sections"} => i = Len(sections)

LEMMA NoDllTyped == NoDll \in Import /\ NoDll.layout = 0 /\ <<>> \in Texts
  BY Constants, EmptySeq DEF NoDll, Import, Texts

LEMMA InitTyped == Init => TypeOK /\ AtWork /\ ReadsInside
<1> SUFFICES ASSUME Init PROVE TypeOK /\ AtWork /\ ReadsInside
  OBVIOUS
<1>1. data \in Seq(Words) /\ size \in Nat
  BY PeAssumption, LenProperties DEF Init, size
<1>2. NoPe \in Headers
  BY <1>1, Constants DEF NoPe, Headers
<1>3. sections \in Seq(Section) /\ Len(sections) = 0 /\ imports \in Seq(Import) /\ exports \in Seq(Texts)
  BY EmptySeq DEF Init
<1> QED BY <1>1, <1>2, <1>3, Constants, NoDllTyped DEF Init, TypeOK, Steps, AtWork, ReadsInside

\* The buffer never changes, so neither does what is inside it.
LEMMA SameBuffer ==
  ASSUME TypeOK, data' = data, Inside(touched')
  PROVE  ReadsInside' /\ touched' \subseteq Int /\ Headers' = Headers
<1>1. size' = size /\ Words' = Words
  BY DEF size
<1> QED BY <1>1, SizeNat DEF ReadsInside, Inside, Headers

LEMMA HeaderSteps ==
  ASSUME TypeOK, AtWork, ReadDosHeader \/ ReadNtHeader \/ ReadOptionalHeader
  PROVE  TypeOK' /\ AtWork' /\ ReadsInside'
<1>1. NtOffset \in Nat /\ OptionalOffset \in Nat
  BY HeaderOffsets
<1>2. Inside(touched')
  <2>1. CASE ReadDosHeader
    BY <2>1, FitsInside, EmptyInside DEF ReadDosHeader, DosSize
  <2>2. CASE ReadNtHeader
    BY <2>2, <1>1, FitsInside, EmptyInside DEF ReadNtHeader, NtSize
  <2>3. CASE ReadOptionalHeader
    BY <2>3, <1>1, FitsInside, EmptyInside DEF ReadOptionalHeader, OptionalSize
  <2> QED BY <2>1, <2>2, <2>3
<1>3. out' \in Headers
  <2>1. CASE ReadOptionalHeader
    <3> DEFINE magic == At(OptionalOffset)
               wide == magic = Magic64
               dirs == OptionalOffset + OptionalSize[magic] - 7
    <3>1. out' = out \/ out' = WithDirectories(dirs, wide)
      BY <2>1 DEF ReadOptionalHeader
    <3>2. wide \in BOOLEAN
      OBVIOUS
    <3>3. WithDirectories(dirs, wide) \in Headers
      BY <3>2, DirectoriesTyped
    <3> QED BY <3>1, <3>3 DEF TypeOK
  <2>2. CASE ReadDosHeader \/ ReadNtHeader
    BY <2>2 DEF ReadDosHeader, ReadNtHeader, TypeOK, Headers
  <2> QED BY <2>1, <2>2
<1>4. data' = data /\ pc' \in Steps /\ pc' # "thunks"
      /\ UNCHANGED <<sections, i, at, count, dll, imports, exports>>
  BY DEF ReadDosHeader, ReadNtHeader, ReadOptionalHeader, Steps
<1>5. ReadsInside' /\ touched' \subseteq Int /\ Headers' = Headers
  BY <1>2, <1>4, SameBuffer
<1>6. AtWork'
  BY <1>4 DEF AtWork, ReadDosHeader, ReadNtHeader, ReadOptionalHeader
<1> QED BY <1>3, <1>4, <1>5, <1>6 DEF TypeOK
LEMMA SectionTyped == ASSUME TypeOK, NEW off PROVE SectionAt(off) \in Section
<1>1. At(off) \in Words /\ At(off + 1) \in Words /\ At(off + 2) \in Words /\ At(off + 3) \in Words
  BY AtWord
<1> QED BY <1>1 DEF SectionAt, Section

LEMMA ReadSectionStep ==
  ASSUME TypeOK, AtWork, ReadSection
  PROVE  TypeOK' /\ AtWork' /\ ReadsInside'
<1>1. SectionOffset \in Nat /\ i < MaxSections /\ i \in Nat
  <2>1. i \in Nat
    BY DEF TypeOK
  <2>2. /\ OptionalOffset \in Nat /\ At(NtOffset + 1) \in Nat /\ At(NtOffset + 2) \in Nat
        /\ MaxSections \in Nat
    BY HeaderOffsets, Constants
  <2>3. i < Smaller(At(NtOffset + 1), MaxSections)
    BY DEF ReadSection, SectionDue
  <2>4. i < MaxSections
    BY <2>1, <2>2, <2>3 DEF Smaller
  <2>5. SectionOffset \in Nat
    BY <2>1, <2>2 DEF SectionOffset, SectionSize
  <2> QED BY <2>1, <2>4, <2>5
<1>2. Inside(touched')
  BY <1>1, FitsInside DEF ReadSection, SectionDue, SectionSize
<1>3. /\ Append(sections, SectionAt(SectionOffset)) \in Seq(Section)
      /\ Len(Append(sections, SectionAt(SectionOffset))) = Len(sections) + 1
      /\ Len(sections) \in Nat
  BY SectionTyped, AppendProperties, LenProperties DEF TypeOK
<1>4. Len(sections') <= MaxSections
  BY <1>1, <1>3, Constants DEF ReadSection, AtWork
<1>5. ReadsInside' /\ touched' \subseteq Int /\ Headers' = Headers
  BY <1>2, SameBuffer DEF ReadSection
<1>6. i' \in Nat /\ dll.layout <= Len(sections')
  BY <1>1, <1>3, Constants DEF ReadSection, TypeOK, Import
<1>7. AtWork'
  BY <1>3 DEF ReadSection, AtWork
<1> QED BY <1>3, <1>4, <1>5, <1>6, <1>7 DEF ReadSection, TypeOK

LEMMA FillSectionStatsStep ==
  ASSUME TypeOK, AtWork, FillSectionStats
  PROVE  TypeOK' /\ AtWork' /\ ReadsInside'
<1>1. \A k \in 1..Len(sections) : sections[k] \in Section
  BY ElementOfSeq DEF TypeOK
<1>2. Inside(touched')
  BY <1>1, EntropyInside, Zenon DEF FillSectionStats, Inside
<1>3. PICK end \in Last(RawEnds \cup {0}) :
        out' = [out EXCEPT !.raw_image_end = end, !.overlay_size = OverlaySize(end)]
  BY DEF FillSectionStats
<1>4. end \in Nat
  BY <1>1, <1>3, SectionNat DEF Last, RawEnds, RawEnd
<1>5. OverlaySize(end) \in 0..size
  BY <1>4, SizeNat DEF OverlaySize
<1>6. out' \in Headers
  BY <1>3, <1>4, <1>5 DEF TypeOK, Headers
<1>7. ReadsInside' /\ touched' \subseteq Int /\ Headers' = Headers
  BY <1>2, SameBuffer DEF FillSectionStats
<1>8. AtWork'
  BY DEF FillSectionStats, AtWork
<1> QED BY <1>6, <1>7, <1>8 DEF FillSectionStats, TypeOK, Steps
LEMMA FindImportTableStep ==
  ASSUME TypeOK, AtWork, FindImportTable
  PROVE  TypeOK' /\ AtWork' /\ ReadsInside'
<1>1. out.import_rva \in Words /\ out.import_size \in Nat
  BY Constants DEF TypeOK, Headers
<1>2. Inside(touched')
  <2> DEFINE Part(k) == LET off == RvaOffset(out.import_rva, k) IN
                       IF Fits(off, DescriptorSize)
                       THEN Cells(off, DescriptorSize) \cup RvaTextCells(DescriptorAt(off).Name, 0)
                       ELSE {}
  <2>1. ASSUME NEW k \in Layouts(out.import_rva) PROVE Inside(Part(k))
    <3> DEFINE off == RvaOffset(out.import_rva, k)
    <3>1. off \in Nat
      BY <1>1, OffsetInside
    <3>2. Fits(off, DescriptorSize) => Inside(Cells(off, DescriptorSize))
      BY <3>1, FitsInside DEF DescriptorSize
    <3>3. Inside(RvaTextCells(DescriptorAt(off).Name, 0))
      BY DescriptorWords, RvaTextInside
    <3> QED BY <3>2, <3>3, EmptyInside, Zenon DEF Inside
  <2>2. touched' = UNION {Part(k) : k \in Layouts(out.import_rva)}
    BY DEF FindImportTable
  <2> HIDE DEF Part
  <2> QED BY <2>1, <2>2, Zenon DEF Inside
<1>3. i' \in Nat /\ at' \in Nat /\ count' \in Nat /\ pc' \in {"exports", "descriptors"}
  <2>1. CASE UNCHANGED <<i, at, count>> /\ pc' = "exports"
    BY <2>1 DEF TypeOK
  <2>2. CASE ~(UNCHANGED <<i, at, count>> /\ pc' = "exports")
    <3>1. /\ pc' = "descriptors" /\ i' = 0
          /\ \E k \in First(TableLayouts) : at' = RvaOffset(out.import_rva, k)
          /\ count' = Smaller(MaxDescriptors, out.import_size \div DescriptorSize + 1)
      BY <2>2 DEF FindImportTable
    <3>2. at' \in Nat
      BY <1>1, <3>1, OffsetInside DEF First, TableLayouts
    <3>3. count' \in Nat
      BY <1>1, <3>1, Constants DEF Smaller, DescriptorSize
    <3> QED BY <3>1, <3>2, <3>3
  <2> QED BY <2>1, <2>2
<1>4. ReadsInside' /\ touched' \subseteq Int /\ Headers' = Headers
  BY <1>2, SameBuffer DEF FindImportTable
<1>5. AtWork'
  BY <1>3 DEF FindImportTable, AtWork
<1> QED BY <1>3, <1>4, <1>5 DEF FindImportTable, TypeOK, Steps

LEMMA DescriptorOffsets == ASSUME TypeOK PROVE DescriptorOffset \in Nat
  BY DEF TypeOK, DescriptorOffset, DescriptorSize

\* What a descriptor begins with.
LEMMA EntryTyped ==
  ASSUME NEW name \in Texts, NEW rva \in Words
  PROVE  [NoDll EXCEPT !.name = name, !.rva = rva] \in Import
  BY Constants DEF NoDll, Import

LEMMA LayoutTyped ==
  ASSUME NEW e \in Import, NEW k \in Nat
  PROVE  LET f == [e EXCEPT !.layout = k] IN f \in Import /\ f.layout = k /\ f.rva = e.rva
  BY DEF Import

LEMMA ReadDescriptorStep ==
  ASSUME TypeOK, AtWork, ReadDescriptor
  PROVE  TypeOK' /\ AtWork' /\ ReadsInside'
<1> DEFINE d == DescriptorAt(DescriptorOffset)
           found == ReadCStringRva(d.Name, 0)
           rva == ThunkRva(d)
           entry(name) == [NoDll EXCEPT !.name = name, !.rva = rva]
<1>1. d.Name \in Words /\ rva \in Words /\ found \subseteq Texts
  BY DescriptorWords, ReadTextRva
<1>2. Inside(touched')
  <2>1. Inside(Cells(DescriptorOffset, DescriptorSize))
    BY DescriptorOffsets, FitsInside DEF ReadDescriptor, DescriptorDue, DescriptorThere, DescriptorSize
  <2>2. Inside(RvaTextCells(d.Name, 0))
    BY <1>1, RvaTextInside
  <2>3. touched' = Cells(DescriptorOffset, DescriptorSize) \cup RvaTextCells(d.Name, 0)
    BY DEF ReadDescriptor
  <2> QED BY <2>1, <2>2, <2>3, Zenon DEF Inside
<1>3. ReadsInside' /\ touched' \subseteq Int /\ Headers' = Headers
  BY <1>2, SameBuffer DEF ReadDescriptor
<1>4. /\ i' \in Nat /\ pc = "descriptors"
      /\ UNCHANGED <<data, out, sections, at, count, exports>>
  <2>1. i' = i + 1 /\ pc = "descriptors"
    BY Zenon DEF ReadDescriptor
  <2>2. UNCHANGED <<data, out, sections, at, count, exports>>
    BY Zenon DEF ReadDescriptor
  <2> QED BY <2>1, <2>2 DEF TypeOK
<1> HIDE DEF d, found, rva
<1>5. CASE UNCHANGED <<pc, dll, imports>>
  BY <1>3, <1>4, <1>5 DEF TypeOK, AtWork
<1>6. CASE \E name \in found : imports' = Append(imports, entry(name)) /\ UNCHANGED <<pc, dll>>
  <2>1. PICK name \in found : imports' = Append(imports, entry(name)) /\ UNCHANGED <<pc, dll>>
    BY <1>6
  <2>2. entry(name) \in Import
    BY <1>1, <2>1, EntryTyped
  <2>3. imports' \in Seq(Import)
    BY <2>1, <2>2, AppendProperties DEF TypeOK
  <2> QED BY <1>3, <1>4, <2>1, <2>3 DEF TypeOK, AtWork
<1>7. CASE /\ pc' = "thunks" /\ UNCHANGED imports
           /\ \E name \in found, k \in First(Layouts(rva)) : dll' = [entry(name) EXCEPT !.layout = k]
  <2>1. PICK name \in found, k \in Layouts(rva) : dll' = [entry(name) EXCEPT !.layout = k]
    BY <1>7 DEF First
  <2>2. k \in 0..Len(sections) /\ Len(sections) \in Nat
    BY <1>1, OffsetInside, LenProperties DEF TypeOK
  <2>3. entry(name) \in Import /\ entry(name).rva = rva
    BY <1>1, <2>1, EntryTyped DEF NoDll
  <2>4. dll' \in Import /\ dll'.layout = k /\ dll'.rva = rva
    <3> HIDE DEF entry
    <3> QED BY <2>1, <2>2, <2>3, LayoutTyped
  <2>5. dll'.layout \in Layouts(dll.rva)'
    BY <1>4, <2>1, <2>4 DEF Layouts, RvaOffset, size
  <2>6. AtWork'
    BY <1>7, <2>5 DEF AtWork
  <2> QED BY <1>3, <1>4, <1>7, <2>2, <2>4, <2>6 DEF TypeOK, Steps
<1> QED BY <1>5, <1>6, <1>7 DEF ReadDescriptor, d, found, rva
LEMMA ThunkOffsets ==
  ASSUME TypeOK, AtWork, pc = "thunks"
  PROVE  ThunkOffset \in Nat /\ ThunkSize \in {1, 2}
<1>1. RvaOffset(dll.rva, dll.layout) \in Nat
  BY OffsetInside DEF AtWork, TypeOK, Import
<1>2. ThunkSize \in {1, 2}
  BY DEF ThunkSize
<1>3. dll.n \in Nat
  BY DEF TypeOK, Import
<1>4. CASE ThunkSize = 1
  BY <1>1, <1>3, <1>4 DEF ThunkOffset
<1>5. CASE ThunkSize = 2
  BY <1>1, <1>3, <1>5 DEF ThunkOffset
<1> QED BY <1>2, <1>4, <1>5

LEMMA ThunkTyped ==
  ASSUME NEW e \in Import, NEW ordinal \in BOOLEAN, NEW text \in SUBSET Texts
  PROVE  LET f == [e EXCEPT !.n = @ + 1, !.ordinals = IF ordinal THEN @ + 1 ELSE @,
                          !.names = IF ordinal THEN @ ELSE @ \cup text]
         IN  f \in Import /\ f.layout = e.layout /\ f.rva = e.rva
<1>1. /\ (IF ordinal THEN e.ordinals + 1 ELSE e.ordinals) \in Nat
      /\ (IF ordinal THEN e.names ELSE e.names \cup text) \in SUBSET Texts
      /\ e.n + 1 \in Nat
  BY DEF Import
<1> QED BY <1>1 DEF Import

LEMMA NextLayoutTyped ==
  ASSUME NEW e \in Import, NEW k \in Nat
  PROVE  LET f == [e EXCEPT !.layout = k, !.n = 0] IN f \in Import /\ f.layout = k /\ f.rva = e.rva
  BY DEF Import

LEMMA ReadThunkStep ==
  ASSUME TypeOK, AtWork, ReadThunk
  PROVE  TypeOK' /\ AtWork' /\ ReadsInside'
<1> DEFINE rva == At(ThunkOffset)
           ordinal == ThunkIsOrdinal(ThunkOffset)
           text == ReadCStringRva(rva, HintSize)
<1>1. /\ ThunkDue /\ pc = "thunks"
      /\ UNCHANGED <<data, pc, out, sections, i, at, count, imports, exports>>
      /\ dll' = [dll EXCEPT !.n = @ + 1, !.ordinals = IF ordinal THEN @ + 1 ELSE @,
                           !.names = IF ordinal THEN @ ELSE @ \cup text]
      /\ touched' = Cells(ThunkOffset, ThunkSize) \cup (IF ordinal THEN {} ELSE RvaTextCells(rva, HintSize))
  BY Zenon DEF ReadThunk
<1>2. rva \in Words /\ text \subseteq Texts
  BY AtWord, ReadTextRva DEF HintSize
<1>3. Inside(touched')
  <2>1. Inside(Cells(ThunkOffset, ThunkSize))
    BY <1>1, ThunkOffsets, FitsInside DEF ThunkDue
  <2>2. Inside(RvaTextCells(rva, HintSize))
    BY <1>2, RvaTextInside DEF HintSize
  <2> QED BY <1>1, <2>1, <2>2, Zenon DEF Inside
<1>4. ReadsInside' /\ touched' \subseteq Int /\ Headers' = Headers
  BY <1>1, <1>3, SameBuffer
<1>. ordinal \in BOOLEAN /\ dll \in Import
  BY DEF ThunkIsOrdinal, TypeOK
<1> HIDE DEF rva, ordinal, text
<1>5. dll' \in Import /\ dll'.layout = dll.layout /\ dll'.rva = dll.rva
  BY <1>1, <1>2, ThunkTyped
<1>6. AtWork'
  BY <1>1, <1>5 DEF AtWork, Layouts, RvaOffset, size
<1> QED BY <1>1, <1>4, <1>5, <1>6 DEF TypeOK

LEMMA ThunksEndStep ==
  ASSUME TypeOK, AtWork, ThunksEnd
  PROVE  TypeOK' /\ AtWork' /\ ReadsInside'
<1>1. /\ pc = "thunks" /\ UNCHANGED <<data, out, sections, i, at, count, exports>>
      /\ \/ /\ \E k \in First(LaterLayouts) : dll' = [dll EXCEPT !.layout = k, !.n = 0]
            /\ UNCHANGED <<pc, imports>>
         \/ pc' = "descriptors" /\ imports' = Append(imports, dll) /\ dll' = NoDll
  BY Zenon DEF ThunksEnd
<1>2. Inside(touched')
  BY <1>1, ThunkOffsets, FitsInside, EmptyInside DEF ThunksEnd
<1>3. ReadsInside' /\ touched' \subseteq Int /\ Headers' = Headers
  BY <1>1, <1>2, SameBuffer
<1>4. CASE /\ \E k \in First(LaterLayouts) : dll' = [dll EXCEPT !.layout = k, !.n = 0]
           /\ UNCHANGED <<pc, imports>>
  <2>1. PICK k \in Layouts(dll.rva) : dll' = [dll EXCEPT !.layout = k, !.n = 0]
    BY <1>4 DEF First, LaterLayouts
  <2>2. k \in Nat /\ k <= Len(sections)
    <3>1. dll.rva \in Words /\ Len(sections) \in Nat
      BY LenProperties DEF TypeOK, Import
    <3>2. k \in 0..Len(sections)
      BY <3>1, OffsetInside
    <3> QED BY <3>1, <3>2
  <2>3. dll' \in Import /\ dll'.layout = k /\ dll'.rva = dll.rva
    <3>1. dll \in Import
      BY DEF TypeOK
    <3> QED BY <2>1, <2>2, <3>1, NextLayoutTyped
  <2>4. AtWork'
    BY <1>1, <1>4, <2>3 DEF AtWork, Layouts, RvaOffset, size
  <2>5. dll'.layout <= Len(sections')
    BY <1>1, <2>2, <2>3
  <2> QED BY <1>1, <1>3, <1>4, <2>3, <2>4, <2>5 DEF TypeOK
<1>5. CASE pc' = "descriptors" /\ imports' = Append(imports, dll) /\ dll' = NoDll
  <2>1. imports' \in Seq(Import)
    BY <1>5, AppendProperties DEF TypeOK
  <2>2. Len(sections) \in Nat
    BY LenProperties DEF TypeOK
  <2> QED BY <1>1, <1>3, <1>5, <2>1, <2>2, NoDllTyped DEF TypeOK, Steps, AtWork
<1> QED BY <1>1, <1>4, <1>5

LEMMA EndSteps ==
  ASSUME TypeOK, AtWork, ImportsEnd \/ ExportsEnd
  PROVE  TypeOK' /\ AtWork' /\ ReadsInside'
<1>1. Inside(touched')
  BY DescriptorOffsets, FitsInside, EmptyInside DEF ImportsEnd, ExportsEnd, DescriptorSize
<1>2. ReadsInside' /\ touched' \subseteq Int /\ Headers' = Headers
  BY <1>1, SameBuffer DEF ImportsEnd, ExportsEnd
<1> QED BY <1>2 DEF ImportsEnd, ExportsEnd, Goto, TypeOK, Steps, AtWork

LEMMA FindExportDirectoryStep ==
  ASSUME TypeOK, AtWork, FindExportDirectory
  PROVE  TypeOK' /\ AtWork' /\ ReadsInside'
<1>1. out.export_rva \in Words
  BY DEF TypeOK, Headers
<1>2. Inside(touched')
  <2> DEFINE Part(k) == LET o == RvaOffset(out.export_rva, k) IN
                       IF Fits(o, ExportSize) THEN Cells(o, ExportSize) ELSE {}
  <2>1. ASSUME NEW k \in Layouts(out.export_rva) PROVE Inside(Part(k))
    BY <1>1, OffsetInside, FitsInside, EmptyInside DEF ExportSize
  <2>2. touched' = UNION {Part(k) : k \in Layouts(out.export_rva)}
    BY DEF FindExportDirectory
  <2> HIDE DEF Part
  <2> QED BY <2>1, <2>2, Zenon DEF Inside
<1>3. i' \in Nat /\ at' \in Nat /\ count' \in Nat /\ pc' \in {"done", "names"}
  <2>1. CASE UNCHANGED <<i, at, count>> /\ pc' = "done"
    BY <2>1 DEF TypeOK
  <2>2. CASE ~(UNCHANGED <<i, at, count>> /\ pc' = "done")
    <3>1. PICK off : /\ pc' = "names" /\ i' = 0
                     /\ at' = At(off + 1) /\ count' = Smaller(At(off), MaxExports)
      BY <2>2 DEF FindExportDirectory
    <3>2. At(off) \in Nat /\ At(off + 1) \in Nat
      BY AtWord, Constants
    <3> QED BY <3>1, <3>2, Constants DEF Smaller
  <2> QED BY <2>1, <2>2
<1>4. ReadsInside' /\ touched' \subseteq Int /\ Headers' = Headers
  BY <1>2, SameBuffer DEF FindExportDirectory
<1>5. AtWork'
  BY <1>3 DEF AtWork
<1> QED BY <1>3, <1>4, <1>5 DEF FindExportDirectory, TypeOK, Steps

LEMMA ReadExportStep ==
  ASSUME TypeOK, AtWork, ReadExport
  PROVE  TypeOK' /\ AtWork' /\ ReadsInside'
<1>1. SlotRva \in Words
  BY Constants DEF SlotRva, Words, TypeOK
<1>2. PICK k \in SlotLayouts :
        LET off == RvaOffset(SlotRva, k)
            found == ReadCStringRva(At(off), 0)
        IN
        /\ touched' = {off} \cup RvaTextCells(At(off), 0)
        /\ \/ found = {} /\ UNCHANGED exports
           \/ \E name \in found : exports' = Append(exports, name)
  BY DEF ReadExport, First
<1> DEFINE off == RvaOffset(SlotRva, k)
<1>3. off \in 0..size - 1
  BY <1>1, OffsetInside, SizeNat DEF SlotLayouts
<1>4. Inside(touched')
  BY <1>2, <1>3, AtWord, RvaTextInside DEF Inside
<1>5. exports' \in Seq(Texts)
  <2>1. ReadCStringRva(At(off), 0) \subseteq Texts /\ exports \in Seq(Texts)
    BY AtWord, ReadTextRva DEF TypeOK
  <2> QED BY <1>2, <2>1, AppendProperties
<1>6. UNCHANGED <<data, pc, out, sections, at, count, dll, imports>> /\ pc = "names" /\ i' = i + 1
  BY Zenon DEF ReadExport
<1>7. ReadsInside' /\ touched' \subseteq Int /\ Headers' = Headers
  BY <1>4, <1>6, SameBuffer
<1>8. AtWork'
  BY <1>6 DEF AtWork
<1> QED BY <1>5, <1>6, <1>7, <1>8 DEF TypeOK

LEMMA StepTyped ==
  ASSUME TypeOK, AtWork, ReadsInside, [Next]_vars
  PROVE  TypeOK' /\ AtWork' /\ ReadsInside'
<1>1. CASE UNCHANGED vars
  BY <1>1 DEF vars, TypeOK, AtWork, ReadsInside, Headers, Layouts, RvaOffset, size
<1> QED BY <1>1, HeaderSteps, ReadSectionStep, FillSectionStatsStep, FindImportTableStep,
           ReadDescriptorStep, ReadThunkStep, ThunksEndStep, EndSteps,
           FindExportDirectoryStep, ReadExportStep DEF Next

\* Every variable keeps its type: no more sections than the parser allows, and no
\* overlay that is longer than the buffer, for any buffer (peparse.cpp:260-280, 467-483).
THEOREM TypeCorrect == Spec => []TypeOK
<1>1. TypeOK /\ AtWork /\ ReadsInside /\ [Next]_vars => (TypeOK /\ AtWork /\ ReadsInside)'
  BY StepTyped
<1> QED BY InitTyped, <1>1, PTL DEF Spec

\* No step reads outside of the buffer, for any buffer: headers, sections, descriptors,
\* thunks, slots that wrap around and texts (peparse.cpp:164-232, 260-275, 390-401).
THEOREM NoReadOutside == Spec => []ReadsInside
<1>1. TypeOK /\ AtWork /\ ReadsInside /\ [Next]_vars => (TypeOK /\ AtWork /\ ReadsInside)'
  BY StepTyped
<1> QED BY InitTyped, <1>1, PTL DEF Spec
(***************************************************************************)
(* The overlay.  The section table is a copy of the headers, and it is not *)
(* closed before a header is cut off or none is left.                      *)
(***************************************************************************)
SectionsFrom == OptionalOffset + At(NtOffset + 2)
SectionsRead ==
  /\ \A k \in 1..Len(sections) : sections[k] = SectionAt(SectionsFrom + (k - 1) * SectionSize)
  /\ pc \in {"dos", "nt", "optional", "sections"} => out.overlay_size = 0
  /\ out.overlay_size # 0 =>
       /\ out.raw_image_end + out.overlay_size = size
       /\ \A k \in 1..Len(sections) : sections[k].raw_size # 0 => RawEnd(sections[k]) <= out.raw_image_end
       /\ \/ Len(sections) >= Smaller(At(NtOffset + 1), MaxSections)
          \/ ~Fits(SectionsFrom + Len(sections) * SectionSize, SectionSize)

LEMMA ReadSectionKept ==
  ASSUME TypeOK, AtWork, SectionsRead, ReadSection PROVE SectionsRead'
<1>1. /\ data' = data /\ pc' = pc /\ pc = "sections" /\ out' = out
      /\ sections' = Append(sections, SectionAt(SectionOffset))
  BY DEF ReadSection
<1>2. SectionOffset = SectionsFrom + Len(sections) * SectionSize /\ Len(sections) \in Nat
  BY <1>1, LenProperties DEF AtWork, SectionOffset, SectionsFrom, TypeOK
<1>3. /\ Len(sections') = Len(sections) + 1
      /\ \A k \in 1..Len(sections) : sections'[k] = sections[k]
      /\ sections'[Len(sections) + 1] = SectionAt(SectionOffset)
  BY <1>1, SectionTyped, AppendProperties DEF TypeOK
<1>4. \A k \in 1..Len(sections') : sections'[k] = SectionAt(SectionsFrom + (k - 1) * SectionSize)
  BY <1>2, <1>3 DEF SectionsRead
<1>5. SectionsFrom' = SectionsFrom
  BY <1>1 DEF SectionsFrom, OptionalOffset, NtOffset, At, size
<1>6. \A k \in Int :
        SectionAt(SectionsFrom + (k - 1) * SectionSize)' = SectionAt(SectionsFrom + (k - 1) * SectionSize)
  BY <1>1, <1>5 DEF SectionAt, At, size, SectionSize
<1>7. \A k \in 1..Len(sections') :
        sections'[k] = SectionAt(SectionsFrom + (k - 1) * SectionSize)'
  BY <1>2, <1>3, <1>4, <1>6
<1> QED BY <1>1, <1>7 DEF SectionsRead

LEMMA FillSectionStatsKept ==
  ASSUME TypeOK, AtWork, SectionsRead, FillSectionStats PROVE SectionsRead'
<1>1. /\ data' = data /\ pc' = "imports" /\ sections' = sections /\ pc = "sections" /\ ~SectionDue
      /\ size' = size
  BY DEF FillSectionStats, size
<1>2. PICK end \in Last(RawEnds \cup {0}) :
        out' = [out EXCEPT !.raw_image_end = end, !.overlay_size = OverlaySize(end)]
  BY DEF FillSectionStats
<1>3. out'.raw_image_end = end /\ out'.overlay_size = OverlaySize(end)
  BY <1>2 DEF TypeOK, Headers
<1>4. end \in Nat
  <2>1. \A k \in 1..Len(sections) : sections[k] \in Section
    BY ElementOfSeq DEF TypeOK
  <2> QED BY <1>2, <2>1, SectionNat DEF Last, RawEnds, RawEnd
<1>5. \A k \in 1..Len(sections) : sections[k].raw_size # 0 => RawEnd(sections[k]) <= end
  BY <1>2 DEF Last, RawEnds
<1>6. out'.overlay_size # 0 => out'.raw_image_end + out'.overlay_size = size
  BY <1>3, <1>4, SizeNat DEF OverlaySize
<1>7. \/ Len(sections) >= Smaller(At(NtOffset + 1), MaxSections)
      \/ ~Fits(SectionsFrom + Len(sections) * SectionSize, SectionSize)
  BY <1>1, HeaderOffsets, Constants, LenProperties
  DEF AtWork, SectionDue, SectionOffset, SectionsFrom, Smaller, TypeOK
<1>8. /\ SectionsFrom' = SectionsFrom
      /\ Smaller(At(NtOffset + 1), MaxSections)' = Smaller(At(NtOffset + 1), MaxSections)
      /\ Fits(SectionsFrom + Len(sections) * SectionSize, SectionSize)'
         = Fits(SectionsFrom + Len(sections) * SectionSize, SectionSize)
  BY <1>1 DEF SectionsFrom, OptionalOffset, NtOffset, At, size, Smaller, Fits, SectionSize
<1>9. \A k \in 1..Len(sections) : sections'[k] = SectionAt(SectionsFrom + (k - 1) * SectionSize)'
  BY <1>1, <1>8 DEF SectionsRead, SectionAt, At, size, SectionSize
<1> QED BY <1>1, <1>3, <1>5, <1>6, <1>7, <1>8, <1>9 DEF SectionsRead, RawEnd

\* No other step touches the table or the overlay.
LEMMA OthersKept ==
  ASSUME TypeOK, SectionsRead, UNCHANGED <<data, sections>>,
         out'.overlay_size = out.overlay_size, out'.raw_image_end = out.raw_image_end,
         pc' \in {"dos", "nt", "optional", "sections"} =>
           pc \in {"dos", "nt", "optional", "sections"}
  PROVE  SectionsRead'
<1>1. /\ SectionsFrom' = SectionsFrom /\ size' = size
      /\ Smaller(At(NtOffset + 1), MaxSections)' = Smaller(At(NtOffset + 1), MaxSections)
      /\ Fits(SectionsFrom + Len(sections) * SectionSize, SectionSize)'
         = Fits(SectionsFrom + Len(sections) * SectionSize, SectionSize)
  BY DEF SectionsFrom, OptionalOffset, NtOffset, At, size, Smaller, Fits, SectionSize
<1>2. \A k \in 1..Len(sections) : sections'[k] = SectionAt(SectionsFrom + (k - 1) * SectionSize)'
  BY <1>1 DEF SectionsRead, SectionAt, At, size, SectionSize
<1> QED BY <1>1, <1>2 DEF SectionsRead, RawEnd

LEMMA DirectoriesKeep ==
  ASSUME TypeOK, NEW dirs, NEW wide
  PROVE  /\ WithDirectories(dirs, wide).overlay_size = out.overlay_size
         /\ WithDirectories(dirs, wide).raw_image_end = out.raw_image_end
  BY DEF WithDirectories, TypeOK, Headers

LEMMA StepSectionsRead ==
  ASSUME TypeOK, AtWork, SectionsRead, [Next]_vars PROVE SectionsRead'
<1>1. CASE ReadSection
  BY <1>1, ReadSectionKept
<1>2. CASE FillSectionStats
  BY <1>2, FillSectionStatsKept
<1>3. CASE ReadOptionalHeader
  <2>1. out'.overlay_size = out.overlay_size /\ out'.raw_image_end = out.raw_image_end
    BY <1>3, DirectoriesKeep DEF ReadOptionalHeader
  <2> QED BY <1>3, <2>1, OthersKept DEF ReadOptionalHeader
<1>4. CASE ReadDosHeader \/ ReadNtHeader
  <2>1. out'.overlay_size = out.overlay_size /\ out'.raw_image_end = out.raw_image_end
    BY <1>4 DEF ReadDosHeader, ReadNtHeader, TypeOK, Headers
  <2> QED BY <1>4, <2>1, OthersKept DEF ReadDosHeader, ReadNtHeader
<1>5. CASE FindImportTable \/ ReadDescriptor \/ ImportsEnd \/ ReadThunk \/ ThunksEnd
  <2>1. UNCHANGED <<data, sections, out>> /\ pc' \in {"descriptors", "thunks", "exports"}
    BY <1>5, Zenon DEF FindImportTable, ReadDescriptor, ImportsEnd, ReadThunk, ThunksEnd, Goto
  <2> QED BY <2>1, OthersKept
<1>6. CASE FindExportDirectory \/ ReadExport \/ ExportsEnd
  <2>1. UNCHANGED <<data, sections, out>> /\ pc' \in {"names", "done"}
    BY <1>6, Zenon DEF FindExportDirectory, ReadExport, ExportsEnd, Goto
  <2> QED BY <2>1, OthersKept
<1>7. CASE UNCHANGED vars
  BY <1>7, OthersKept DEF vars
<1> QED BY <1>1, <1>2, <1>3, <1>4, <1>5, <1>6, <1>7 DEF Next

LEMMA SectionsReadOverlay ==
  ASSUME TypeOK, SectionsRead PROVE OverlayBehindSections
<1> SUFFICES ASSUME out.overlay_size # 0, At(NtOffset + 1) <= MaxSections,
                    NEW k \in 0..At(NtOffset + 1) - 1,
                    Fits(SectionsFrom + k * SectionSize, SectionSize),
                    SectionAt(SectionsFrom + k * SectionSize).raw_size # 0
             PROVE  RawEnd(SectionAt(SectionsFrom + k * SectionSize)) <= size - out.overlay_size
  BY DEF OverlayBehindSections, SectionsFrom, RawEnd
<1>1. At(NtOffset + 1) \in Nat /\ SectionsFrom \in Nat /\ Len(sections) \in Nat
  BY HeaderOffsets, LenProperties DEF SectionsFrom, TypeOK
<1>2. k < Len(sections)
  <2> SUFFICES ASSUME k >= Len(sections) PROVE FALSE
    BY <1>1
  <2>1. ~Fits(SectionsFrom + Len(sections) * SectionSize, SectionSize)
    BY <1>1, Constants DEF SectionsRead, Smaller
  <2> QED BY <1>1, <2>1, SizeNat DEF Fits, SectionSize
<1>3. k + 1 \in 1..Len(sections) /\ (k + 1) - 1 = k
  BY <1>1, <1>2
<1>4. sections[k + 1] = SectionAt(SectionsFrom + k * SectionSize)
  BY <1>3 DEF SectionsRead
<1>5. RawEnd(sections[k + 1]) <= out.raw_image_end
  BY <1>3, <1>4 DEF SectionsRead
<1>6. out.raw_image_end = size - out.overlay_size
  BY SizeNat DEF SectionsRead, TypeOK, Headers
<1> QED BY <1>4, <1>5, <1>6

\* No raw byte of a section belongs to the overlay, for any buffer and any number of
\* sections up to the limit (peparse.cpp:260-279, 467-483).
THEOREM OverlayTheorem == Spec => []OverlayBehindSections
<1>1. Init => SectionsRead
  BY EmptySeq DEF Init, SectionsRead, NoPe
<1>2. /\ TypeOK /\ AtWork /\ ReadsInside /\ SectionsRead /\ [Next]_vars
      => (TypeOK /\ AtWork /\ ReadsInside /\ SectionsRead)'
  BY StepTyped, StepSectionsRead
<1>3. TypeOK /\ SectionsRead => OverlayBehindSections
  BY SectionsReadOverlay
<1> QED BY InitTyped, <1>1, <1>2, <1>3, PTL DEF Spec

(***************************************************************************)
(* The import and export tables that PeParse reports are those that the    *)
(* loader sees: none of its names is lost where the tables begin in place, *)
(* and no other name is made up where file and image have one layout.      *)
(***************************************************************************)

(***************************************************************************)
(* Where an rva and a text are looked for.                                 *)
(***************************************************************************)
LEMMA FirstIsZero ==
  ASSUME NEW S \in SUBSET Nat, 0 \in S PROVE First(S) = {0}
<1>1. \A j \in S : 0 <= j
  OBVIOUS
<1>2. \A k \in First(S) : k \in Nat /\ k <= 0
  BY DEF First
<1>3. 0 \in First(S)
  BY <1>1 DEF First
<1>4. \A k \in First(S) : k = 0
  BY <1>2
<1> QED BY <1>3, <1>4, Zenon

LEMMA LayoutsTyped ==
  ASSUME TypeOK, NEW rva PROVE Layouts(rva) \in SUBSET Nat /\ Layouts(rva) \subseteq 0..Len(sections)
  BY LenProperties DEF Layouts, TypeOK

\* The rva itself is the first place to look at.
LEMMA InPlace ==
  ASSUME TypeOK, NEW rva \in Words
  PROVE  /\ RvaOffset(rva, 0) = rva /\ rva \in Nat
         /\ rva < size <=> 0 \in Layouts(rva)
         /\ rva < size => First(Layouts(rva)) = {0}
<1>1. RvaOffset(rva, 0) = rva /\ rva \in Nat
  BY Constants DEF RvaOffset
<1>2. rva < size <=> 0 \in Layouts(rva)
  BY <1>1, LenProperties DEF Layouts, TypeOK
<1> QED BY <1>1, <1>2, LayoutsTyped, FirstIsZero

\* A text begins inside of the buffer.
LEMMA TextBegins ==
  ASSUME TypeOK, NEW off \in Nat, ReadCStringAt(off) # <<>> PROVE off < size
<1>1. PICK e \in Ends(off) : TRUE
  BY DEF ReadCStringAt
<1>2. e >= off /\ e < size /\ e \in Int
  BY <1>1, Constants DEF Ends, Cells
<1> QED BY <1>2, SizeNat

\* A text that is in place is the one that is read, wherever else the rva may be.
LEMMA TextInPlace ==
  ASSUME TypeOK, NEW rva \in Words, NEW skip \in Nat, ReadCStringAt(rva + skip) # <<>>
  PROVE  ReadCStringRva(rva, skip) = {ReadCStringAt(rva + skip)}
<1>1. rva \in Nat /\ rva + skip \in Nat
  BY Constants
<1>2. rva < size
  BY <1>1, TextBegins, SizeNat
<1>3. 0 \in TextLayouts(rva, skip) /\ TextLayouts(rva, skip) \in SUBSET Nat
  BY <1>2, InPlace, LayoutsTyped DEF TextLayouts
<1>4. First(TextLayouts(rva, skip)) = {0}
  BY <1>3, FirstIsZero
<1> QED BY <1>4, InPlace DEF ReadCStringRva

\* Where file and image have one layout, an rva is at one place.
LEMMA OneOffset ==
  ASSUME TypeOK, SameInFile, NEW rva \in Words, NEW k \in 0..Len(sections)
  PROVE  RvaOffset(rva, k) = rva
<1>1. CASE k = 0
  BY <1>1 DEF RvaOffset
<1>2. CASE k # 0
  <2>1. k \in 1..Len(sections) /\ rva \in Nat
    BY <1>2, LenProperties, Constants DEF TypeOK
  <2>2. sections[k].raw_offset = sections[k].virtual_address /\ sections[k] \in Section
    BY <2>1, ElementOfSeq DEF SameInFile, TypeOK
  <2>3. sections[k].virtual_address \in Nat
    BY <2>2, SectionNat
  <2> QED BY <1>2, <2>1, <2>2, <2>3 DEF RvaOffset
<1> QED BY <1>1, <1>2

LEMMA OneText ==
  ASSUME TypeOK, SameInFile, NEW rva \in Words, NEW skip \in Nat
  PROVE  \A text \in ReadCStringRva(rva, skip) : text = ReadCStringAt(rva + skip) /\ text # <<>>
<1>1. \A k \in First(TextLayouts(rva, skip)) :
        /\ k \in 0..Len(sections)
        /\ ReadCStringAt(RvaOffset(rva, k) + skip) # <<>>
  BY LayoutsTyped DEF First, TextLayouts
<1> QED BY <1>1, OneOffset DEF ReadCStringRva

(***************************************************************************)
(* What the loader sees, by the numbers of descriptors and thunks.         *)
(***************************************************************************)
There(e) == DescriptorThere(out.import_rva + e * DescriptorSize)
D(e) == DescriptorAt(out.import_rva + e * DescriptorSize)
DllName(e) == ReadCStringAt(D(e).Name)
RvaOf(e) == ThunkRva(D(e))
ThunkOf(e, n) == RvaOf(e) + n * ThunkSize
ThunkThere(e, n) == Fits(ThunkOf(e, n), ThunkSize) /\ ~ThunkZero(ThunkOf(e, n))
ByName(e, n) == At(ThunkOf(e, n) + ThunkSize - 1) < SignBit
NameOf(e, n) == ReadCStringAt(At(ThunkOf(e, n)) + HintSize)
NamesOf(e) == LoadedNames(D(e))

LEMMA NamesByNumber ==
  ASSUME NEW e, NEW name
  PROVE  name \in NamesOf(e) <=>
           \E n \in 0..MaxThunks - 1 :
             (\A m \in 0..n : ThunkThere(e, m)) /\ ByName(e, n) /\ name = NameOf(e, n)
<1> DEFINE Seen(n) == \A m \in 0..n : ThunkThere(e, m)
<1>1. LoadedThunks(RvaOf(e)) = {ThunkOf(e, n) : n \in {x \in 0..MaxThunks - 1 : Seen(x)}}
  BY Zenon DEF LoadedThunks, ThunkThere, ThunkOf
<1> HIDE DEF Seen
<1>2. NamesOf(e) = {ReadCStringAt(At(t) + HintSize) :
                      t \in {u \in LoadedThunks(RvaOf(e)) : At(u + ThunkSize - 1) < SignBit}}
  BY Zenon DEF NamesOf, LoadedNames, RvaOf
<1>3. name \in NamesOf(e) <=>
        \E t \in LoadedThunks(RvaOf(e)) :
          At(t + ThunkSize - 1) < SignBit /\ name = ReadCStringAt(At(t) + HintSize)
  BY <1>2, Zenon
<1>4. name \in NamesOf(e) <=>
        \E n \in {x \in 0..MaxThunks - 1 : Seen(x)} :
          /\ At(ThunkOf(e, n) + ThunkSize - 1) < SignBit
          /\ name = ReadCStringAt(At(ThunkOf(e, n)) + HintSize)
  BY <1>1, <1>3, Zenon
<1> QED BY <1>4, Zenon DEF Seen, ByName, NameOf

LEMMA ImportsByNumber ==
  ASSUME NEW x
  PROVE  x \in LoadedImports <=>
           \E e \in 0..DescriptorLimit - 1 :
             /\ \A f \in 0..e : There(f)
             /\ DllName(e) # <<>> /\ RvaOf(e) # 0
             /\ \E name \in NamesOf(e) \ {<<>>} : x = <<DllName(e), name>>
<1> DEFINE Seen(e) == \A f \in 0..e : There(f)
           Good == {d \in LoadedDescriptors : ReadCStringAt(d.Name) # <<>> /\ ThunkRva(d) # 0}
           Pairs(d) == {<<ReadCStringAt(d.Name), name>> : name \in LoadedNames(d) \ {<<>>}}
<1>1. LoadedDescriptors = {D(e) : e \in {y \in 0..DescriptorLimit - 1 : Seen(y)}}
  BY Zenon DEF LoadedDescriptors, There, D
<1>2. LoadedImports = UNION {Pairs(d) : d \in Good}
  BY Zenon DEF LoadedImports
<1> HIDE DEF Seen, Good, Pairs
<1>3. x \in LoadedImports <=> \E d \in Good : x \in Pairs(d)
  BY <1>2, Zenon
<1>6. \A d : x \in Pairs(d) <=>
                \E name \in LoadedNames(d) \ {<<>>} : x = <<ReadCStringAt(d.Name), name>>
  BY Zenon DEF Pairs
<1>4. x \in LoadedImports <=>
        \E d \in LoadedDescriptors :
          /\ ReadCStringAt(d.Name) # <<>> /\ ThunkRva(d) # 0
          /\ \E name \in LoadedNames(d) \ {<<>>} : x = <<ReadCStringAt(d.Name), name>>
  BY <1>3, <1>6, Zenon DEF Good
<1>5. x \in LoadedImports <=>
        \E e \in {y \in 0..DescriptorLimit - 1 : Seen(y)} :
          /\ ReadCStringAt(D(e).Name) # <<>> /\ ThunkRva(D(e)) # 0
          /\ \E name \in LoadedNames(D(e)) \ {<<>>} : x = <<ReadCStringAt(D(e).Name), name>>
  BY <1>1, <1>4, Zenon
<1> QED BY <1>5, Zenon DEF Seen, DllName, RvaOf, NamesOf

\* What has been reported: pairs of a dll and a name.
LEMMA PairsOfSequence ==
  ASSUME NEW s, NEW x
  PROVE  x \in UNION {{<<s[k].name, name>> : name \in s[k].names} : k \in 1..Len(s)} <=>
           \E k \in 1..Len(s) : \E name \in s[k].names : x = <<s[k].name, name>>
<1> DEFINE Pairs(k) == {<<s[k].name, name>> : name \in s[k].names}
           All == UNION {Pairs(k) : k \in 1..Len(s)}
<1>1. \A k : x \in Pairs(k) <=> \E name \in s[k].names : x = <<s[k].name, name>>
  BY Zenon
<1>2. x \in All <=> \E k \in 1..Len(s) : x \in Pairs(k)
  <2> HIDE DEF Pairs
  <2> QED BY Zenon
<1>3. x \in All <=> \E k \in 1..Len(s) : \E name \in s[k].names : x = <<s[k].name, name>>
  <2> HIDE DEF Pairs, All
  <2> QED BY <1>1, <1>2, Zenon
<1> QED BY <1>3, Zenon

LEMMA ReportedPairs ==
  ASSUME NEW x
  PROVE  x \in ReportedImports <=>
           \E k \in 1..Len(imports) : \E name \in imports[k].names : x = <<imports[k].name, name>>
  BY PairsOfSequence, Zenon DEF ReportedImports

(***************************************************************************)
(* What a step that leaves the buffer and the headers alone cannot change. *)
(***************************************************************************)
Fixed == data' = data /\ out' = out /\ sections' = sections

LEMMA FixedTable ==
  ASSUME Fixed, NEW e
  PROVE  There(e)' = There(e) /\ RvaOf(e)' = RvaOf(e) /\ DescriptorLimit' = DescriptorLimit
<1>1. There(e)' = There(e)
  BY DEF Fixed, There, DescriptorThere, DescriptorAt, Fits, size, At
<1>2. RvaOf(e)' = RvaOf(e)
  BY DEF Fixed, RvaOf, D, ThunkRva, DescriptorAt, size, At
<1>3. DescriptorLimit' = DescriptorLimit
  BY DEF Fixed, DescriptorLimit
<1> QED BY <1>1, <1>2, <1>3

LEMMA FixedNames ==
  ASSUME Fixed, NEW e PROVE DllName(e)' = DllName(e) /\ NamesOf(e)' = NamesOf(e)
<1>1. DllName(e)' = DllName(e)
  BY DEF Fixed, DllName, D, DescriptorAt, ReadCStringAt, Ends, Cells, size, At
<1>2. NamesOf(e)' = NamesOf(e)
  BY DEF Fixed, NamesOf, D, DescriptorAt, LoadedNames, LoadedThunks, ThunkRva, ThunkSize,
         ThunkZero, ReadCStringAt, Ends, Cells, Fits, size, At
<1> QED BY <1>1, <1>2

LEMMA FixedThunks ==
  ASSUME Fixed, NEW e, NEW n
  PROVE  /\ ThunkThere(e, n)' = ThunkThere(e, n) /\ ByName(e, n)' = ByName(e, n)
         /\ NameOf(e, n)' = NameOf(e, n)
<1>1. ThunkThere(e, n)' = ThunkThere(e, n)
  BY DEF Fixed, ThunkThere, ThunkOf, RvaOf, D, DescriptorAt, ThunkRva, ThunkSize, ThunkZero,
         Cells, Fits, size, At
<1>2. ByName(e, n)' = ByName(e, n)
  BY DEF Fixed, ByName, ThunkOf, RvaOf, D, DescriptorAt, ThunkRva, ThunkSize, size, At
<1>3. NameOf(e, n)' = NameOf(e, n)
  BY DEF Fixed, NameOf, ThunkOf, RvaOf, D, DescriptorAt, ThunkRva, ThunkSize, ReadCStringAt,
         Ends, Cells, size, At
<1> QED BY <1>1, <1>2, <1>3

LEMMA FixedLoaded ==
  ASSUME Fixed PROVE LoadedImports' = LoadedImports /\ LoadedExports' = LoadedExports
<1>1. LoadedImports' = LoadedImports
  BY DEF Fixed, LoadedImports, LoadedDescriptors, DescriptorLimit, DescriptorThere,
         DescriptorAt, LoadedNames, LoadedThunks, ThunkRva, ThunkSize, ThunkZero,
         ReadCStringAt, Ends, Cells, Fits, size, At
<1>2. LoadedExports' = LoadedExports
  BY DEF Fixed, LoadedExports, ReadCStringAt, Ends, Cells, Fits, size, At
<1> QED BY <1>1, <1>2

LEMMA FixedPlace ==
  ASSUME Fixed
  PROVE  /\ ImportTableInPlace' = ImportTableInPlace
         /\ ExportTableInPlace' = ExportTableInPlace /\ SameInFile' = SameInFile
<1>1. ImportTableInPlace' = ImportTableInPlace
  BY DEF Fixed, ImportTableInPlace, DescriptorThere, DescriptorAt, ReadCStringAt, Ends,
         Cells, Fits, size, At
<1>2. ExportTableInPlace' = ExportTableInPlace
  BY DEF Fixed, ExportTableInPlace, Fits, size, At
<1>3. SameInFile' = SameInFile
  BY DEF Fixed, SameInFile
<1> QED BY <1>1, <1>2, <1>3

\* The export names, by the numbers of their slots.
Slot(e) == At(out.export_rva + 1) + e
SlotText(e) == ReadCStringAt(At(Slot(e)))
SlotsThere(e) == \A y \in 0..e : Fits(Slot(y), 1)

LEMMA ExportsByNumber ==
  ASSUME NEW x
  PROVE  x \in LoadedExports <=>
           \E e \in 0..Smaller(At(out.export_rva), MaxExports) - 1 : SlotsThere(e) /\ x = SlotText(e)
  BY Zenon DEF LoadedExports, SlotsThere, Slot, SlotText

LEMMA FixedSlots ==
  ASSUME Fixed, NEW e
  PROVE  /\ Slot(e)' = Slot(e) /\ SlotText(e)' = SlotText(e) /\ SlotsThere(e)' = SlotsThere(e)
         /\ At(out.export_rva)' = At(out.export_rva)
         /\ At(out.export_rva + 1)' = At(out.export_rva + 1)
         /\ Fits(Slot(e), 1)' = Fits(Slot(e), 1)
<1>1. Slot(e)' = Slot(e) /\ Fits(Slot(e), 1)' = Fits(Slot(e), 1)
  BY DEF Fixed, Slot, Fits, size, At
<1>2. SlotText(e)' = SlotText(e)
  BY DEF Fixed, SlotText, Slot, ReadCStringAt, Ends, Cells, size, At
<1>3. SlotsThere(e)' = SlotsThere(e)
  BY DEF Fixed, SlotsThere, Slot, Fits, size, At
<1>4. At(out.export_rva)' = At(out.export_rva) /\ At(out.export_rva + 1)' = At(out.export_rva + 1)
  BY DEF Fixed, size, At
<1> QED BY <1>1, <1>2, <1>3, <1>4

(***************************************************************************)
(* The invariant.  PlaceInv: where the tables are read, and that nothing   *)
(* is reported before.  CompleteInv: the descriptors that have been passed *)
(* over are reported, and the one at work holds the names of the thunks    *)
(* that were read in place, or has none to hold.  SoundInv: all that is    *)
(* reported or at work is there.  ExportInv: the same for export names.    *)
(***************************************************************************)
BeforeImports == {"dos", "nt", "optional", "sections", "imports"}
Importing == {"descriptors", "thunks"}

PlaceInv ==
  /\ size <= WordMax
  /\ pc \in {"dos", "nt", "optional"} => out.import_rva = 0 /\ out.export_rva = 0
  /\ pc \in BeforeImports => imports = <<>>
  /\ pc \in BeforeImports \cup Importing \cup {"exports"} => exports = <<>>
  /\ pc = "thunks" => i >= 1
  /\ pc \in Importing /\ (SameInFile \/ ImportTableInPlace) =>
       /\ at = out.import_rva /\ count = DescriptorLimit /\ i <= count
       /\ \A e \in 0..i - 1 : There(e)

Complete(e) ==
  DllName(e) # <<>> /\ RvaOf(e) # 0 =>
    \A name \in NamesOf(e) \ {<<>>} : <<DllName(e), name>> \in ReportedImports

ReadInPlace(e) ==
  /\ dll.layout = 0 /\ dll.n <= MaxThunks
  /\ \A n \in 0..dll.n - 1 : ByName(e, n) /\ NameOf(e, n) # <<>> => NameOf(e, n) \in dll.names

AtWorkComplete(e) ==
  DllName(e) # <<>> =>
    /\ dll.name = DllName(e) /\ dll.rva = RvaOf(e)
    /\ ReadInPlace(e) \/ NamesOf(e) \subseteq {<<>>}

CompleteInv ==
  ImportTableInPlace =>
    /\ pc \in Importing => \A e \in 0..i - 1 : pc = "descriptors" \/ e # i - 1 => Complete(e)
    /\ pc = "thunks" => \A e \in 0..i - 1 : e = i - 1 => AtWorkComplete(e)
    /\ pc \in {"exports", "names", "done"} => LoadedImports \subseteq ReportedImports

AtWorkSound(e) ==
  /\ dll.name = DllName(e) /\ dll.rva = RvaOf(e) /\ DllName(e) # <<>> /\ RvaOf(e) # 0
  /\ dll.names \subseteq NamesOf(e) \ {<<>>}
  /\ dll.n <= MaxThunks /\ \A m \in 0..dll.n - 1 : ThunkThere(e, m)

SoundInv ==
  SameInFile =>
    /\ ReportedImports \subseteq LoadedImports
    /\ pc = "thunks" => \A e \in 0..i - 1 : e = i - 1 => AtWorkSound(e)

ExportInv ==
  /\ pc = "names" /\ (SameInFile \/ ExportTableInPlace) =>
       /\ at = At(out.export_rva + 1) /\ i <= count
       /\ count = Smaller(At(out.export_rva), MaxExports)
  /\ SameInFile =>
       /\ ReportedExports \subseteq LoadedExports
       /\ pc = "names" => \A e \in 0..i - 1 : Fits(Slot(e), 1)
  /\ ExportTableInPlace =>
       /\ pc = "names" =>
            \A e \in 0..i - 1 : SlotsThere(e) => SlotText(e) \in ReportedExports \cup {<<>>}
       /\ pc = "done" => LoadedExports \ {<<>>} \subseteq ReportedExports

TableInv == TypeOK /\ AtWork /\ ReadsInside /\ PlaceInv /\ CompleteInv /\ SoundInv /\ ExportInv

(***************************************************************************)
(* What has been reported.                                                 *)
(***************************************************************************)
LEMMA NothingYet ==
  /\ imports = <<>> => ReportedImports = {}
  /\ exports = <<>> => ReportedExports = {}
<1>1. imports = <<>> => ReportedImports = {}
  <2>1. SUFFICES ASSUME imports = <<>>, NEW x \in ReportedImports PROVE FALSE
    BY Zenon
  <2>2. PICK k \in 1..Len(imports) : TRUE
    BY <2>1, ReportedPairs
  <2> QED BY <2>1, <2>2, EmptySeq
<1>2. exports = <<>> => ReportedExports = {}
  BY EmptySeq DEF ReportedExports
<1> QED BY <1>1, <1>2

LEMMA ReportsKept ==
  /\ imports' = imports => ReportedImports' = ReportedImports
  /\ exports' = exports => ReportedExports' = ReportedExports
  BY DEF ReportedImports, ReportedExports

\* One more import adds its names under its dll, and nothing else.
LEMMA OneMoreImport ==
  ASSUME TypeOK, NEW d, imports' = Append(imports, d)
  PROVE  /\ ReportedImports \subseteq ReportedImports'
         /\ \A name \in d.names : <<d.name, name>> \in ReportedImports'
         /\ \A x \in ReportedImports' :
              x \in ReportedImports \/ \E name \in d.names : x = <<d.name, name>>
<1> DEFINE old == imports
           new == imports'
           n == Len(imports)
<1>1. /\ Len(new) = n + 1 /\ n \in Nat
      /\ \A k \in 1..n : new[k] = old[k]
      /\ new[n + 1] = d
  BY AppendProperties, LenProperties DEF TypeOK
<1>2. \A x : x \in ReportedImports' <=>
               \E k \in 1..Len(new) : \E name \in new[k].names : x = <<new[k].name, name>>
  <2>1. ReportedImports' = UNION {{<<new[k].name, name>> : name \in new[k].names} : k \in 1..Len(new)}
    BY DEF ReportedImports
  <2> HIDE DEF new
  <2> QED BY <2>1, PairsOfSequence, Zenon
<1>3. \A x : x \in ReportedImports <=>
               \E k \in 1..n : \E name \in old[k].names : x = <<old[k].name, name>>
  BY ReportedPairs
<1>4. \A k : k \in 1..Len(new) <=> k \in 1..n \/ k = n + 1
  BY <1>1
<1> HIDE DEF old, new, n
<1>5. \A x : (\E k \in 1..Len(new) : \E name \in new[k].names : x = <<new[k].name, name>>) <=>
               \/ \E k \in 1..n : \E name \in old[k].names : x = <<old[k].name, name>>
               \/ \E name \in d.names : x = <<d.name, name>>
  BY <1>1, <1>4, Zenon
<1> QED BY <1>2, <1>3, <1>5, Zenon

LEMMA OneMoreExport ==
  ASSUME TypeOK, NEW name, exports' = Append(exports, name)
  PROVE  ReportedExports' = ReportedExports \cup {name}
<1>1. /\ Len(exports') = Len(exports) + 1 /\ Len(exports) \in Nat
      /\ \A k \in 1..Len(exports) : exports'[k] = exports[k]
      /\ exports'[Len(exports) + 1] = name
  BY AppendProperties, LenProperties DEF TypeOK
<1> QED BY <1>1 DEF ReportedExports

LEMMA CompleteKept ==
  ASSUME Fixed, ReportedImports \subseteq ReportedImports', NEW e, Complete(e)
  PROVE  Complete(e)'
  BY FixedTable, FixedNames, Zenon DEF Complete

(***************************************************************************)
(* The headers: there are no tables yet.                                   *)
(***************************************************************************)
LEMMA NoTables ==
  ASSUME out.import_rva = 0, out.export_rva = 0
  PROVE  ~ImportTableInPlace /\ ~ExportTableInPlace
  BY DEF ImportTableInPlace, ExportTableInPlace

LEMMA InitTables == Init => PlaceInv /\ CompleteInv /\ SoundInv /\ ExportInv
<1> SUFFICES ASSUME Init PROVE PlaceInv /\ CompleteInv /\ SoundInv /\ ExportInv
  OBVIOUS
<1>1. out.import_rva = 0 /\ out.export_rva = 0 /\ imports = <<>> /\ exports = <<>> /\ pc = "dos"
  BY DEF Init, NoPe
<1>2. size <= WordMax
  BY BufferAssumption DEF Init, size
<1> QED BY <1>1, <1>2, NothingYet, NoTables
        DEF PlaceInv, CompleteInv, SoundInv, ExportInv, Importing

HeaderStep == ReadDosHeader \/ ReadNtHeader \/ ReadOptionalHeader \/ ReadSection \/ FillSectionStats

LEMMA HeaderTables ==
  ASSUME TypeOK, PlaceInv, HeaderStep
  PROVE  PlaceInv' /\ CompleteInv' /\ SoundInv' /\ ExportInv'
<1>1. pc \in {"dos", "nt", "optional", "sections"} /\ data' = data
      /\ imports' = imports /\ exports' = exports
  BY DEF HeaderStep, ReadDosHeader, ReadNtHeader, ReadOptionalHeader, ReadSection, FillSectionStats
<1>2. imports' = <<>> /\ exports' = <<>>
  BY <1>1 DEF PlaceInv, BeforeImports
<1>3. pc' \in {"nt", "optional", "done"} => out'.import_rva = 0 /\ out'.export_rva = 0
  <2>1. CASE ReadDosHeader \/ ReadOptionalHeader \/ ReadSection \/ FillSectionStats
    BY <2>1 DEF ReadDosHeader, ReadOptionalHeader, ReadSection, FillSectionStats, PlaceInv
  <2>2. CASE ReadNtHeader
    <3>1. out' = out \/ out' = [out EXCEPT !.valid = TRUE]
      BY <2>2, Zenon DEF ReadNtHeader
    <3>2. out'.import_rva = out.import_rva /\ out'.export_rva = out.export_rva
      BY <3>1 DEF TypeOK, Headers
    <3> QED BY <2>2, <3>2 DEF ReadNtHeader, PlaceInv
  <2> QED BY <2>1, <2>2 DEF HeaderStep
<1>4. pc' \in {"nt", "optional", "sections", "imports", "done"}
  BY DEF HeaderStep, ReadDosHeader, ReadNtHeader, ReadOptionalHeader, ReadSection, FillSectionStats
<1>5. ReportedImports' = {} /\ ReportedExports' = {}
  BY <1>2, EmptySeq DEF ReportedImports, ReportedExports
<1>6. size' <= WordMax
  BY <1>1 DEF PlaceInv, size
<1>7. PlaceInv'
  BY <1>2, <1>3, <1>4, <1>6 DEF PlaceInv, Importing
<1>8. pc' = "done" => ~ImportTableInPlace' /\ ~ExportTableInPlace'
  BY <1>3 DEF ImportTableInPlace, ExportTableInPlace
<1> QED BY <1>4, <1>5, <1>7, <1>8 DEF CompleteInv, SoundInv, ExportInv, Importing

(***************************************************************************)
(* The import table is read in place.                                      *)
(***************************************************************************)
LEMMA TableAtItsRva ==
  ASSUME TypeOK
  PROVE  /\ ImportTableInPlace => First(TableLayouts) = {0} /\ TableLayouts # {}
         /\ SameInFile \/ ImportTableInPlace =>
              \A k \in First(TableLayouts) : RvaOffset(out.import_rva, k) = out.import_rva
<1>1. out.import_rva \in Words /\ out.import_rva \in Nat
  BY Constants DEF TypeOK, Headers
<1>2. TableLayouts \in SUBSET Nat /\ TableLayouts \subseteq 0..Len(sections)
  BY <1>1, LayoutsTyped DEF TableLayouts
<1>3. ASSUME ImportTableInPlace PROVE First(TableLayouts) = {0} /\ TableLayouts # {}
  <2>1. out.import_rva < size
    BY <1>1, <1>3, SizeNat DEF ImportTableInPlace, DescriptorThere, Fits, DescriptorSize
  <2>2. DescriptorAt(out.import_rva).Name \in Words /\ DescriptorAt(out.import_rva).Name \in Nat
    BY DescriptorWords, Constants
  <2>3. ReadCStringRva(DescriptorAt(out.import_rva).Name, 0) # {}
    <3>1. ReadCStringAt(DescriptorAt(out.import_rva).Name + 0) # <<>>
      BY <1>3, <2>2 DEF ImportTableInPlace
    <3> QED BY <2>2, <3>1, TextInPlace
  <2>4. 0 \in TableLayouts
    BY <1>1, <1>3, <2>1, <2>3, InPlace DEF TableLayouts, ImportTableInPlace
  <2> QED BY <1>2, <2>4, FirstIsZero
<1>4. ASSUME SameInFile PROVE \A k \in First(TableLayouts) : RvaOffset(out.import_rva, k) = out.import_rva
  BY <1>1, <1>2, <1>4, OneOffset DEF First
<1> QED BY <1>1, <1>3, <1>4, InPlace

LEMMA FindTables ==
  ASSUME TypeOK, PlaceInv, SoundInv, FindImportTable
  PROVE  PlaceInv' /\ CompleteInv' /\ SoundInv' /\ ExportInv'
<1> DEFINE first == First(TableLayouts)
           off(k) == RvaOffset(out.import_rva, k)
<1>1. /\ pc = "imports" /\ Fixed /\ imports' = imports /\ exports' = exports
      /\ \/ /\ pc' = "exports"
            /\ out.import_rva = 0 \/ out.import_size < DescriptorSize \/ TableLayouts = {}
         \/ /\ pc' = "descriptors" /\ i' = 0 /\ count' = DescriptorLimit
            /\ \E k \in first : at' = off(k)
  BY Zenon DEF FindImportTable, Fixed, DescriptorLimit
<1>2. imports = <<>> /\ exports = <<>> /\ size <= WordMax
  BY <1>1 DEF PlaceInv, BeforeImports
<1>3. ReportedImports' = {} /\ ReportedExports' = {}
  BY <1>1, <1>2, NothingYet, ReportsKept
<1>4. ImportTableInPlace' => pc' = "descriptors"
  <2>1. out.import_size \in Nat
    BY Constants DEF TypeOK, Headers
  <2> QED BY <1>1, <2>1, FixedPlace, TableAtItsRva DEF ImportTableInPlace, DescriptorSize
<1>5. (SameInFile \/ ImportTableInPlace)' /\ pc' = "descriptors" =>
        at' = out.import_rva /\ i' = 0 /\ count' = DescriptorLimit
  BY <1>1, FixedPlace, TableAtItsRva
<1>6. size' = size /\ out' = out /\ DescriptorLimit' = DescriptorLimit /\ DescriptorLimit \in Nat
  <2>1. out.import_size \in Nat
    BY Constants DEF TypeOK, Headers
  <2>2. out.import_size \div DescriptorSize + 1 \in Nat
    BY <2>1 DEF DescriptorSize
  <2> QED BY <1>1, <2>2, FixedTable, SmallerNat, Constants DEF Fixed, size, DescriptorLimit
<1>7. PlaceInv'
  BY <1>1, <1>2, <1>5, <1>6 DEF PlaceInv, Importing
<1>8. CompleteInv'
  BY <1>1, <1>4 DEF CompleteInv, Importing
<1> QED BY <1>1, <1>3, <1>7, <1>8 DEF SoundInv, ExportInv

(***************************************************************************)
(* One descriptor.                                                         *)
(***************************************************************************)
LEMMA DescriptorTyped ==
  ASSUME TypeOK, NEW e \in Nat
  PROVE  /\ D(e).Name \in Words /\ D(e).Name \in Nat /\ RvaOf(e) \in Words /\ RvaOf(e) \in Nat
         /\ out.import_rva \in Nat
  BY DescriptorWords, Constants DEF D, RvaOf, TypeOK, Headers

\* Behind the end of the buffer there are no thunks.
LEMMA NoThunks ==
  ASSUME TypeOK, NEW e \in Nat, ~(RvaOf(e) < size) PROVE NamesOf(e) = {}
<1>1. SUFFICES ASSUME NEW name \in NamesOf(e) PROVE FALSE
  BY Zenon
<1>2. PICK n \in 0..MaxThunks - 1 : \A m \in 0..n : ThunkThere(e, m)
  BY <1>1, NamesByNumber
<1>3. Fits(ThunkOf(e, 0), ThunkSize)
  BY <1>2, Constants DEF ThunkThere
<1>4. RvaOf(e) + 0 * ThunkSize + ThunkSize <= size
  BY <1>3 DEF ThunkOf, Fits
<1>5. 0 * ThunkSize = 0 /\ ThunkSize \in Nat /\ ThunkSize >= 1
  BY ThunkWidth
<1>6. RvaOf(e) \in Nat /\ size \in Nat
  BY DescriptorTyped, SizeNat
<1>7. RvaOf(e) + ThunkSize <= size
  BY <1>4, <1>5, <1>6
<1> QED BY <1>5, <1>6, <1>7

LEMMA ReadDescriptorTables ==
  ASSUME TypeOK, PlaceInv, CompleteInv, SoundInv, ExportInv, ReadDescriptor
  PROVE  PlaceInv' /\ CompleteInv' /\ SoundInv' /\ ExportInv'
<1> DEFINE d == DescriptorAt(DescriptorOffset)
           found == ReadCStringRva(d.Name, 0)
           rva == ThunkRva(d)
           entry(name) == [NoDll EXCEPT !.name = name, !.rva = rva]
           PassedOver == found = {} /\ pc' = pc /\ dll' = dll /\ imports' = imports
           Empty == /\ rva = 0 \/ Layouts(rva) = {}
                    /\ \E name \in found : imports' = Append(imports, entry(name))
                    /\ pc' = pc /\ dll' = dll
           Begun == /\ rva # 0 /\ pc' = "thunks" /\ imports' = imports
                    /\ \E name \in found, k \in First(Layouts(rva)) :
                         dll' = [entry(name) EXCEPT !.layout = k]
<1>1. /\ pc = "descriptors" /\ DescriptorDue /\ i' = i + 1 /\ Fixed /\ exports' = exports
      /\ at' = at /\ count' = count
      /\ PassedOver \/ Empty \/ Begun
  BY Zenon DEF ReadDescriptor, Fixed
<1>7. /\ found \subseteq Texts /\ NoDll.names = {} /\ NoDll.n = 0 /\ NoDll.layout = 0
      /\ \A name : /\ entry(name).name = name /\ entry(name).rva = rva
                   /\ entry(name).names = {} /\ entry(name).n = 0 /\ entry(name).layout = 0
      /\ \A name, k : LET e == [entry(name) EXCEPT !.layout = k] IN
           e.name = name /\ e.rva = rva /\ e.names = {} /\ e.n = 0 /\ e.layout = k
  BY DescriptorWords, Constants, ReadTextRva DEF NoDll
<1> HIDE DEF d, entry
<1>0. PICK j : j = i
  OBVIOUS
<1>2. i \in Nat /\ j \in Nat /\ count \in Nat /\ j < count /\ at \in Nat
  BY <1>0, <1>1 DEF TypeOK, DescriptorDue
<1>3. /\ size' = size /\ out' = out /\ DescriptorLimit' = DescriptorLimit
      /\ (SameInFile \/ ImportTableInPlace)' = (SameInFile \/ ImportTableInPlace)
      /\ ImportTableInPlace' = ImportTableInPlace /\ SameInFile' = SameInFile
  BY <1>1, FixedTable, FixedPlace DEF Fixed, size
<1>4. ASSUME SameInFile \/ ImportTableInPlace
      PROVE  d = D(j) /\ rva = RvaOf(j) /\ There(j)
  BY <1>0, <1>1, <1>4 DEF d, PlaceInv, Importing, D, RvaOf, There, DescriptorDue, DescriptorOffset
<1>5. pc' \in Importing /\ i' \in Nat /\ i' >= 1 /\ i' - 1 = j
  <2>1. pc' \in {"descriptors", "thunks"}
    BY <1>1, Zenon
  <2>2. i' = j + 1
    BY <1>0, <1>1
  <2> QED BY <1>2, <2>1, <2>2 DEF Importing
<1>6. PlaceInv'
  <2>1. ASSUME SameInFile \/ ImportTableInPlace
        PROVE  /\ at = out.import_rva /\ count = DescriptorLimit
               /\ \A e \in 0..j : There(e)'
    <3>1. at = out.import_rva /\ count = DescriptorLimit /\ \A e \in 0..j - 1 : There(e)
      BY <1>0, <1>1, <2>1 DEF PlaceInv, Importing
    <3>2. \A e \in 0..j : There(e)
      BY <1>2, <1>4, <2>1, <3>1
    <3> QED BY <1>1, <3>1, <3>2, FixedTable
  <2>2. exports' = <<>> /\ size' <= WordMax
    BY <1>1, <1>3 DEF PlaceInv, Importing
  <2>3. (SameInFile \/ ImportTableInPlace)' =>
          /\ at' = out'.import_rva /\ count' = DescriptorLimit' /\ i' <= count'
          /\ \A e \in 0..i' - 1 : There(e)'
    BY <1>0, <1>1, <1>2, <1>3, <1>5, <2>1
  <2>4. pc' \notin BeforeImports /\ pc' \notin {"dos", "nt", "optional"}
    BY <1>5 DEF Importing, BeforeImports
  <2> QED BY <1>5, <2>2, <2>3, <2>4 DEF PlaceInv
<1>8. ReportedImports' = ReportedImports /\ ReportedExports' = ReportedExports
  <2>1. CASE imports' = imports
    BY <1>1, <2>1, ReportsKept
  <2>2. CASE Empty
    <3>1. PICK name \in found : imports' = Append(imports, entry(name))
      BY <2>2
    <3>2. ReportedImports \subseteq ReportedImports' /\ \A x \in ReportedImports' : x \in ReportedImports
      BY <1>7, <3>1, OneMoreImport
    <3> QED BY <1>1, <3>2, ReportsKept
  <2> QED BY <1>1, <2>1, <2>2
\* Where the table is in place, the name of a descriptor is found if it is in place.
<1>9. ASSUME ImportTableInPlace, DllName(j) # <<>> PROVE found = {DllName(j)}
  <2>1. d = D(j) /\ D(j).Name \in Words /\ D(j).Name + 0 = D(j).Name
    BY <1>2, <1>4, <1>9, DescriptorTyped
  <2> QED BY <1>9, <2>1, TextInPlace DEF DllName
<1>10. CompleteInv'
  <2> SUFFICES ASSUME ImportTableInPlace
               PROVE  /\ \A e \in 0..j : pc' = "descriptors" \/ e # j => Complete(e)'
                      /\ pc' = "thunks" => AtWorkComplete(j)'
    BY <1>2, <1>3, <1>5 DEF CompleteInv, Importing
  <2>1. \A e \in 0..j - 1 : Complete(e)'
    BY <1>0, <1>1, <1>8, CompleteKept DEF CompleteInv, Importing
  <2>2. rva = RvaOf(j) /\ rva \in Words /\ rva \in Nat
    BY <1>2, <1>4, DescriptorTyped
  <2>3. CASE PassedOver
    <3>1. DllName(j) = <<>>
      BY <1>9, <2>3
    <3>2. Complete(j)
      BY <3>1 DEF Complete
    <3>3. Complete(j)'
      BY <1>1, <1>8, <3>2, CompleteKept
    <3> QED BY <1>1, <1>2, <2>1, <2>3, <3>3
  <2>4. CASE Empty
    <3>1. RvaOf(j) # 0 => NamesOf(j) = {}
      BY <1>2, <2>2, <2>4, InPlace, NoThunks
    <3>2. Complete(j)
      BY <3>1 DEF Complete
    <3>3. Complete(j)'
      BY <1>1, <1>8, <3>2, CompleteKept
    <3> QED BY <1>1, <1>2, <2>1, <2>4, <3>3
  <2>5. CASE Begun
    <3>1. PICK name \in found, k \in First(Layouts(rva)) : dll' = [entry(name) EXCEPT !.layout = k]
      BY <2>5
    <3>2. dll'.name = name /\ dll'.rva = rva /\ dll'.names = {} /\ dll'.n = 0 /\ dll'.layout = k
      BY <1>7, <3>1
    <3>3. DllName(j) # <<>> => dll'.name = DllName(j) /\ dll'.rva = RvaOf(j)
      BY <1>9, <2>2, <3>2
    <3>4. rva < size => ReadInPlace(j)'
      <4>1. rva < size => k = 0
        BY <2>2, <3>1, InPlace
      <4> QED BY <3>2, <4>1, Constants DEF ReadInPlace
    <3>5. ~(rva < size) => NamesOf(j) \subseteq {<<>>}
      BY <1>2, <2>2, NoThunks
    <3>6. AtWorkComplete(j)'
      BY <1>1, <3>3, <3>4, <3>5, FixedNames, FixedTable, Zenon DEF AtWorkComplete
    <3>7. pc' # "descriptors"
      BY <2>5
    <3> QED BY <1>2, <2>1, <3>6, <3>7
  <2> QED BY <1>1, <2>3, <2>4, <2>5
<1>11. SoundInv'
  <2> SUFFICES ASSUME SameInFile
               PROVE  /\ ReportedImports' \subseteq LoadedImports'
                      /\ pc' = "thunks" => AtWorkSound(j)'
    BY <1>2, <1>3, <1>5 DEF SoundInv
  <2>1. ReportedImports' \subseteq LoadedImports'
    BY <1>1, <1>8, FixedLoaded DEF SoundInv
  <2>2. CASE Begun
    <3>1. PICK name \in found, k \in First(Layouts(rva)) : dll' = [entry(name) EXCEPT !.layout = k]
      BY <2>2
    <3>2. dll'.name = name /\ dll'.rva = rva /\ dll'.names = {} /\ dll'.n = 0
      BY <1>7, <3>1
    <3>3. name = DllName(j) /\ DllName(j) # <<>>
      <4>1. d = D(j) /\ D(j).Name \in Words /\ D(j).Name + 0 = D(j).Name
        BY <1>2, <1>4, DescriptorTyped
      <4> QED BY <3>1, <4>1, OneText DEF DllName
    <3>4. rva = RvaOf(j) /\ rva # 0
      BY <1>4, <2>2
    <3>5. dll'.n <= MaxThunks /\ \A m \in 0..dll'.n - 1 : FALSE
      BY <3>2, Constants
    <3> QED BY <1>1, <2>1, <3>2, <3>3, <3>4, <3>5, FixedNames, FixedTable DEF AtWorkSound
  <2>3. CASE pc' # "thunks"
    BY <2>1, <2>3
  <2> QED BY <1>1, <2>2, <2>3
<1>12. ExportInv'
  BY <1>1, <1>3, <1>8, <1>5, FixedLoaded DEF ExportInv, Importing
<1> QED BY <1>6, <1>10, <1>11, <1>12

(***************************************************************************)
(* The end of the descriptors.                                             *)
(***************************************************************************)
LEMMA ImportsEndTables ==
  ASSUME TypeOK, PlaceInv, CompleteInv, SoundInv, ExportInv, ImportsEnd
  PROVE  PlaceInv' /\ CompleteInv' /\ SoundInv' /\ ExportInv'
<1>1. /\ pc = "descriptors" /\ pc' = "exports" /\ ~DescriptorDue /\ Fixed
      /\ imports' = imports /\ exports' = exports
  BY Zenon DEF ImportsEnd, Goto, Fixed
<1>2. ReportedImports' = ReportedImports /\ ReportedExports' = ReportedExports
      /\ ImportTableInPlace' = ImportTableInPlace /\ SameInFile' = SameInFile
      /\ LoadedImports' = LoadedImports /\ LoadedExports' = LoadedExports
  BY <1>1, ReportsKept, FixedPlace, FixedLoaded
<1>3. ASSUME ImportTableInPlace PROVE LoadedImports \subseteq ReportedImports
  <2>1. at = out.import_rva /\ count = DescriptorLimit
    BY <1>1, <1>3 DEF PlaceInv, Importing
  <2>2. \A e \in 0..i - 1 : Complete(e)
    BY <1>1, <1>3 DEF CompleteInv, Importing
  <2>3. ~(i < DescriptorLimit) \/ ~There(i)
    BY <1>1, <2>1 DEF DescriptorDue, DescriptorOffset, There
  <2> SUFFICES ASSUME NEW x \in LoadedImports PROVE x \in ReportedImports
    BY Zenon
  <2>4. PICK e \in 0..DescriptorLimit - 1 :
          /\ \A f \in 0..e : There(f)
          /\ DllName(e) # <<>> /\ RvaOf(e) # 0
          /\ \E name \in NamesOf(e) \ {<<>>} : x = <<DllName(e), name>>
    BY ImportsByNumber
  <2>5. i \in Nat /\ DescriptorLimit \in Nat
    BY <2>1 DEF TypeOK
  <2>6. e \in 0..i - 1
    <3>1. SUFFICES ASSUME i <= e PROVE FALSE
      BY <2>5
    <3>2. i < DescriptorLimit /\ i \in 0..e
      BY <2>5, <3>1
    <3> QED BY <2>3, <2>4, <3>2
  <2> QED BY <2>2, <2>4, <2>6 DEF Complete
<1>4. CompleteInv'
  BY <1>1, <1>2, <1>3 DEF CompleteInv, Importing
<1>5. SoundInv'
  BY <1>1, <1>2 DEF SoundInv
<1>6. PlaceInv' /\ ExportInv'
  <2>1. exports = <<>> /\ size <= WordMax /\ size' = size
    BY <1>1 DEF PlaceInv, Importing, Fixed, size
  <2>2. PlaceInv'
    BY <1>1, <2>1 DEF PlaceInv, Importing, BeforeImports
  <2> QED BY <1>1, <1>2, <2>2 DEF ExportInv
<1> QED BY <1>4, <1>5, <1>6

(***************************************************************************)
(* The thunks of one dll.                                                  *)
(***************************************************************************)
LEMMA SameThunk ==
  ASSUME TypeOK, NEW e \in Nat, dll.rva = RvaOf(e), dll.layout = 0 \/ SameInFile
  PROVE  /\ ThunkOffset = ThunkOf(e, dll.n) /\ ThunkOffset \in Nat /\ dll.n \in Nat
         /\ ThunkDue <=> dll.n < MaxThunks /\ ThunkThere(e, dll.n)
<1>1. dll.rva \in Words /\ dll.layout \in 0..Len(sections) /\ dll.n \in Nat
  BY LenProperties DEF TypeOK, Import
<1>2. RvaOffset(dll.rva, dll.layout) = RvaOf(e)
  BY <1>1, InPlace, OneOffset
<1>3. ThunkOffset = ThunkOf(e, dll.n)
  BY <1>2 DEF ThunkOffset, ThunkOf
<1>4. ThunkOffset \in Nat
  <2>1. RvaOf(e) \in Nat /\ ThunkOffset = RvaOf(e) + dll.n * ThunkSize
    BY <1>3, DescriptorTyped DEF ThunkOf
  <2>2. CASE ThunkSize = 1
    BY <1>1, <2>1, <2>2
  <2>3. CASE ThunkSize = 2
    BY <1>1, <2>1, <2>3
  <2> QED BY <2>2, <2>3, ThunkWidth
<1> QED BY <1>1, <1>3, <1>4 DEF ThunkDue, ThunkThere

\* A layout that was read to its end in place has given all names.
LEMMA AllRead ==
  ASSUME TypeOK, NEW e \in Nat, dll.rva = RvaOf(e), ReadInPlace(e), ~ThunkDue
  PROVE  NamesOf(e) \ {<<>>} \subseteq dll.names
<1> SUFFICES ASSUME NEW name \in NamesOf(e), name # <<>> PROVE name \in dll.names
  BY Zenon
<1>1. PICK n \in 0..MaxThunks - 1 :
        (\A m \in 0..n : ThunkThere(e, m)) /\ ByName(e, n) /\ name = NameOf(e, n)
  BY NamesByNumber
<1>2. dll.n \in Nat /\ (ThunkDue <=> dll.n < MaxThunks /\ ThunkThere(e, dll.n))
  BY SameThunk DEF ReadInPlace
<1>3. n < dll.n
  <2>1. SUFFICES ASSUME dll.n <= n PROVE FALSE
    BY <1>2
  <2>2. dll.n \in 0..n /\ dll.n < MaxThunks
    BY <1>2, <2>1, Constants
  <2> QED BY <1>1, <1>2, <2>2
<1>4. n \in 0..dll.n - 1
  BY <1>2, <1>3
<1> QED BY <1>1, <1>4 DEF ReadInPlace

LEMMA ReadThunkTables ==
  ASSUME TypeOK, PlaceInv, CompleteInv, SoundInv, ExportInv, ReadThunk
  PROVE  PlaceInv' /\ CompleteInv' /\ SoundInv' /\ ExportInv'
<1> DEFINE rva == At(ThunkOffset)
           ordinal == ThunkIsOrdinal(ThunkOffset)
<1>1. /\ pc = "thunks" /\ pc' = pc /\ ThunkDue /\ Fixed
      /\ imports' = imports /\ exports' = exports /\ i' = i /\ at' = at /\ count' = count
      /\ dll' = [dll EXCEPT
               !.n = @ + 1,
               !.ordinals = IF ordinal THEN @ + 1 ELSE @,
               !.names = IF ordinal THEN @ ELSE @ \cup ReadCStringRva(rva, HintSize)]
  BY Zenon DEF ReadThunk, Fixed
<1>2. /\ dll'.name = dll.name /\ dll'.rva = dll.rva /\ dll'.layout = dll.layout
      /\ dll'.n = dll.n + 1 /\ dll.n \in Nat /\ dll.n < MaxThunks
      /\ dll'.names = IF ordinal THEN dll.names ELSE dll.names \cup ReadCStringRva(rva, HintSize)
  BY <1>1 DEF TypeOK, Import, ThunkDue
<1> HIDE DEF rva, ordinal
<1>0. PICK j : j = i - 1
  OBVIOUS
<1>3. i \in Nat /\ j \in Nat /\ i = j + 1 /\ \A e \in 0..i - 1 : e = i - 1 <=> e = j
  BY <1>0, <1>1 DEF PlaceInv, TypeOK
<1>4. /\ ReportedImports' = ReportedImports /\ ReportedExports' = ReportedExports
      /\ ImportTableInPlace' = ImportTableInPlace /\ SameInFile' = SameInFile
      /\ LoadedImports' = LoadedImports /\ LoadedExports' = LoadedExports
  BY <1>1, ReportsKept, FixedPlace, FixedLoaded
<1>5. PlaceInv'
  <2>1. /\ size' = size /\ out' = out /\ DescriptorLimit' = DescriptorLimit
        /\ \A e \in 0..i - 1 : There(e)' = There(e)
    BY <1>1, FixedTable DEF Fixed, size
  <2>2. \A e \in 0..i' - 1 : There(e)' = There(e)
    BY <1>1, <2>1
  <2> QED BY <1>1, <1>4, <2>1, <2>2 DEF PlaceInv, BeforeImports, Importing
\* The name of this thunk, if it is at its rva.
<1>6. SignBit \in Int /\ rva \in Words /\ rva \in Nat
  <2>1. WordMax + 1 \in Nat
    BY Constants
  <2>2. SignBit \in Int
    BY <2>1 DEF SignBit
  <2>3. rva \in Words
    BY AtWord DEF rva
  <2> QED BY <2>2, <2>3, Constants
<1>7. ASSUME dll.rva = RvaOf(j), dll.layout = 0 \/ SameInFile
      PROVE  /\ ThunkThere(j, dll.n)
             /\ ordinal <=> ~ByName(j, dll.n)
             /\ NameOf(j, dll.n) = ReadCStringAt(rva + HintSize)
  <2>1. ThunkOffset = ThunkOf(j, dll.n) /\ ThunkOffset \in Nat /\ ThunkThere(j, dll.n)
    BY <1>1, <1>3, <1>7, SameThunk
  <2>2. At(ThunkOffset + ThunkSize - 1) \in Nat
    BY AtWord, Constants
  <2>3. ordinal <=> ~ByName(j, dll.n)
    BY <1>6, <2>1, <2>2 DEF ordinal, ThunkIsOrdinal, ByName
  <2> QED BY <2>1, <2>3 DEF NameOf, rva
<1>8. CompleteInv'
  <2> SUFFICES ASSUME ImportTableInPlace
               PROVE  /\ \A e \in 0..i - 1 : e # j => Complete(e)'
                      /\ AtWorkComplete(j)'
    BY <1>1, <1>3, <1>4 DEF CompleteInv, Importing
  <2>1. \A e \in 0..i - 1 : e # j => Complete(e)
    BY <1>1, <1>3 DEF CompleteInv, Importing
  <2>2. \A e \in 0..i - 1 : e # j => Complete(e)'
    BY <1>1, <1>4, <2>1, CompleteKept
  <2>3. AtWorkComplete(j)
    BY <1>1, <1>3 DEF CompleteInv
  <2>4. ASSUME DllName(j) # <<>>, ReadInPlace(j) PROVE ReadInPlace(j)'
    <3>1. dll.rva = RvaOf(j) /\ dll.layout = 0
      BY <2>3, <2>4 DEF AtWorkComplete, ReadInPlace
    <3>2. ~ordinal /\ NameOf(j, dll.n) # <<>> => NameOf(j, dll.n) \in dll'.names
      <4>1. ASSUME ~ordinal, NameOf(j, dll.n) # <<>>
            PROVE  ReadCStringRva(rva, HintSize) = {NameOf(j, dll.n)}
        BY <1>6, <1>7, <3>1, <4>1, TextInPlace DEF HintSize
      <4> QED BY <1>2, <4>1
    <3>3. dll.names \subseteq dll'.names
      BY <1>2
    <3>4. \A n \in 0..dll.n : ByName(j, n) /\ NameOf(j, n) # <<>> => NameOf(j, n) \in dll'.names
      <4>1. \A n \in 0..dll.n - 1 : ByName(j, n) /\ NameOf(j, n) # <<>> => NameOf(j, n) \in dll.names
        BY <2>4 DEF ReadInPlace
      <4>2. ByName(j, dll.n) /\ NameOf(j, dll.n) # <<>> => NameOf(j, dll.n) \in dll'.names
        BY <1>7, <3>1, <3>2
      <4>3. \A n \in 0..dll.n : n \in 0..dll.n - 1 \/ n = dll.n
        BY <1>2
      <4> QED BY <3>3, <4>1, <4>2, <4>3, Zenon
    <3>5. dll'.n - 1 = dll.n /\ dll'.n <= MaxThunks /\ dll'.layout = 0
      BY <1>2, <3>1, Constants
    <3> QED BY <1>1, <3>4, <3>5, FixedThunks DEF ReadInPlace
  <2>5. AtWorkComplete(j)'
    <3>1. /\ DllName(j)' = DllName(j) /\ RvaOf(j)' = RvaOf(j) /\ NamesOf(j)' = NamesOf(j)
      BY <1>1, FixedNames, FixedTable
    <3> QED BY <1>2, <2>3, <2>4, <3>1 DEF AtWorkComplete
  <2> QED BY <2>2, <2>5
<1>9. SoundInv'
  <2> SUFFICES ASSUME SameInFile PROVE ReportedImports \subseteq LoadedImports /\ AtWorkSound(j)'
    BY <1>1, <1>3, <1>4 DEF SoundInv
  <2>1. ReportedImports \subseteq LoadedImports /\ AtWorkSound(j)
    BY <1>1, <1>3 DEF SoundInv
  <2>2. \A m \in 0..dll.n : ThunkThere(j, m)
    <3>1. \A m \in 0..dll.n : m \in 0..dll.n - 1 \/ m = dll.n
      BY <1>2
    <3> QED BY <1>7, <2>1, <3>1, Zenon DEF AtWorkSound
  <2>3. dll'.names \subseteq NamesOf(j) \ {<<>>}
    <3>1. CASE ordinal
      BY <1>2, <2>1, <3>1 DEF AtWorkSound
    <3>2. CASE ~ordinal
      <4>1. \A text \in ReadCStringRva(rva, HintSize) : text = NameOf(j, dll.n) /\ text # <<>>
        <5>1. NameOf(j, dll.n) = ReadCStringAt(rva + HintSize)
          BY <1>7, <2>1 DEF AtWorkSound
        <5>2. HintSize \in Nat
          BY DEF HintSize
        <5> QED BY <1>6, <5>1, <5>2, OneText
      <4>2. ByName(j, dll.n) /\ dll.n \in 0..MaxThunks - 1
        BY <1>2, <1>7, <2>1, <3>2, Constants DEF AtWorkSound
      <4>3. NameOf(j, dll.n) \in NamesOf(j)
        BY <2>2, <4>2, NamesByNumber
      <4> QED BY <1>2, <2>1, <3>2, <4>1, <4>3 DEF AtWorkSound
    <3> QED BY <3>1, <3>2
  <2>4. dll'.n - 1 = dll.n /\ dll'.n <= MaxThunks
    BY <1>2, Constants
  <2>5. DllName(j)' = DllName(j) /\ RvaOf(j)' = RvaOf(j) /\ NamesOf(j)' = NamesOf(j)
    BY <1>1, FixedNames, FixedTable
  <2>6. \A m \in 0..dll'.n - 1 : ThunkThere(j, m)'
    BY <1>1, <2>2, <2>4, FixedThunks
  <2> QED BY <1>2, <2>1, <2>3, <2>4, <2>5, <2>6 DEF AtWorkSound
<1>10. ExportInv'
  BY <1>1, <1>4 DEF ExportInv
<1> QED BY <1>5, <1>8, <1>9, <1>10

LEMMA ThunksEndTables ==
  ASSUME TypeOK, PlaceInv, CompleteInv, SoundInv, ExportInv, ThunksEnd
  PROVE  PlaceInv' /\ CompleteInv' /\ SoundInv' /\ ExportInv'
<1> DEFINE Again == /\ dll.names = {}
                    /\ \E k \in First(LaterLayouts) : dll' = [dll EXCEPT !.layout = k, !.n = 0]
                    /\ pc' = pc /\ imports' = imports
           Kept == pc' = "descriptors" /\ imports' = Append(imports, dll)
<1>1. /\ pc = "thunks" /\ ~ThunkDue /\ Fixed /\ exports' = exports
      /\ i' = i /\ at' = at /\ count' = count
  BY Zenon DEF ThunksEnd, Fixed
<1>13. Again \/ Kept
  BY Zenon DEF ThunksEnd
<1>2. Again => /\ dll'.name = dll.name /\ dll'.rva = dll.rva /\ dll'.n = 0 /\ dll'.names = {}
               /\ pc' = "thunks" /\ imports' = imports /\ dll.names = {}
  BY <1>1 DEF TypeOK, Import
<1>12. Kept => pc' = "descriptors" /\ imports' = Append(imports, dll)
  OBVIOUS
<1> HIDE DEF Again, Kept
<1>0. PICK j : j = i - 1
  OBVIOUS
<1>3. i \in Nat /\ j \in Nat /\ i = j + 1 /\ \A e \in 0..i - 1 : e = i - 1 <=> e = j
  BY <1>0, <1>1 DEF PlaceInv, TypeOK
<1>4. /\ ReportedExports' = ReportedExports /\ LoadedExports' = LoadedExports
      /\ ImportTableInPlace' = ImportTableInPlace /\ SameInFile' = SameInFile
      /\ LoadedImports' = LoadedImports
  BY <1>1, ReportsKept, FixedPlace, FixedLoaded
<1>5. ReportedImports \subseteq ReportedImports' /\ (Again => ReportedImports' = ReportedImports)
  BY <1>2, <1>12, <1>13, ReportsKept, OneMoreImport
<1>6. pc' \in Importing /\ pc' \in {"descriptors", "thunks"}
  BY <1>2, <1>12, <1>13 DEF Importing
<1>7. PlaceInv'
  <2>1. /\ size' = size /\ out' = out /\ DescriptorLimit' = DescriptorLimit
        /\ \A e \in 0..i - 1 : There(e)' = There(e)
    BY <1>1, FixedTable DEF Fixed, size
  <2>2. \A e \in 0..i' - 1 : There(e)' = There(e)
    BY <1>1, <2>1
  <2> QED BY <1>1, <1>4, <1>6, <2>1, <2>2 DEF PlaceInv, BeforeImports, Importing
<1>8. DllName(j)' = DllName(j) /\ RvaOf(j)' = RvaOf(j) /\ NamesOf(j)' = NamesOf(j)
  BY <1>1, FixedNames, FixedTable
<1>9. CompleteInv'
  <2> SUFFICES ASSUME ImportTableInPlace
               PROVE  /\ \A e \in 0..i - 1 : pc' = "descriptors" \/ e # j => Complete(e)'
                      /\ pc' = "thunks" => AtWorkComplete(j)'
    BY <1>1, <1>3, <1>4, <1>6 DEF CompleteInv, Importing
  <2>1. \A e \in 0..i - 1 : e # j => Complete(e)
    BY <1>1, <1>3 DEF CompleteInv, Importing
  <2>2. \A e \in 0..i - 1 : e # j => Complete(e)'
    BY <1>1, <1>5, <2>1, CompleteKept
  <2>3. AtWorkComplete(j)
    BY <1>1, <1>3 DEF CompleteInv
  <2>4. DllName(j) # <<>> =>
          /\ dll.name = DllName(j) /\ dll.rva = RvaOf(j)
          /\ NamesOf(j) \ {<<>>} \subseteq dll.names \/ NamesOf(j) \subseteq {<<>>}
    BY <1>1, <1>3, <2>3, AllRead DEF AtWorkComplete
  <2>5. CASE Again
    <3>1. DllName(j) # <<>> => NamesOf(j) \subseteq {<<>>}
      BY <1>2, <2>4, <2>5
    <3>2. AtWorkComplete(j)'
      BY <1>2, <1>8, <2>4, <2>5, <3>1 DEF AtWorkComplete
    <3> QED BY <1>2, <2>2, <2>5, <3>2
  <2>6. CASE Kept
    <3>1. \A name \in dll.names : <<dll.name, name>> \in ReportedImports'
      BY <1>12, <2>6, OneMoreImport
    <3>2. ASSUME DllName(j) # <<>>
          PROVE  \A name \in NamesOf(j) \ {<<>>} : <<DllName(j), name>> \in ReportedImports'
      BY <2>4, <3>1, <3>2
    <3>3. Complete(j)'
      BY <1>8, <3>2, Zenon DEF Complete
    <3>4. pc' # "thunks"
      BY <1>12, <2>6
    <3> QED BY <2>2, <3>3, <3>4
  <2> QED BY <1>13, <2>5, <2>6, Zenon
<1>10. SoundInv'
  <2> SUFFICES ASSUME SameInFile
               PROVE  /\ ReportedImports' \subseteq LoadedImports
                      /\ pc' = "thunks" => AtWorkSound(j)'
    BY <1>1, <1>3, <1>4 DEF SoundInv
  <2>1. ReportedImports \subseteq LoadedImports /\ AtWorkSound(j)
    BY <1>1, <1>3 DEF SoundInv
  <2>2. CASE Again
    <3>1. ReportedImports' \subseteq LoadedImports
      BY <1>5, <2>1, <2>2
    <3>2. dll'.n <= MaxThunks /\ \A m \in 0..dll'.n - 1 : FALSE
      BY <1>2, <2>2, Constants
    <3>3. AtWorkSound(j)'
      BY <1>2, <1>8, <2>1, <2>2, <3>2 DEF AtWorkSound
    <3> QED BY <3>1, <3>3
  <2>3. CASE Kept
    <3>1. i <= DescriptorLimit /\ \A e \in 0..i - 1 : There(e)
      BY <1>1 DEF PlaceInv, Importing
    <3>2. DescriptorLimit \in Nat
      BY <1>1 DEF PlaceInv, Importing, TypeOK
    <3>3. j \in 0..DescriptorLimit - 1 /\ \A f \in 0..j : There(f)
      BY <1>3, <3>1, <3>2
    <3>4. \A name \in dll.names : <<dll.name, name>> \in LoadedImports
      <4> TAKE name \in dll.names
      <4>1. /\ name \in NamesOf(j) \ {<<>>} /\ dll.name = DllName(j)
            /\ DllName(j) # <<>> /\ RvaOf(j) # 0
        BY <2>1 DEF AtWorkSound
      <4> QED BY <3>3, <4>1, ImportsByNumber
    <3>5. ReportedImports' \subseteq LoadedImports
      <4> SUFFICES ASSUME NEW x \in ReportedImports' PROVE x \in LoadedImports
        BY Zenon
      <4>1. x \in ReportedImports \/ \E name \in dll.names : x = <<dll.name, name>>
        BY <1>12, <2>3, OneMoreImport
      <4> QED BY <2>1, <3>4, <4>1
    <3>6. pc' # "thunks"
      BY <1>12, <2>3
    <3> QED BY <3>5, <3>6
  <2> QED BY <1>13, <2>2, <2>3, Zenon
<1>11. ExportInv'
  BY <1>1, <1>4, <1>6 DEF ExportInv
<1> QED BY <1>7, <1>9, <1>10, <1>11

(***************************************************************************)
(* The export table.                                                       *)
(***************************************************************************)
LEMMA ExportRva ==
  ASSUME TypeOK
  PROVE  /\ out.export_rva \in Words /\ out.export_rva \in Nat /\ out.export_size \in Nat
         /\ At(out.export_rva) \in Nat /\ At(out.export_rva + 1) \in Words
         /\ At(out.export_rva + 1) \in Nat
  BY AtWord, Constants DEF TypeOK, Headers

LEMMA DirectoryAtItsRva ==
  ASSUME TypeOK
  PROVE  /\ ExportTableInPlace => First(DirectoryLayouts) = {0} /\ DirectoryLayouts # {}
         /\ SameInFile \/ ExportTableInPlace =>
              \A k \in First(DirectoryLayouts) : RvaOffset(out.export_rva, k) = out.export_rva
<1>1. DirectoryLayouts \in SUBSET Nat /\ DirectoryLayouts \subseteq 0..Len(sections)
  BY ExportRva, LayoutsTyped DEF DirectoryLayouts
<1>2. ASSUME ExportTableInPlace PROVE First(DirectoryLayouts) = {0} /\ DirectoryLayouts # {}
  <2>1. out.export_rva < size
    BY <1>2, ExportRva, SizeNat DEF ExportTableInPlace, Fits, ExportSize
  <2>2. 0 \in DirectoryLayouts
    BY <1>2, <2>1, ExportRva, InPlace DEF DirectoryLayouts, ExportTableInPlace
  <2> QED BY <1>1, <2>2, FirstIsZero
<1>3. ASSUME SameInFile
      PROVE  \A k \in First(DirectoryLayouts) : RvaOffset(out.export_rva, k) = out.export_rva
  BY <1>1, <1>3, ExportRva, OneOffset DEF First
<1> QED BY <1>2, <1>3, ExportRva, InPlace

\* The imports do not change any more.
LEMMA ImportsStay ==
  ASSUME CompleteInv, SoundInv, Fixed, imports' = imports,
         pc \in {"exports", "names"}, pc' \in {"names", "done"}
  PROVE  CompleteInv' /\ SoundInv'
<1>1. /\ ReportedImports' = ReportedImports /\ LoadedImports' = LoadedImports
      /\ ImportTableInPlace' = ImportTableInPlace /\ SameInFile' = SameInFile
  BY ReportsKept, FixedPlace, FixedLoaded
<1>2. CompleteInv'
  BY <1>1 DEF CompleteInv, Importing
<1> QED BY <1>1, <1>2 DEF SoundInv

LEMMA FindExports ==
  ASSUME TypeOK, PlaceInv, CompleteInv, SoundInv, ExportInv, FindExportDirectory
  PROVE  PlaceInv' /\ CompleteInv' /\ SoundInv' /\ ExportInv'
<1> DEFINE off(k) == RvaOffset(out.export_rva, k)
<1>1. /\ pc = "exports" /\ Fixed /\ imports' = imports /\ exports' = exports
      /\ \/ /\ pc' = "done"
            /\ out.export_rva = 0 \/ out.export_size < ExportSize \/ DirectoryLayouts = {}
         \/ /\ pc' = "names" /\ i' = 0
            /\ \E k \in First(DirectoryLayouts) :
                 at' = At(off(k) + 1) /\ count' = Smaller(At(off(k)), MaxExports)
  BY Zenon DEF FindExportDirectory, Fixed
<1>2. CompleteInv' /\ SoundInv'
  BY <1>1, ImportsStay
<1>3. /\ ReportedExports' = {} /\ size' = size /\ size <= WordMax
      /\ ExportTableInPlace' = ExportTableInPlace /\ SameInFile' = SameInFile
      /\ At(out.export_rva)' = At(out.export_rva)
      /\ At(out.export_rva + 1)' = At(out.export_rva + 1)
  <2>1. exports = <<>> /\ size <= WordMax
    BY <1>1 DEF PlaceInv
  <2>2. size' = size
    BY <1>1 DEF Fixed, size
  <2> QED BY <1>1, <2>1, <2>2, NothingYet, ReportsKept, FixedPlace, FixedSlots
<1>4. PlaceInv'
  BY <1>1, <1>3 DEF PlaceInv, BeforeImports, Importing
<1>5. ExportTableInPlace => pc' = "names"
  BY <1>1, ExportRva, DirectoryAtItsRva DEF ExportTableInPlace, ExportSize
<1>6. (SameInFile \/ ExportTableInPlace) /\ pc' = "names" =>
        at' = At(out.export_rva + 1) /\ count' = Smaller(At(out.export_rva), MaxExports)
  BY <1>1, DirectoryAtItsRva
<1>7. pc' = "names" => i' = 0 /\ count' \in Nat
  <2>1. \A k : At(off(k)) \in Nat
    BY AtWord, Constants
  <2> QED BY <1>1, <2>1, SmallerNat, Constants
<1>8. ExportInv'
  BY <1>1, <1>3, <1>5, <1>6, <1>7 DEF ExportInv
<1> QED BY <1>2, <1>4, <1>8

\* A slot that is in the buffer is read at its rva: the sum that gives it does not wrap.
LEMMA SlotAtItsRva ==
  ASSUME TypeOK, PlaceInv, NEW e \in Nat, e = i, at = At(out.export_rva + 1), Fits(Slot(e), 1)
  PROVE  /\ SlotRva = Slot(e) /\ SlotLayouts # {}
         /\ \A k \in First(SlotLayouts) : RvaOffset(SlotRva, k) = Slot(e)
<1>1. Slot(e) \in Nat /\ Slot(e) = at + i
  BY ExportRva DEF Slot
<1>2. size \in Nat /\ size <= WordMax /\ WordMax \in Nat
  BY SizeNat, Constants DEF PlaceInv
<1>3. Slot(e) < size
  BY <1>1, <1>2 DEF Fits
<1>4. SlotRva = Slot(e)
  <2>1. Slot(e) % (WordMax + 1) = Slot(e)
    BY <1>1, <1>2, <1>3
  <2> QED BY <1>1, <2>1 DEF SlotRva
<1>5. Slot(e) \in Words
  BY <1>1, <1>2, <1>3 DEF Words
<1>6. 0 \in SlotLayouts
  BY <1>3, <1>4, <1>5, InPlace DEF SlotLayouts
<1>7. SlotLayouts \in SUBSET Nat
  BY LayoutsTyped DEF SlotLayouts
<1>8. First(SlotLayouts) = {0}
  BY <1>6, <1>7, FirstIsZero
<1> QED BY <1>4, <1>5, <1>6, <1>8, InPlace

\* Where file and image have one layout, a slot that is found is in the buffer: the one
\* before it was, so that the sum does not wrap.
LEMMA SlotIsThere ==
  ASSUME TypeOK, PlaceInv, SameInFile, SlotDue, NEW e \in Nat, e = i,
         at = At(out.export_rva + 1), \A f \in 0..e - 1 : Fits(Slot(f), 1)
  PROVE  Fits(Slot(e), 1)
<1>1. at \in Nat /\ at <= WordMax /\ Slot(e) = at + e
  BY ExportRva, Constants DEF Slot, Words
<1>2. size \in Nat /\ size <= WordMax /\ WordMax \in Nat
  BY SizeNat, Constants DEF PlaceInv
<1>3. at + e <= WordMax
  <2>1. CASE e = 0
    BY <1>1, <2>1
  <2>2. CASE e # 0
    <3>1. e - 1 \in 0..e - 1
      BY <2>2
    <3>2. at + (e - 1) + 1 <= size
      BY <1>1, <3>1 DEF Fits, Slot
    <3> QED BY <1>1, <1>2, <3>2
  <2> QED BY <2>1, <2>2
<1>4. SlotRva = at + e /\ SlotRva \in Words
  <2>1. (at + e) % (WordMax + 1) = at + e
    BY <1>1, <1>2, <1>3
  <2> QED BY <1>1, <1>2, <1>3, <2>1 DEF SlotRva, Words
<1>5. PICK k \in SlotLayouts : k \in 0..Len(sections) /\ Fits(RvaOffset(SlotRva, k), 1)
  BY <1>4, LayoutsTyped DEF SlotDue, SlotLayouts
<1> QED BY <1>1, <1>4, <1>5, OneOffset

LEMMA ReadExportTables ==
  ASSUME TypeOK, PlaceInv, CompleteInv, SoundInv, ExportInv, ReadExport
  PROVE  PlaceInv' /\ CompleteInv' /\ SoundInv' /\ ExportInv'
<1> DEFINE off(k) == RvaOffset(SlotRva, k)
           found(k) == ReadCStringRva(At(off(k)), 0)
<1>1. /\ pc = "names" /\ pc' = pc /\ SlotDue /\ i' = i + 1 /\ Fixed
      /\ at' = at /\ count' = count /\ imports' = imports
      /\ \E k \in First(SlotLayouts) :
           \/ found(k) = {} /\ exports' = exports
           \/ \E name \in found(k) : exports' = Append(exports, name)
  BY Zenon DEF ReadExport, Fixed
<1>0. PICK j : j = i
  OBVIOUS
<1>2. i \in Nat /\ j \in Nat /\ i' - 1 = j /\ count \in Nat /\ i < count
  BY <1>0, <1>1 DEF TypeOK, SlotDue
<1>3. CompleteInv' /\ SoundInv'
  BY <1>1, ImportsStay
<1>4. /\ ExportTableInPlace' = ExportTableInPlace /\ SameInFile' = SameInFile
      /\ LoadedExports' = LoadedExports
      /\ At(out.export_rva)' = At(out.export_rva)
      /\ At(out.export_rva + 1)' = At(out.export_rva + 1)
  BY <1>1, FixedPlace, FixedLoaded, FixedSlots
<1>5. PlaceInv'
  <2>1. size' = size
    BY <1>1 DEF Fixed, size
  <2> QED BY <1>1, <2>1 DEF PlaceInv, BeforeImports, Importing
<1>6. PICK k \in First(SlotLayouts) :
        \/ found(k) = {} /\ exports' = exports
        \/ \E name \in found(k) : exports' = Append(exports, name)
  BY <1>1
<1>7. /\ ReportedExports \subseteq ReportedExports'
      /\ \A name \in found(k) : found(k) = {name} => name \in ReportedExports'
      /\ \A x \in ReportedExports' : x \in ReportedExports \/ x \in found(k)
  <2>1. CASE found(k) = {} /\ exports' = exports
    BY <2>1, ReportsKept
  <2>2. CASE \E name \in found(k) : exports' = Append(exports, name)
    BY <2>2, OneMoreExport
  <2> QED BY <1>6, <2>1, <2>2
<1>8. SameInFile \/ ExportTableInPlace =>
        at = At(out.export_rva + 1) /\ count = Smaller(At(out.export_rva), MaxExports)
  BY <1>1 DEF ExportInv
<1> HIDE DEF found
<1>9. At(Slot(j)) \in Words /\ At(Slot(j)) + 0 = At(Slot(j))
  <2>1. At(Slot(j)) \in Words /\ At(Slot(j)) \in Nat
    BY AtWord, Constants
  <2> QED BY <2>1
<1>10. ASSUME SameInFile
       PROVE  /\ ReportedExports' \subseteq LoadedExports
              /\ \A e \in 0..j : Fits(Slot(e), 1)
  <2>1. \A e \in 0..j - 1 : Fits(Slot(e), 1)
    BY <1>0, <1>1, <1>10 DEF ExportInv
  <2>2. Fits(Slot(j), 1)
    BY <1>0, <1>1, <1>2, <1>8, <1>10, <2>1, SlotIsThere
  <2>3. \A e \in 0..j : Fits(Slot(e), 1)
    <3>1. \A e \in 0..j : e \in 0..j - 1 \/ e = j
      BY <1>2
    <3> QED BY <2>1, <2>2, <3>1, Zenon
  <2>4. off(k) = Slot(j)
    BY <1>0, <1>2, <1>6, <1>8, <1>10, <2>2, SlotAtItsRva
  <2>5. \A x \in found(k) : x = SlotText(j)
    BY <1>9, <1>10, <2>4, OneText DEF found, SlotText
  <2>6. SlotText(j) \in LoadedExports
    <3>1. j \in 0..Smaller(At(out.export_rva), MaxExports) - 1
      BY <1>0, <1>2, <1>8, <1>10
    <3> QED BY <2>3, <3>1, ExportsByNumber DEF SlotsThere
  <2>7. ReportedExports \subseteq LoadedExports
    BY <1>10 DEF ExportInv
  <2> QED BY <1>7, <2>3, <2>5, <2>6, <2>7
<1>11. ASSUME ExportTableInPlace
       PROVE  \A e \in 0..j : SlotsThere(e) => SlotText(e) \in ReportedExports' \cup {<<>>}
  <2>1. \A e \in 0..j - 1 : SlotsThere(e) => SlotText(e) \in ReportedExports \cup {<<>>}
    BY <1>0, <1>1, <1>11 DEF ExportInv
  <2>2. ASSUME SlotsThere(j), SlotText(j) # <<>> PROVE SlotText(j) \in ReportedExports'
    <3>1. Fits(Slot(j), 1)
      BY <1>2, <2>2 DEF SlotsThere
    <3>2. off(k) = Slot(j)
      BY <1>0, <1>2, <1>6, <1>8, <1>11, <3>1, SlotAtItsRva
    <3>3. found(k) = {SlotText(j)}
      BY <1>9, <2>2, <3>2, TextInPlace DEF found, SlotText
    <3> QED BY <1>7, <3>3
  <2>3. \A e \in 0..j : e \in 0..j - 1 \/ e = j
    BY <1>2
  <2> QED BY <1>7, <2>1, <2>2, <2>3
<1>12. ExportInv'
  <2>1. \A e : /\ Fits(Slot(e), 1)' = Fits(Slot(e), 1)
               /\ SlotsThere(e)' = SlotsThere(e) /\ SlotText(e)' = SlotText(e)
    BY <1>1, FixedSlots
  <2>2. i' <= count'
    BY <1>1, <1>2
  <2> QED BY <1>1, <1>2, <1>4, <1>8, <1>10, <1>11, <2>1, <2>2 DEF ExportInv
<1> QED BY <1>3, <1>5, <1>12

LEMMA ExportsEndTables ==
  ASSUME TypeOK, PlaceInv, CompleteInv, SoundInv, ExportInv, ExportsEnd
  PROVE  PlaceInv' /\ CompleteInv' /\ SoundInv' /\ ExportInv'
<1>1. /\ pc = "names" /\ pc' = "done" /\ ~SlotDue /\ Fixed
      /\ imports' = imports /\ exports' = exports
  BY Zenon DEF ExportsEnd, Goto, Fixed
<1>2. CompleteInv' /\ SoundInv'
  BY <1>1, ImportsStay
<1>3. PlaceInv'
  <2>1. size' = size
    BY <1>1 DEF Fixed, size
  <2> QED BY <1>1, <2>1 DEF PlaceInv, BeforeImports, Importing
<1>4. ASSUME ExportTableInPlace PROVE LoadedExports \ {<<>>} \subseteq ReportedExports
  <2> SUFFICES ASSUME NEW x \in LoadedExports, x # <<>> PROVE x \in ReportedExports
    BY Zenon
  <2>1. PICK e \in 0..Smaller(At(out.export_rva), MaxExports) - 1 : SlotsThere(e) /\ x = SlotText(e)
    BY ExportsByNumber
  <2>2. at = At(out.export_rva + 1) /\ count = Smaller(At(out.export_rva), MaxExports)
        /\ \A f \in 0..i - 1 : SlotsThere(f) => SlotText(f) \in ReportedExports \cup {<<>>}
    BY <1>1, <1>4 DEF ExportInv
  <2>3. i \in Nat /\ count \in Nat
    BY DEF TypeOK
  <2>4. e \in 0..i - 1
    <3>1. SUFFICES ASSUME i <= e PROVE FALSE
      BY <2>2, <2>3
    <3>2. i \in 0..e /\ i < count
      BY <2>2, <2>3, <3>1
    <3>3. Fits(Slot(i), 1)
      BY <2>1, <3>2 DEF SlotsThere
    <3>4. SlotLayouts # {}
      BY <2>2, <2>3, <3>3, SlotAtItsRva
    <3> QED BY <1>1, <3>2, <3>4 DEF SlotDue
  <2> QED BY <2>1, <2>2, <2>4
<1>5. /\ ReportedExports' = ReportedExports /\ LoadedExports' = LoadedExports
      /\ ExportTableInPlace' = ExportTableInPlace /\ SameInFile' = SameInFile
  BY <1>1, ReportsKept, FixedPlace, FixedLoaded
<1>6. ExportInv'
  BY <1>1, <1>4, <1>5 DEF ExportInv
<1> QED BY <1>2, <1>3, <1>6

(***************************************************************************)
(* The two results.                                                        *)
(***************************************************************************)
LEMMA TablesStay ==
  ASSUME UNCHANGED vars, PlaceInv, CompleteInv, SoundInv, ExportInv
  PROVE  PlaceInv' /\ CompleteInv' /\ SoundInv' /\ ExportInv'
<1>1. /\ Fixed /\ pc' = pc /\ i' = i /\ at' = at /\ count' = count /\ dll' = dll
      /\ imports' = imports /\ exports' = exports
  BY DEF vars, Fixed
<1>2. /\ ReportedImports' = ReportedImports /\ ReportedExports' = ReportedExports
      /\ LoadedImports' = LoadedImports /\ LoadedExports' = LoadedExports
      /\ ImportTableInPlace' = ImportTableInPlace /\ ExportTableInPlace' = ExportTableInPlace
      /\ SameInFile' = SameInFile /\ size' = size /\ out' = out
      /\ DescriptorLimit' = DescriptorLimit
  BY <1>1, ReportsKept, FixedLoaded, FixedPlace, FixedTable DEF Fixed, size
<1>3. PlaceInv'
  <2>1. \A e : There(e)' = There(e)
    BY <1>1, FixedTable
  <2> QED BY <1>1, <1>2, <2>1 DEF PlaceInv
<1>4. CompleteInv'
  <2>1. \A e : Complete(e) => Complete(e)'
    BY <1>1, <1>2, CompleteKept
  <2>2. \A e : AtWorkComplete(e) => AtWorkComplete(e)'
    <3> TAKE e
    <3>1. DllName(e)' = DllName(e) /\ RvaOf(e)' = RvaOf(e) /\ NamesOf(e)' = NamesOf(e)
      BY <1>1, FixedNames, FixedTable
    <3>2. ReadInPlace(e) => ReadInPlace(e)'
      BY <1>1, FixedThunks DEF ReadInPlace
    <3> QED BY <1>1, <3>1, <3>2 DEF AtWorkComplete
  <2> QED BY <1>1, <1>2, <2>1, <2>2 DEF CompleteInv
<1>5. SoundInv'
  <2>1. \A e : AtWorkSound(e) => AtWorkSound(e)'
    <3> TAKE e
    <3>1. DllName(e)' = DllName(e) /\ RvaOf(e)' = RvaOf(e) /\ NamesOf(e)' = NamesOf(e)
      BY <1>1, FixedNames, FixedTable
    <3> QED BY <1>1, <3>1, FixedThunks DEF AtWorkSound
  <2> QED BY <1>1, <1>2, <2>1 DEF SoundInv
<1>6. ExportInv'
  <2>1. /\ At(out.export_rva)' = At(out.export_rva)
        /\ At(out.export_rva + 1)' = At(out.export_rva + 1)
        /\ \A e : /\ Fits(Slot(e), 1)' = Fits(Slot(e), 1)
                  /\ SlotsThere(e)' = SlotsThere(e) /\ SlotText(e)' = SlotText(e)
    BY <1>1, FixedSlots
  <2> QED BY <1>1, <1>2, <2>1 DEF ExportInv
<1> QED BY <1>3, <1>4, <1>5, <1>6

LEMMA TableStep ==
  ASSUME TypeOK, PlaceInv, CompleteInv, SoundInv, ExportInv, [Next]_vars
  PROVE  PlaceInv' /\ CompleteInv' /\ SoundInv' /\ ExportInv'
<1>1. CASE HeaderStep
  BY <1>1, HeaderTables
<1>2. CASE FindImportTable
  BY <1>2, FindTables
<1>3. CASE ReadDescriptor
  BY <1>3, ReadDescriptorTables
<1>4. CASE ImportsEnd
  BY <1>4, ImportsEndTables
<1>5. CASE ReadThunk
  BY <1>5, ReadThunkTables
<1>6. CASE ThunksEnd
  BY <1>6, ThunksEndTables
<1>7. CASE FindExportDirectory
  BY <1>7, FindExports
<1>8. CASE ReadExport
  BY <1>8, ReadExportTables
<1>9. CASE ExportsEnd
  BY <1>9, ExportsEndTables
<1>10. CASE UNCHANGED vars
  BY <1>10, TablesStay
<1> QED BY <1>1, <1>2, <1>3, <1>4, <1>5, <1>6, <1>7, <1>8, <1>9, <1>10 DEF Next, HeaderStep

LEMMA TablesFromTheStart ==
  Spec => [](TypeOK /\ PlaceInv /\ CompleteInv /\ SoundInv /\ ExportInv)
<1>1. TableInv /\ [Next]_vars => TableInv'
  <2> SUFFICES ASSUME TableInv, [Next]_vars PROVE TableInv'
    OBVIOUS
  <2> USE DEF TableInv
  <2>1. TypeOK' /\ AtWork' /\ ReadsInside'
    BY StepTyped
  <2>2. PlaceInv' /\ CompleteInv' /\ SoundInv' /\ ExportInv'
    BY TableStep
  <2> QED BY <2>1, <2>2
<1>2. Init => TableInv
  BY InitTyped, InitTables DEF TableInv
<1>3. TableInv => TypeOK /\ PlaceInv /\ CompleteInv /\ SoundInv /\ ExportInv
  BY DEF TableInv
<1> QED BY <1>1, <1>2, <1>3, PTL DEF Spec

\* When the parser is done, every import and every export name that the loader sees at
\* its rvas is reported, for any buffer whose tables begin in place, any sections and
\* any limits (peparse.cpp:173-194, 290-401).
THEOREM NamesFound == Spec => []LoadedNamesFound
<1>1. CompleteInv /\ ExportInv => LoadedNamesFound
  BY DEF CompleteInv, ExportInv, LoadedNamesFound
<1> QED BY <1>1, TablesFromTheStart, PTL

\* Where every section has the same place in file and image, all that is reported is
\* what the loader sees: no text of another layout, no ordinal taken for a name, no slot
\* that wraps around (peparse.cpp:327-368, 391-401).
THEOREM NothingInvented == Spec => []NothingElseFound
<1>1. SoundInv /\ ExportInv => NothingElseFound
  BY DEF SoundInv, ExportInv, NothingElseFound
<1> QED BY <1>1, TablesFromTheStart, PTL
=============================================================================
