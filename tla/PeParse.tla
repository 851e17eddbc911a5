------------------------------ MODULE PeParse ------------------------------
(***************************************************************************)
(* ParsePe of src/core/peparse.cpp over one buffer: the header checks, the *)
(* section table, the import descriptors with their thunks and the export  *)
(* names.  The same parser reads files and loaded images, so that an rva   *)
(* is looked for at itself and where each section would have it in a file. *)
(*                                                                         *)
(* A cell of the buffer stands for one 32-bit field, one character or one  *)
(* hint; a structure is the row of those of its fields that the parser     *)
(* decides by.  Words are smaller than 32 bits, the arithmetic wraps where *)
(* the code's does.                                                        *)
(***************************************************************************)
EXTENDS Integers, Sequences

CONSTANTS
  Buffers,         \* the buffers to parse
  WordMax,         \* the largest word
  Printable,       \* words that are characters 0x20..0x7e
  MZ, PE00,        \* the signatures
  Magic32, Magic64,
  MaxSections,     \* 96
  MaxDescriptors,  \* 64
  MaxThunks,       \* 256
  MaxExports,      \* 512
  MaxText          \* 260

Words == 0..WordMax

ASSUME PeAssumption ==
  /\ WordMax \in Nat /\ Buffers \subseteq Seq(Words)
  /\ Printable \subseteq Words \ {0}
  /\ MaxSections \in Nat /\ MaxDescriptors \in Nat /\ MaxThunks \in Nat
  /\ MaxExports \in Nat /\ MaxText \in Nat
\* Nobody parses more than the first 64 KiB of a file or of a region (memscan.cpp:335,
\* 367-369, 548-552): every offset is a word.
ASSUME BufferAssumption == \A b \in Buffers : Len(b) <= WordMax

VARIABLES
  data,     \* the buffer
  pc,       \* the next step of the parser
  out,      \* the headers of PeQuick
  sections, \* its section table
  i,        \* the section, descriptor or export name that is next
  at,       \* offset of the import table, or the rva of the export names
  count,    \* descriptors or export names to read at most
  dll,      \* the import that is being read
  imports, exports,
  touched   \* the offsets that the last step may have read

vars == <<data, pc, out, sections, i, at, count, dll, imports, exports, touched>>

----------------------------------------------------------------------------
(* Reading the buffer.                                                     *)

size == Len(data)
At(off) == IF off \in 0..size - 1 THEN data[off + 1] ELSE 0
Cells(off, n) == off..off + n - 1
First(S) == {k \in S : \A j \in S : k <= j}
Last(S) == {k \in S : \A j \in S : j <= k}
Smaller(a, b) == IF a <= b THEN a ELSE b
SignBit == (WordMax + 1) \div 2

\* Mutant of Fits: only the first cell is looked at.
Starts(off, n) == off < size

\* The test of ReadPod and of the header checks: n cells at off lie in the buffer.
Fits(off, n) == off + n <= size

\* The structures, in cells.
DosSize == 2         \* e_magic, e_lfanew
NtSize == 3          \* Signature, NumberOfSections, SizeOfOptionalHeader
SectionSize == 4
DescriptorSize == 4  \* OriginalFirstThunk, the two fields in between, Name, FirstThunk
ExportSize == 2      \* NumberOfNames, AddressOfNames
HintSize == 1
ThunkSize == IF out.is64 THEN 2 ELSE 1

\* PE32+ has an ImageBase of two words.
OptionalSize == [m \in {Magic32, Magic64} |-> IF m = Magic64 THEN 9 ELSE 8]

SectionAt(off) ==
  [virtual_address |-> At(off), virtual_size |-> At(off + 1),
   raw_offset |-> At(off + 2), raw_size |-> At(off + 3)]
DescriptorAt(off) ==
  [OriginalFirstThunk |-> At(off), other |-> At(off + 1),
   Name |-> At(off + 2), FirstThunk |-> At(off + 3)]

Span(s) == IF s.virtual_size >= s.raw_size THEN s.virtual_size ELSE s.raw_size

\* Where an rva may be: layout 0 is the loaded image, layout k a file that has
\* section k at its raw offset.  The sums are 64 bits wide.
RvaOffset(rva, k) ==
  IF k = 0 THEN rva ELSE sections[k].raw_offset + (rva - sections[k].virtual_address)

Covers(s, rva) == rva >= s.virtual_address /\ rva < s.virtual_address + Span(s)

\* Mutant of Layouts: sections before the rva itself.
LayoutsOfFileOnly(rva) ==
  LET L == {k \in 1..Len(sections) : Covers(sections[k], rva) /\ RvaOffset(rva, k) < size} IN
  IF L # {} \/ rva >= size THEN L ELSE {0}

\* The layouts under which an rva lies in the buffer; smaller ones are tried first.
Layouts(rva) ==
  {k \in 0..Len(sections) :
     (k = 0 \/ Covers(sections[k], rva)) /\ RvaOffset(rva, k) < size}

\* The text from off to the first zero; empty if a cell before it is not printable, or
\* the buffer or the limit comes first.
Ends(off) ==
  {e \in Cells(off, MaxText) :
     e < size /\ At(e) = 0 /\ \A c \in off..e - 1 : At(c) \in Printable}
ReadCStringAt(off) ==
  IF Ends(off) = {} THEN <<>> ELSE SubSeq(data, off + 1, CHOOSE e \in Ends(off) : TRUE)

TextCells(off) == off..Smaller(size, off + MaxText) - 1

\* The text at an rva, skip cells on, in the first layout that has one: a set of one
\* text or none.
TextLayouts(rva, skip) == {k \in Layouts(rva) : ReadCStringAt(RvaOffset(rva, k) + skip) # <<>>}
ReadCStringRva(rva, skip) ==
  {ReadCStringAt(RvaOffset(rva, k) + skip) : k \in First(TextLayouts(rva, skip))}
RvaTextCells(rva, skip) == UNION {TextCells(RvaOffset(rva, k) + skip) : k \in Layouts(rva)}

----------------------------------------------------------------------------
(* Headers and sections.                                                   *)

NoPe ==
  [valid |-> FALSE, is64 |-> FALSE, has_clr |-> FALSE, export_rva |-> 0, export_size |-> 0,
   import_rva |-> 0, import_size |-> 0, raw_image_end |-> 0, overlay_size |-> 0]
NoDll == [name |-> <<>>, rva |-> 0, layout |-> 0, n |-> 0, names |-> {}, ordinals |-> 0]

Init ==
  /\ data \in Buffers /\ pc = "dos" /\ out = NoPe /\ sections = <<>>
  /\ i = 0 /\ at = 0 /\ count = 0 /\ dll = NoDll
  /\ imports = <<>> /\ exports = <<>> /\ touched = {}

Goto(from, to) == pc = from /\ pc' = to

NtOffset == At(1)
OptionalOffset == NtOffset + NtSize

\* e_lfanew is signed and must be positive.
ReadDosHeader ==
  /\ pc = "dos"
  /\ touched' = IF Fits(0, DosSize) THEN Cells(0, DosSize) ELSE {}
  /\ pc' = IF Fits(0, DosSize) /\ At(0) = MZ /\ NtOffset \in 1..SignBit - 1 THEN "nt" ELSE "done"
  /\ UNCHANGED <<data, out, sections, i, at, count, dll, imports, exports>>

ReadNtHeader ==
  /\ pc = "nt"
  /\ touched' = IF Fits(NtOffset, NtSize) THEN Cells(NtOffset, NtSize) ELSE {}
  /\ IF Fits(NtOffset, NtSize) /\ At(NtOffset) = PE00
     THEN pc' = "optional" /\ out' = [out EXCEPT !.valid = TRUE]
     ELSE pc' = "done" /\ UNCHANGED out
  /\ UNCHANGED <<data, sections, i, at, count, dll, imports, exports>>

\* What the optional header says; its directories are behind their number.
WithDirectories(dirs, wide) ==
  LET has(n) == At(dirs) > n IN
  [out EXCEPT
     !.is64 = wide,
     !.export_rva = IF has(0) THEN At(dirs + 1) ELSE 0,
     !.export_size = IF has(0) THEN At(dirs + 2) ELSE 0,
     !.import_rva = IF has(1) THEN At(dirs + 3) ELSE 0,
     !.import_size = IF has(1) THEN At(dirs + 4) ELSE 0,
     !.has_clr = has(14) /\ At(dirs + 5) # 0 /\ At(dirs + 6) # 0]

\* An optional header that is cut off, or of another kind, leaves the fields at zero;
\* the sections are read all the same.
ReadOptionalHeader ==
  LET opt == OptionalOffset
      magic == At(opt)
      known == magic \in DOMAIN OptionalSize /\ Fits(opt, OptionalSize[magic])
  IN
  /\ pc = "optional"
  /\ IF At(NtOffset + 2) = 0 \/ ~Fits(opt, 1)
     THEN pc' = "done" /\ touched' = {} /\ UNCHANGED out
     ELSE /\ pc' = "sections"
          /\ touched' = Cells(opt, IF known THEN OptionalSize[magic] ELSE 1)
          /\ out' = IF known
                    THEN WithDirectories(opt + OptionalSize[magic] - 7, magic = Magic64)
                    ELSE out
  /\ UNCHANGED <<data, sections, i, at, count, dll, imports, exports>>

SectionOffset == OptionalOffset + At(NtOffset + 2) + i * SectionSize
SectionDue == i < Smaller(At(NtOffset + 1), MaxSections) /\ Fits(SectionOffset, SectionSize)

ReadSection ==
  /\ pc = "sections" /\ SectionDue
  /\ sections' = Append(sections, SectionAt(SectionOffset)) /\ i' = i + 1
  /\ touched' = Cells(SectionOffset, SectionSize)
  /\ UNCHANGED <<data, pc, out, at, count, dll, imports, exports>>

\* Mutant of RawEnd: a sum of 32 bits.
WrappedRawEnd(s) == (s.raw_offset + s.raw_size) % (WordMax + 1)

RawEnd(s) == s.raw_offset + s.raw_size
RawEnds == {RawEnd(sections[k]) : k \in {j \in 1..Len(sections) : sections[j].raw_size # 0}}

\* Mutant of OverlaySize: a file that is cut off is not told from a whole one.
UncheckedOverlaySize(end) == IF end # 0 THEN size - end ELSE 0

OverlaySize(end) == IF end # 0 /\ end < size THEN size - end ELSE 0

\* The bytes that the entropy of a section is made of, from the file or the image.
EntropyCells(s) ==
  IF s.raw_size # 0 /\ s.raw_offset < size
  THEN s.raw_offset..Smaller(size, s.raw_offset + s.raw_size) - 1
  ELSE IF s.virtual_size # 0 /\ s.virtual_address < size
  THEN s.virtual_address..Smaller(size, s.virtual_address + s.virtual_size) - 1
  ELSE {}

FillSectionStats ==
  /\ pc = "sections" /\ ~SectionDue /\ pc' = "imports"
  /\ \E end \in Last(RawEnds \cup {0}) :
       out' = [out EXCEPT !.raw_image_end = end, !.overlay_size = OverlaySize(end)]
  /\ touched' = UNION {EntropyCells(sections[k]) : k \in 1..Len(sections)}
  /\ UNCHANGED <<data, sections, i, at, count, dll, imports, exports>>

----------------------------------------------------------------------------
(* Imports.                                                                *)

ZeroDescriptor == [OriginalFirstThunk |-> 0, other |-> 0, Name |-> 0, FirstThunk |-> 0]
DescriptorThere(off) == Fits(off, DescriptorSize) /\ DescriptorAt(off) # ZeroDescriptor

\* A layout is believed if its first descriptor has a name.
TableLayouts ==
  {k \in Layouts(out.import_rva) :
     LET off == RvaOffset(out.import_rva, k) IN
     DescriptorThere(off) /\ ReadCStringRva(DescriptorAt(off).Name, 0) # {}}

FindImportTable ==
  /\ pc = "imports"
  /\ touched' = UNION {LET off == RvaOffset(out.import_rva, k) IN
                       IF Fits(off, DescriptorSize)
                       THEN Cells(off, DescriptorSize) \cup RvaTextCells(DescriptorAt(off).Name, 0)
                       ELSE {} : k \in Layouts(out.import_rva)}
  /\ IF out.import_rva = 0 \/ out.import_size < DescriptorSize \/ TableLayouts = {}
     THEN pc' = "exports" /\ UNCHANGED <<i, at, count>>
     ELSE /\ pc' = "descriptors" /\ i' = 0
          /\ \E k \in First(TableLayouts) : at' = RvaOffset(out.import_rva, k)
          /\ count' = Smaller(MaxDescriptors, out.import_size \div DescriptorSize + 1)
  /\ UNCHANGED <<data, out, sections, dll, imports, exports>>

DescriptorOffset == at + i * DescriptorSize
DescriptorDue == i < count /\ DescriptorThere(DescriptorOffset)

ThunkRva(d) == IF d.OriginalFirstThunk # 0 THEN d.OriginalFirstThunk ELSE d.FirstThunk

\* A descriptor without a readable name is passed over; one without thunks is kept.
ReadDescriptor ==
  LET d == DescriptorAt(DescriptorOffset)
      found == ReadCStringRva(d.Name, 0)
      rva == ThunkRva(d)
      entry(name) == [NoDll EXCEPT !.name = name, !.rva = rva]
  IN
  /\ pc = "descriptors" /\ DescriptorDue /\ i' = i + 1
  /\ touched' = Cells(DescriptorOffset, DescriptorSize) \cup RvaTextCells(d.Name, 0)
  /\ \/ found = {} /\ UNCHANGED <<pc, dll, imports>>
     \/ /\ rva = 0 \/ Layouts(rva) = {}
        /\ \E name \in found : imports' = Append(imports, entry(name))
        /\ UNCHANGED <<pc, dll>>
     \/ /\ rva # 0 /\ pc' = "thunks" /\ UNCHANGED imports
        /\ \E name \in found, k \in First(Layouts(rva)) : dll' = [entry(name) EXCEPT !.layout = k]
  /\ UNCHANGED <<data, out, sections, at, count, exports>>

ImportsEnd ==
  /\ Goto("descriptors", "exports") /\ ~DescriptorDue
  /\ touched' = IF i < count /\ Fits(DescriptorOffset, DescriptorSize)
                THEN Cells(DescriptorOffset, DescriptorSize) ELSE {}
  /\ UNCHANGED <<data, out, sections, i, at, count, dll, imports, exports>>

ThunkOffset == RvaOffset(dll.rva, dll.layout) + dll.n * ThunkSize
ThunkZero(off) == \A c \in Cells(off, ThunkSize) : At(c) = 0
ThunkDue == dll.n < MaxThunks /\ Fits(ThunkOffset, ThunkSize) /\ ~ThunkZero(ThunkOffset)

\* Mutant of ThunkIsOrdinal: the flag of a 32-bit thunk in a 64-bit one.
LowWordIsOrdinal(off) == At(off) >= SignBit

ThunkIsOrdinal(off) == At(off + ThunkSize - 1) >= SignBit

ReadThunk ==
  LET rva == At(ThunkOffset)
      ordinal == ThunkIsOrdinal(ThunkOffset)
  IN
  /\ pc = "thunks" /\ ThunkDue
  /\ dll' = [dll EXCEPT
               !.n = @ + 1,
               !.ordinals = IF ordinal THEN @ + 1 ELSE @,
               !.names = IF ordinal THEN @ ELSE @ \cup ReadCStringRva(rva, HintSize)]
  /\ touched' = Cells(ThunkOffset, ThunkSize) \cup (IF ordinal THEN {} ELSE RvaTextCells(rva, HintSize))
  /\ UNCHANGED <<data, pc, out, sections, i, at, count, imports, exports>>

\* Mutant of LaterLayouts: the same one again.
SameOrLaterLayouts == {k \in Layouts(dll.rva) : k >= dll.layout}

LaterLayouts == {k \in Layouts(dll.rva) : k > dll.layout}

\* A layout that gave names or ordinals ends the search, as does the last one.
ThunksEnd ==
  /\ pc = "thunks" /\ ~ThunkDue
  /\ touched' = IF dll.n < MaxThunks /\ Fits(ThunkOffset, ThunkSize) THEN Cells(ThunkOffset, ThunkSize) ELSE {}
  /\ IF dll.names = {} /\ dll.ordinals = 0 /\ LaterLayouts # {}
     THEN /\ \E k \in First(LaterLayouts) : dll' = [dll EXCEPT !.layout = k, !.n = 0]
          /\ UNCHANGED <<pc, imports>>
     ELSE /\ pc' = "descriptors" /\ imports' = Append(imports, dll) /\ dll' = NoDll
  /\ UNCHANGED <<data, out, sections, i, at, count, exports>>

----------------------------------------------------------------------------
(* Exports.                                                                *)

DirectoryLayouts ==
  {k \in Layouts(out.export_rva) :
     LET off == RvaOffset(out.export_rva, k) IN
     Fits(off, ExportSize) /\ At(off) # 0 /\ At(off + 1) # 0}

FindExportDirectory ==
  /\ pc = "exports"
  /\ touched' = UNION {LET o == RvaOffset(out.export_rva, k) IN
                       IF Fits(o, ExportSize) THEN Cells(o, ExportSize) ELSE {} : k \in Layouts(out.export_rva)}
  /\ IF out.export_rva = 0 \/ out.export_size < ExportSize \/ DirectoryLayouts = {}
     THEN pc' = "done" /\ UNCHANGED <<i, at, count>>
     ELSE /\ pc' = "names" /\ i' = 0
          /\ \E k \in First(DirectoryLayouts) :
               LET off == RvaOffset(out.export_rva, k) IN
               at' = At(off + 1) /\ count' = Smaller(At(off), MaxExports)
  /\ UNCHANGED <<data, out, sections, dll, imports, exports>>

\* A sum of 32 bits.
SlotRva == (at + i) % (WordMax + 1)
SlotLayouts == {k \in Layouts(SlotRva) : Fits(RvaOffset(SlotRva, k), 1)}
SlotDue == i < count /\ SlotLayouts # {}

ReadExport ==
  /\ pc = "names" /\ SlotDue /\ i' = i + 1
  /\ \E k \in First(SlotLayouts) :
       LET off == RvaOffset(SlotRva, k)
           found == ReadCStringRva(At(off), 0)
       IN
       /\ touched' = {off} \cup RvaTextCells(At(off), 0)
       /\ \/ found = {} /\ UNCHANGED exports
          \/ \E name \in found : exports' = Append(exports, name)
  /\ UNCHANGED <<data, pc, out, sections, at, count, dll, imports>>

ExportsEnd ==
  /\ Goto("names", "done") /\ ~SlotDue /\ touched' = {}
  /\ UNCHANGED <<data, out, sections, i, at, count, dll, imports, exports>>

Next ==
  \/ ReadDosHeader \/ ReadNtHeader \/ ReadOptionalHeader \/ ReadSection \/ FillSectionStats
  \/ FindImportTable \/ ReadDescriptor \/ ImportsEnd \/ ReadThunk \/ ThunksEnd
  \/ FindExportDirectory \/ ReadExport \/ ExportsEnd

Spec == Init /\ [][Next]_vars /\ WF_vars(Next)

----------------------------------------------------------------------------
(* Properties.                                                             *)

Steps ==
  {"dos", "nt", "optional", "sections", "imports", "descriptors", "thunks", "exports",
   "names", "done"}
Section == [virtual_address : Words, virtual_size : Words, raw_offset : Words, raw_size : Words]
Texts == Seq(Words)
Import ==
  [name : Texts, rva : Words, layout : Nat, n : Nat, names : SUBSET Texts, ordinals : Nat]
Headers ==
  [valid : BOOLEAN, is64 : BOOLEAN, has_clr : BOOLEAN, export_rva : Words,
   export_size : Words, import_rva : Words, import_size : Words,
   raw_image_end : Nat, overlay_size : 0..size]

\* The type of every variable; a section is never more than the parser's maximum, and
\* an overlay never longer than the buffer.
TypeOK ==
  /\ data \in Seq(Words) /\ pc \in Steps /\ out \in Headers
  /\ sections \in Seq(Section) /\ Len(sections) <= MaxSections
  /\ i \in Nat /\ at \in Nat /\ count \in Nat
  /\ dll \in Import /\ dll.layout <= Len(sections)
  /\ imports \in Seq(Import) /\ exports \in Seq(Texts)
  /\ touched \subseteq Int

\* No step reads outside of the buffer, whatever it holds: headers, sections,
\* descriptors, thunks, slots that wrap around and texts (peparse.cpp:164-232,
\* 260-275, 390-401, 406-484).
ReadsInside == touched \subseteq 0..size - 1

\* What the loader finds in an image at its rvas, without looking elsewhere.
DescriptorLimit == Smaller(MaxDescriptors, out.import_size \div DescriptorSize + 1)
LoadedDescriptors ==
  {DescriptorAt(out.import_rva + d * DescriptorSize) :
     d \in {x \in 0..DescriptorLimit - 1 :
             \A e \in 0..x : DescriptorThere(out.import_rva + e * DescriptorSize)}}
LoadedThunks(rva) ==
  {rva + n * ThunkSize :
     n \in {x \in 0..MaxThunks - 1 :
             \A e \in 0..x : Fits(rva + e * ThunkSize, ThunkSize) /\ ~ThunkZero(rva + e * ThunkSize)}}
LoadedNames(d) ==
  {ReadCStringAt(At(t) + HintSize) : t \in {u \in LoadedThunks(ThunkRva(d)) : At(u + ThunkSize - 1) < SignBit}}
LoadedImports ==
  UNION {{<<ReadCStringAt(d.Name), name>> : name \in LoadedNames(d) \ {<<>>}} :
           d \in {x \in LoadedDescriptors : ReadCStringAt(x.Name) # <<>> /\ ThunkRva(x) # 0}}
LoadedExports ==
  LET slot(e) == At(out.export_rva + 1) + e IN
  {ReadCStringAt(At(slot(e))) :
     e \in {x \in 0..Smaller(At(out.export_rva), MaxExports) - 1 : \A y \in 0..x : Fits(slot(y), 1)}}

ReportedImports == UNION {{<<imports[k].name, name>> : name \in imports[k].names} : k \in 1..Len(imports)}
ReportedExports == {exports[k] : k \in 1..Len(exports)}

ImportTableInPlace ==
  /\ out.import_rva # 0 /\ out.import_size >= DescriptorSize
  /\ DescriptorThere(out.import_rva) /\ ReadCStringAt(DescriptorAt(out.import_rva).Name) # <<>>
ExportTableInPlace ==
  /\ out.export_rva # 0 /\ out.export_size >= ExportSize /\ Fits(out.export_rva, ExportSize)
  /\ At(out.export_rva) # 0 /\ At(out.export_rva + 1) # 0

\* In a loaded image whose tables begin in place, looking for a file layout loses no
\* name that the loader sees, however the rest is spoilt (peparse.cpp:173-194, 290-401).
LoadedNamesFound ==
  pc = "done" =>
    /\ ImportTableInPlace => LoadedImports \subseteq ReportedImports
    /\ ExportTableInPlace => LoadedExports \ {<<>>} \subseteq ReportedExports

SameInFile == \A k \in 1..Len(sections) : sections[k].raw_offset = sections[k].virtual_address

\* If file and image have one layout, nothing is reported but what the loader sees, and
\* no ordinal is taken for a name (peparse.cpp:327-368, 391-401).
NothingElseFound ==
  pc = "done" /\ SameInFile =>
    ReportedImports \subseteq LoadedImports /\ ReportedExports \subseteq LoadedExports

\* No raw byte of a section whose header is in the buffer belongs to the overlay, with
\* as many sections as Windows loads (peparse.cpp:260-279, 467-483).
OverlayBehindSections ==
  out.overlay_size # 0 /\ At(NtOffset + 1) <= MaxSections =>
    \A k \in 0..At(NtOffset + 1) - 1 :
      LET off == OptionalOffset + At(NtOffset + 2) + k * SectionSize IN
      Fits(off, SectionSize) /\ SectionAt(off).raw_size # 0 =>
        SectionAt(off).raw_offset + SectionAt(off).raw_size <= size - out.overlay_size

\* The parser returns, on tables that point to themselves, too (peparse.cpp:311-371, 392).
ParseReturns == <>(pc = "done")
=============================================================================
