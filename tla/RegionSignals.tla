--------------------------- MODULE RegionSignals ---------------------------
(***************************************************************************)
(* The signals of src/core/memscan.cpp: what one committed region of a     *)
(* process tells, given the bytes that were read from it, the file the     *)
(* region maps, the loader's module list and the thread start addresses.   *)
(* Everything here is a function of its arguments: the order and the time  *)
(* at which ScanPid obtains those arguments is the subject of ProcessScan. *)
(*                                                                         *)
(* The bytes of a page are abstracted to what the signals tell apart.  The *)
(* reasons vector is a set: the code appends each reason at most once and  *)
(* always in the same order.                                               *)
(***************************************************************************)
EXTENDS Integers, Sequences, FiniteSets, FiniteSetsExt, Paths

CONSTANTS
  Contents,   \* what a page can hold
  NoBytes,    \* the empty buffer, after a read that failed
  Pe,         \* what ParsePe and ByteEntropy say of a buffer, by its first page
  Names,      \* paths of executables and of mapped files, in any spelling
  NoName,     \* the empty path
  NotListed,  \* a base address that is missing from the loader's list
  SectionNames, \* names in section tables
  Disk        \* the file behind a path: its first page and its overlay

Bases == {"NOACCESS", "R", "RW", "WC", "X", "RX", "RWX", "XWC"}
Protections == [base : Bases, guard : BOOLEAN]
Types == {"IMAGE", "MAPPED", "PRIVATE"}

ApiTags == {"memory-permission", "remote-memory", "remote-thread", "thread-context",
            "image-unmap", "section-map", "process-open"}
Section == [name : SectionNames, first : Nat, span : Nat, write : BOOLEAN, exec : BOOLEAN]
NoSection == ""
Reasons == {"PrivatePE", "Write+Exec", "ImageRWX", "ImageHeaderNotMZ", "ImageHeaderMismatch",
            "ImageNotInModuleList", "ModulePathMismatch", "SectionProtectionMismatch",
            "SuspiciousImports", "HighEntropyExecutable", "LargeOverlay", "PrivateThreadStart"}

\* PeQuick and PeSection, with the entropy of the page that holds the header.
\* identity stands for machine, sections, optional_magic, timestamp,
\* characteristics and subsystem; importPage is the last page of the import
\* data, which a buffer must reach for the tags to be found.
PeQuick == [valid : BOOLEAN, identity : Nat, clr : BOOLEAN, tags : SUBSET ApiTags,
            importPage : Nat, table : Seq(Section), packed : BOOLEAN]

ASSUME SignalAssumption ==
  /\ NoBytes \notin Contents
  /\ NoName \notin Names
  /\ NotListed \notin Names \cup {NoName}
  /\ Pe \in [Contents -> PeQuick]
  /\ Disk \in [Names -> [head : Contents, largeOverlay : BOOLEAN]]

----------------------------------------------------------------------------
(* Protection words. *)

HasWrite(protect) == protect.base \in {"RW", "WC", "RWX", "XWC"}
HasExecute(protect) == protect.base \in {"X", "RX", "RWX", "XWC"}
HasWriteExec(protect) == HasWrite(protect) /\ HasExecute(protect)
IsReadableProbeTarget(protect) == ~protect.guard /\ protect.base # "NOACCESS"

\* PAGE_EXECUTE alone prints as "--X"; write-copy prints like write.
ProtectToString(protect) ==
  IF protect.base = "NOACCESS" THEN {"NOACC"}
  ELSE {l \in {"R", "W", "X", "G"} :
          \/ l = "R" /\ protect.base # "X"
          \/ l = "W" /\ HasWrite(protect)
          \/ l = "X" /\ HasExecute(protect)
          \/ l = "G" /\ protect.guard}

----------------------------------------------------------------------------
(* A PE header, seen through a buffer of n pages that starts with it.      *)

ContainsMzPe(head) == head # NoBytes /\ Pe[head].valid

\* A parsed buffer: its first page and how many pages of it were read.
Layouts == [head : Contents \cup {NoBytes}, pages : Nat]
NoLayout == [head |-> NoBytes, pages |-> 0]
LayoutValid(layout) == ContainsMzPe(layout.head)

ApiTagsOf(layout) ==
  IF LayoutValid(layout) /\ Pe[layout.head].importPage < layout.pages
  THEN Pe[layout.head].tags ELSE {}

\* The entries of the section table whose span holds the address.
Covering(layout, rva) ==
  IF ~LayoutValid(layout) THEN {}
  ELSE LET table == Pe[layout.head].table
       IN  {i \in DOMAIN table : table[i].first <= rva /\ rva < table[i].first + table[i].span}

\* The first of them, if any.
FindSectionForRva(layout, rva) ==
  IF Covering(layout, rva) = {} THEN {}
  ELSE {Pe[layout.head].table[Min(Covering(layout, rva))]}

SectionName(layout, rva) ==
  IF Covering(layout, rva) = {} THEN NoSection
  ELSE Pe[layout.head].table[Min(Covering(layout, rva))].name

----------------------------------------------------------------------------
(* The signals.  mbi is what VirtualQueryEx returned for the region.       *)

AtAllocationBase(mbi) == mbi.type = "IMAGE" /\ mbi.alloc = mbi.base

AddImageHeaderComparison(head, mapped) ==
  IF /\ ContainsMzPe(head) /\ mapped # NoName
     /\ Pe[Disk[mapped].head].valid
     /\ ~Pe[head].clr /\ ~Pe[Disk[mapped].head].clr
     /\ Pe[head].identity # Pe[Disk[mapped].head].identity
  THEN {"ImageHeaderMismatch"} ELSE {}

\* modules is the loader's list, by base address: a path, NoName or NotListed.
AddModuleConsistency(mbi, is_pe, mapped, modules_known, modules) ==
  IF ~AtAllocationBase(mbi) \/ ~modules_known \/ ~is_pe THEN {}
  ELSE IF modules[mbi.alloc] = NotListed THEN {"ImageNotInModuleList"}
  ELSE IF /\ mapped # NoName /\ modules[mbi.alloc] # NoName
          /\ NormalizePath(mapped) # NormalizePath(modules[mbi.alloc])
  THEN {"ModulePathMismatch"} ELSE {}

ModulePath(mbi, modules) ==
  IF AtAllocationBase(mbi) /\ modules[mbi.alloc] # NotListed
  THEN modules[mbi.alloc] ELSE NoName

AddSectionProtectionCheck(mbi, layout) ==
  IF /\ mbi.type = "IMAGE" /\ HasWriteExec(mbi.protect)
     /\ \E section \in FindSectionForRva(layout, mbi.base - mbi.alloc) :
          ~(section.write /\ section.exec)
  THEN {"SectionProtectionMismatch"} ELSE {}

\* What ScanPid pushes before it looks at context, from the probe and the layout.
PrimaryReasons(mbi, head, mapped, modules_known, modules, layout) ==
  {r \in {"PrivatePE", "Write+Exec", "ImageRWX", "ImageHeaderNotMZ"} :
     \/ r = "PrivatePE" /\ mbi.type = "PRIVATE" /\ ContainsMzPe(head)
     \/ r = "Write+Exec" /\ HasWriteExec(mbi.protect)
     \/ r = "ImageRWX" /\ mbi.type = "IMAGE" /\ HasWriteExec(mbi.protect)
     \/ /\ r = "ImageHeaderNotMZ" /\ AtAllocationBase(mbi)
        /\ IsReadableProbeTarget(mbi.protect) /\ ~ContainsMzPe(head)}
  \cup (IF AtAllocationBase(mbi) THEN AddImageHeaderComparison(head, mapped) ELSE {})
  \cup AddModuleConsistency(mbi, ContainsMzPe(head), mapped, modules_known, modules)
  \cup AddSectionProtectionCheck(mbi, layout)

\* Mutant of AddSuspiciousImportContext: two groups make an image suspicious.
AddImportsOfAnyImage(type, tags, reasons) ==
  IF tags # {} /\ (type = "PRIVATE" \/ Cardinality(tags) >= 2)
  THEN reasons \cup {"SuspiciousImports"} ELSE reasons

AddSuspiciousImportContext(type, tags, reasons) ==
  IF tags # {} /\ (type = "PRIVATE" \/ (reasons # {} /\ Cardinality(tags) >= 2))
  THEN reasons \cup {"SuspiciousImports"} ELSE reasons

AddHighEntropy(mbi, head, reasons) ==
  IF /\ HasExecute(mbi.protect) /\ head # NoBytes /\ Pe[head].packed
     /\ mbi.type = "PRIVATE" \/ reasons # {}
  THEN reasons \cup {"HighEntropyExecutable"} ELSE reasons

\* Whether the mapped file has an overlay of a mebibyte.
OverlaySizeForFile(mapped) == mapped # NoName /\ Disk[mapped].largeOverlay

\* Only the file behind an image can: the overlay of a private PE is measured
\* inside a buffer of at most 64 KiB.
AddLargeOverlay(mbi, mapped, reasons) ==
  IF mbi.type = "IMAGE" /\ OverlaySizeForFile(mapped) /\ reasons # {}
  THEN reasons \cup {"LargeOverlay"} ELSE reasons

\* thread_starts maps the thread ids that could be queried to their start pages.
ThreadsInRegion(thread_starts, mbi) ==
  IF mbi.type = "PRIVATE" /\ HasExecute(mbi.protect)
  THEN {t \in DOMAIN thread_starts :
          mbi.base <= thread_starts[t] /\ thread_starts[t] < mbi.base + mbi.size}
  ELSE {}

RegionReasons(mbi, head, mapped, modules_known, modules, layout, thread_starts) ==
  LET primary == PrimaryReasons(mbi, head, mapped, modules_known, modules, layout)
      imports == AddSuspiciousImportContext(mbi.type, ApiTagsOf(layout), primary)
      packed  == AddHighEntropy(mbi, head, imports)
      overlay == AddLargeOverlay(mbi, mapped, packed)
  IN  overlay \cup (IF ThreadsInRegion(thread_starts, mbi) # {}
                    THEN {"PrivateThreadStart"} ELSE {})

MediumReason == "Write+Exec"
LowReason == "ImageHeaderNotMZ"
Severity(reasons) ==
  IF reasons \ {MediumReason, LowReason} # {} THEN "high"
  ELSE IF MediumReason \in reasons THEN "medium" ELSE "low"

\* SHA-256 is taken as injective: the fingerprint is the text that is hashed.
Fingerprint(process, mapped, mbi, is_pe, section_name, reasons) ==
  <<ToLower(process), ToLower(mapped), mbi.type, ProtectToString(mbi.protect), is_pe,
    section_name, reasons>>
LowerNames == {ToLower(n) : n \in Names \cup {NoName}}
Fingerprints == LowerNames \X LowerNames \X Types
                \X (SUBSET {"NOACC", "R", "W", "X", "G"}) \X BOOLEAN \X (SectionNames \cup {NoSection})
                \X (SUBSET Reasons)
=============================================================================
