------------------------------- MODULE Paths -------------------------------
(***************************************************************************)
(* The paths of src/core/memscan.cpp: how the device path of a mapped file *)
(* becomes one with a drive letter, and how two paths are compared.  A     *)
(* path is the sequence of its pieces: a separator, a name, a part of a    *)
(* device's name.                                                          *)
(***************************************************************************)
EXTENDS Integers, FiniteSetsExt, SequencesExt

CONSTANTS
  Lower,  \* the lower case of each piece
  Drives  \* the logical drives in their order: [drive, device], without those that
          \* QueryDosDeviceW does not know

Backslash == "\\"
LongPath == <<Backslash, Backslash, "?", Backslash>>

ToLower(path) == [i \in DOMAIN path |-> Lower[path[i]]]

Backslashed(path) == [i \in DOMAIN path |-> IF path[i] = "/" THEN Backslash ELSE path[i]]

\* Mutant of NormalizePath: the prefix of a long path stays.
NormalizeCase(path) == ToLower(Backslashed(path))

NormalizePath(path) ==
  LET back == Backslashed(path)
  IN  ToLower(IF IsPrefix(LongPath, back) THEN SubSeq(back, Len(LongPath) + 1, Len(back)) ELSE back)

StartsWithNoCase(text, prefix) == IsPrefix(ToLower(prefix), ToLower(text))

\* The first drive with whose device the text begins takes that part's place.
DosPathFromDevice(dev) ==
  LET fitting == {i \in DOMAIN Drives : StartsWithNoCase(dev, Drives[i].device)}
      first   == Drives[Min(fitting)]
  IN  IF fitting = {} THEN dev
      ELSE <<first.drive>> \o SubSeq(dev, Len(first.device) + 1, Len(dev))
=============================================================================
