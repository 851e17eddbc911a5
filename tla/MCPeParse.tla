----------------------------- MODULE MCPeParse -----------------------------
(* Small images, whole, cut off and with one cell overwritten. *)
EXTENDS PeParse

Sign == 64
Char == 100
Letter == 101
MCPrintable == {Char, Letter}

\* One section that is at `raw' in the file, an import by name, one by ordinal, and an
\* exported name.  The tables are behind the headers.
Image32(raw) ==
  <<90, 2, 80, 1, 8,                             \* 0: DOS header, NT header
    32, 2, 33, 2, 17, 8, 0, 0,                   \* 5: optional header
    17, 21, raw, 21,                             \* 13: the section
    25, 0, 28, 25, 0, 0, 0, 0,                   \* 17: import descriptors
    30, Sign + 30, 0, Char, 0, 0, Letter, 0,     \* 25: thunks, dll name, hint and name
    1, 35, 36, Char, 0>>                         \* 33: export directory, slot, name

Image64(raw) ==
  <<90, 2, 80, 1, 9,
    64, 0, 2, 37, 2, 18, 8, 0, 0,                \* 5
    18, 24, raw, 24,                             \* 14
    26, 0, 32, 26, 0, 0, 0, 0,                   \* 18
    34, 0, 31, Sign, 0, 0, Char, 0, 0, Letter, 0,  \* 26
    1, 39, 40, Char, 0>>                         \* 37

\* A section at the top of the address space: the slots of the export names wrap around.
WrappingImage ==
  [Image32(14) EXCEPT ![14] = 126, ![15] = 4, ![16] = 34, ![17] = 2, ![34] = 2, ![35] = 127]

Cut(s) == {SubSeq(s, 1, n) : n \in 0..Len(s)}
Spoilt(s, values) == {[s EXCEPT ![c] = v] : c \in 1..Len(s), v \in values}

\* A few bytes of overlay.
Overlay == <<Char, Letter, 0>>

Values == {0, 1, 4, 17, 27, 30, Sign, 127, Char}
Whole == {Image32(14) \o Overlay, Image32(17), Image64(18), WrappingImage}
MCBuffers ==
  UNION {Cut(s) \cup Spoilt(s, Values) : s \in Whole}
  \cup UNION {Spoilt(s, Values) : s \in Cut(Image32(14)) \cup Cut(Image64(18))}
=============================================================================
