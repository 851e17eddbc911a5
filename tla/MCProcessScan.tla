--------------------------- MODULE MCProcessScan ---------------------------
(***************************************************************************)
(* Small targets for ProcessScan: up to six pages that hold an image with  *)
(* a header and a code page, a second image, a private region, reserved    *)
(* and free pages.                                                         *)
(***************************************************************************)
EXTENDS ProcessScan

Prot(base) == [base |-> base, guard |-> FALSE]
Guarded(base) == [base |-> base, guard |-> TRUE]

Text == [name |-> ".text", first |-> 1, span |-> 1, write |-> FALSE, exec |-> TRUE]
Patch == [name |-> ".patch", first |-> 1, span |-> 2, write |-> TRUE, exec |-> TRUE]

Bytes(valid, identity, clr, tags, importPage, table, packed) ==
  [valid |-> valid, identity |-> identity, clr |-> clr, tags |-> tags,
   importPage |-> importPage, table |-> table, packed |-> packed]
Hollow == {"thread-context", "image-unmap"}

MCContents == {"zero", "packed", "app", "lib", "other", "clr", "selfmod"}
MCPe == [c \in MCContents |->
  CASE c = "zero"    -> Bytes(FALSE, 0, FALSE, {}, 0, <<>>, FALSE)
    [] c = "packed"  -> Bytes(FALSE, 0, FALSE, {}, 0, <<>>, TRUE)
    [] c = "app"     -> Bytes(TRUE, 1, FALSE, {"process-open"}, 0, <<Text>>, FALSE)
    [] c = "lib"     -> Bytes(TRUE, 2, FALSE, Hollow, 1, <<Text>>, FALSE)
    [] c = "other"   -> Bytes(TRUE, 3, FALSE, Hollow, 0, <<Patch, Text>>, TRUE)
    [] c = "clr"     -> Bytes(TRUE, 4, TRUE, {}, 0, <<>>, FALSE)
    [] c = "selfmod" -> Bytes(TRUE, 5, FALSE, {}, 0, <<Patch>>, FALSE)]

MCSections == {".text", ".patch"}

\* Files on two drives.  The name of the second device begins with that of the first,
\* or does not.
LibFile == <<"volume1", "\\", "lib.dll">>
RawFile == <<"volume1", "\\", "raw.bin">>
AppFile == <<"Volume2", "\\", "app.exe">>
AppOnTen == <<"volume1", "0", "\\", "app.exe">>
FilesApart == {LibFile, RawFile, AppFile}
FilesAlike == {LibFile, RawFile, AppOnTen}
DriveOf(letter, device) == [drive |-> letter, device |-> device]
DrivesApart == <<DriveOf("C:", <<"volume1">>), DriveOf("D:", <<"volume2">>)>>
DrivesAlike == <<DriveOf("C:", <<"volume1">>), DriveOf("D:", <<"volume1", "0">>)>>

Lib == <<"C:", "\\", "lib.dll">>
Raw == <<"C:", "\\", "raw.bin">>
App == <<"D:", "\\", "app.exe">>
LongApp == <<"/", "/", "?", "/", "D:", "/", "APP.exe">>
AppOnC == <<"C:", "0", "\\", "app.exe">>
Empty == <<>>
Unlisted == <<"notlisted">>
MCNames == {Lib, Raw, App, LongApp, AppOnC, AppFile}
MCLower == [q \in {"c:", "C:", "d:", "D:", "/", "\\", "?", "0", "volume1", "volume2", "Volume2",
                   "app.exe", "APP.exe", "lib.dll", "raw.bin"} |->
  CASE q = "C:" -> "c:" [] q = "D:" -> "d:" [] q = "Volume2" -> "volume2"
    [] q = "APP.exe" -> "app.exe" [] OTHER -> q]
MCPathsOf == [f \in Files |->
  CASE f = LibFile -> {Lib} [] f = RawFile -> {Raw} [] OTHER -> {App, LongApp}]

\* What can be opened: nothing under the path of a drive that it is not on.
MCDisk == [f \in MCNames |->
  CASE f = Lib -> [head |-> "lib", largeOverlay |-> TRUE]
    [] f \in {App, LongApp} -> [head |-> "app", largeOverlay |-> FALSE]
    [] OTHER -> [head |-> "zero", largeOverlay |-> FALSE]]

----------------------------------------------------------------------------
(* Address spaces, page by page. *)

Free == [st |-> "free", alloc |-> 0, type |-> "PRIVATE", protect |-> Prot("NOACCESS"),
         content |-> "zero", file |-> Empty]
Reserved(a) == [Free EXCEPT !.st = "reserve", !.alloc = a]
Image(a, file, protect, content) ==
  [st |-> "commit", alloc |-> a, type |-> "IMAGE", protect |-> protect, content |-> content,
   file |-> file]
Mapped(a, file, protect, content) == [Image(a, file, protect, content) EXCEPT !.type = "MAPPED"]
Private(a, protect, content) == [Image(a, Empty, protect, content) EXCEPT !.type = "PRIVATE"]

Space(pages) == [a \in Pages |-> IF a + 1 \in DOMAIN pages THEN pages[a + 1] ELSE Free]
Listed(list) == [a \in Pages |-> IF a \in DOMAIN list THEN list[a] ELSE Unlisted]
None == [a \in {} |-> 0]
Running(pages, list, starts) == [mem |-> Space(pages), ldr |-> Listed(list), threads |-> starts]
At(a, x) == [b \in {a} |-> x]

\* For the run in which the target stands still: the content and the protection
\* of two pages of an image and of a private page vary.
QuietTargets ==
  {Running(<<Image(0, AppFile, hp, hc), Image(0, AppFile, cp, "zero"),
             Private(2, pp, pc2), Mapped(3, RawFile, Prot("R"), "packed")>>,
           list, starts) :
     hp \in {Prot("R"), Prot("RWX"), Guarded("R")}, hc \in {"zero", "app", "other", "selfmod", "clr"},
     cp \in {Prot("RX"), Prot("XWC"), Prot("NOACCESS")},
     pp \in {Prot("RW"), Prot("RX"), Prot("RWX")}, pc2 \in {"zero", "packed", "lib"},
     list \in {At(0, App), At(0, LongApp), At(0, Lib), None}, starts \in {None, At("t1", 2)}}

\* For the runs in which the target acts.
LiveTargets ==
  {Running(<<Image(0, AppFile, Prot("R"), "app"), Image(0, AppFile, Prot("RWX"), "zero"),
             Free, Private(3, Prot("RX"), "packed")>>, At(0, App), None),
   Running(<<Private(0, Prot("RWX"), "other"), Private(0, Prot("RWX"), "zero"),
             Image(2, LibFile, Prot("R"), "lib"), Image(2, LibFile, Prot("XWC"), "packed")>>,
           At(2, Lib), At("t1", 0))}

\* An image on the drive whose device is told by a prefix of its name.
TenTargets ==
  {Running(<<Image(0, AppOnTen, Prot("R"), "app"), Image(0, AppOnTen, Prot("RX"), "zero")>>,
           At(0, App), None)}

LibImage == [file |-> LibFile, pages |-> <<[protect |-> Prot("R"), content |-> "lib"]>>]
MCNewImages == {LibImage}
MCNewProtections == {Prot("RWX"), Prot("NOACCESS")}
MCNewContents == {"zero", "other"}
NoFps == {}
AppOnlyFp == {<<ToLower(App), ToLower(App), "IMAGE", {"R", "W", "X"}, FALSE, ".text",
               {"Write+Exec", "ImageRWX", "SectionProtectionMismatch"}>>}
Probes31 == <<3, 1>>
Nothing == {}
RawOnly == {Raw}
=============================================================================
