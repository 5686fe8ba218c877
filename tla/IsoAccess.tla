----------------------------- MODULE IsoAccess -----------------------------
(***************************************************************************)
(* Directories and paths of an ISO9660 image (daemon/isoacces.c).          *)
(*                                                                         *)
(* An image is [last, desc, recs, bytes]: its last sector, and what each   *)
(* sector is as a volume descriptor, as a part of a directory and as data; *)
(* sectors that are not in these functions are empty.  A directory record  *)
(* is [kind, name, dir, hsdir, extent, size]: kind is "self", "parent" or  *)
(* "named"; name is a sequence of bytes, or of 16-bit units on a Joliet    *)
(* volume; dir and hsdir are the directory flag where ISO9660 and High     *)
(* Sierra have it.  A volume is [img, nls, high_sierra, ucs_level,         *)
(* iRootExtent, iRootSize], img being the name of the image file.          *)
(***************************************************************************)
EXTENDS NlsBase, Integers

CONSTANTS
  SectorSize,   \* 2048 in the code
  HighBit,      \* value of the highest bit of a ULONG; 2^31 in the code
  Images        \* function: the image files there are

ASSUME SectorSizeAssumption == SectorSize \in Nat \ {0}
ASSUME HighBitAssumption    == HighBit \in Nat \ {0}

NoDesc == [type |-> "none", id |-> "none", version |-> 0, esc |-> "none",
           root |-> [extent |-> 0, size |-> 0]]
Zeros  == [i \in 1 .. SectorSize |-> 0]

\* TLC evaluates a definition once, a constant that is given one every time.
Stored == Images

LastSector(img)  == Stored[img].last
At(f, n, empty)  == IF n \in DOMAIN f THEN f[n] ELSE empty

\* read() beyond the end of the image leaves the buffer as it is.
ReadDesc(img, n, buffer) ==
  IF n <= LastSector(img) THEN At(Stored[img].desc, n, NoDesc) ELSE buffer
ReadRecs(img, n, buffer) ==
  IF n <= LastSector(img) THEN At(Stored[img].recs, n, <<>>) ELSE buffer

\* The first len bytes of a block, over what the buffer held
Junk      == -1        \* a byte of a buffer nobody has written
NewBuffer == [i \in 1 .. SectorSize |-> Junk]
ReadBytes(img, n, len, buffer) ==
  IF n > LastSector(img) THEN buffer
  ELSE [i \in 1 .. SectorSize |->
          IF i <= len THEN At(Stored[img].bytes, n, Zeros)[i] ELSE buffer[i]]

Min2(a, b) == IF a < b THEN a ELSE b
Sectors(len) == (len + SectorSize - 1) \div SectorSize

-----------------------------------------------------------------------------
(* Volume descriptors, the same tests in attach.c and isoinfo.c *)

IsHighSierra(d) == d.type = "primary" /\ d.id = "CDROM" /\ d.version = 1
IsPrimary(d)    == d.type = "primary" /\ d.id = "CD001" /\ d.version = 1

\* The condition of the search for a Joliet descriptor
GoesOn(d) == d.type # "end" /\ d.id = "CD001" /\ d.version = 1

\* The escape sequences %/@, %/C and %/E, followed by a zero or a blank
UcsLevel(esc) == CASE esc = "%/@" -> 1 [] esc = "%/C" -> 2
                   [] esc = "%/E" -> 3 [] OTHER -> 0
IsJoliet(d) == d.type = "supplementary" /\ UcsLevel(d.esc) # 0

-----------------------------------------------------------------------------
(* Names *)

Underscore == 95
Dot        == 46
Semicolon  == 59

\* A C string ends at its first zero.
CString(s) ==
  IF \E i \in DOMAIN s : s[i] = 0
  THEN SubSeq(s, 1, (CHOOSE i \in DOMAIN s :
                       s[i] = 0 /\ \A j \in 1 .. (i - 1) : s[j] # 0) - 1)
  ELSE s

\* One unit by the table; what the table has no character for is '_'.
ToChar(nls, unit) ==
  LET c == uni2char(nls, unit) IN IF c = 0 THEN Underscore ELSE c

\* The name as getDirEntries copies it from the record
RawName(vol, rec) ==
  IF rec.kind = "self" THEN <<Dot>>
  ELSE IF rec.kind = "parent" THEN <<Dot, Dot>>
  ELSE IF vol.ucs_level = 0 THEN CString(rec.name)
  ELSE IF vol.nls # NoTable
       THEN CString([i \in DOMAIN rec.name |-> ToChar(vol.nls, rec.name[i])])
  ELSE CString([i \in DOMAIN rec.name |-> rec.name[i] % 256])

\* idr->name_len
NameLen(vol, rec) ==
  IF rec.kind # "named" THEN 1
  ELSE IF vol.ucs_level = 0 THEN Len(rec.name) ELSE 2 * Len(rec.name)

\* Mutation: the version is cut off, a dot before it is left.
WithoutVersionOnly(s, name_len) ==
  LET semi == SelectLastInSeq(s, LAMBDA c : c = Semicolon)
  IN  IF semi = 0 THEN s ELSE SubSeq(s, 1, semi - 1)

\* "Build name": without the version, and without the dot that is then last
BuildName(s, name_len) ==
  LET semi == SelectLastInSeq(s, LAMBDA c : c = Semicolon)
      base == IF semi = 0 THEN s ELSE SubSeq(s, 1, semi - 1)
  IN  IF name_len > 1 /\ base # <<>> /\ Last(base) = Dot
      THEN Front(base) ELSE base

\* Mutation: the flags are always taken from where ISO9660 has them.
IsoFlags(vol, rec) == rec.dir

IsDirectory(vol, rec) == IF vol.high_sierra THEN rec.hsdir ELSE rec.dir

Entry(vol, rec) ==
  [chrName |-> BuildName(RawName(vol, rec), NameLen(vol, rec)),
   iExtent |-> rec.extent, iSize |-> rec.size,
   dir     |-> IsDirectory(vol, rec)]

-----------------------------------------------------------------------------
(* Directories and paths *)

\* Mutation: the rest of a directory after its first sector is left out.
OneSectorOnly(vol, extent, len) ==
  LET recs == ReadRecs(vol.img, extent, <<>>)
  IN  IF len > 0 THEN [i \in DOMAIN recs |-> Entry(vol, recs[i])] ELSE <<>>

\* The entries of a directory, sector by sector.  The buffer is kept from one
\* sector to the next, and empty at first.  The length is an int: with its
\* highest bit set it is below zero.
getDirEntries(vol, extent, len) ==
  LET read[k \in 0 .. Sectors(len)] ==
        IF k = 0 THEN [buffer |-> <<>>, entries |-> <<>>]
        ELSE LET prev == read[k - 1]
                 recs == ReadRecs(vol.img, extent + k - 1, prev.buffer)
             IN  [buffer  |-> recs,
                  entries |-> prev.entries
                              \o [i \in DOMAIN recs |-> Entry(vol, recs[i])]]
  IN  IF 0 < len /\ len < HighBit THEN read[Sectors(len)].entries ELSE <<>>

Separators == {92, 47}      \* IS_PATH_SEPARATOR: \ and /

\* The components of a path; separators may come in any number.  Where the scan
\* is, there are the parts before, and the part it is in.
Ended(at) == IF at.part = <<>> THEN at.parts ELSE Append(at.parts, at.part)

Components(path) ==
  LET scan[k \in 0 .. Len(path)] ==
        IF k = 0 THEN [parts |-> <<>>, part |-> <<>>]
        ELSE IF path[k] \in Separators
             THEN [parts |-> Ended(scan[k - 1]), part |-> <<>>]
             ELSE [parts |-> scan[k - 1].parts,
                   part  |-> Append(scan[k - 1].part, path[k])]
  IN  Ended(scan[Len(path)])

\* strnicmp and equal lengths
Lower(c) == IF c \in 65 .. 90 THEN c + 32 ELSE c
SameName(a, b) ==
  /\ Len(a) = Len(b)
  /\ \A i \in DOMAIN a : Lower(a[i]) = Lower(b[i])

NotFound == [chrName |-> <<>>, iExtent |-> -1, iSize |-> 0, dir |-> FALSE]

FirstMatch(entries, name) ==
  LET i == SelectInSeq(entries, LAMBDA e : SameName(e.chrName, name))
  IN  IF i = 0 THEN NotFound ELSE entries[i]

RootEntry(vol) == [chrName |-> <<>>, iExtent |-> vol.iRootExtent,
                   iSize |-> vol.iRootSize, dir |-> TRUE]

\* The entry of a path.  That an inner component is a directory is not tested.
EntryIn(vol, in, name) ==
  IF in = NotFound THEN NotFound
  ELSE FirstMatch(getDirEntries(vol, in.iExtent, in.iSize), name)

isoQueryIsoEntryFromPath(vol, path) ==
  LET parts == Components(path)
      found[i \in 0 .. Len(parts)] ==
        IF i = 0 THEN RootEntry(vol) ELSE EntryIn(vol, found[i - 1], parts[i])
  IN  found[Len(parts)]

\* Mutation: the entry need not be a directory.
QueryExtentOfAny(vol, path) ==
  LET e == isoQueryIsoEntryFromPath(vol, path)
  IN  [iExtent |-> IF e = NotFound THEN 0 ELSE e.iExtent, iSize |-> e.iSize]

\* Extent and size of a directory; extent zero is both "not found" and "still
\* at the root".
EntriesAt(vol, at) ==
  IF at.iExtent = 0 THEN getDirEntries(vol, vol.iRootExtent, vol.iRootSize)
  ELSE getDirEntries(vol, at.iExtent, at.iSize)

Descend(at, e) == [ok |-> at.ok /\ e # NotFound /\ e.dir,
                   iExtent |-> e.iExtent, iSize |-> e.iSize]
DirectoryIn(vol, at, name) == Descend(at, FirstMatch(EntriesAt(vol, at), name))

DirExtent(vol, at) ==
  [iExtent |-> IF ~at.ok THEN 0
               ELSE IF at.iExtent = 0 THEN vol.iRootExtent ELSE at.iExtent,
   iSize   |-> IF at.ok THEN at.iSize ELSE 0]

isoQueryDirExtentFromPath(vol, path) ==
  LET parts == Components(path)
      found[i \in 0 .. Len(parts)] ==
        IF i = 0 THEN [ok |-> TRUE, iExtent |-> 0, iSize |-> vol.iRootSize]
        ELSE DirectoryIn(vol, found[i - 1], parts[i])
  IN  DirExtent(vol, found[Len(parts)])
=============================================================================
