----------------------------- MODULE IsoVolume -----------------------------
(***************************************************************************)
(* One volume of the daemon from the attachment of its image to the bytes  *)
(* a program reads from its files (daemon/attach.c, openclos.c, fileio.c,  *)
(* dir.c).                                                                 *)
(*                                                                         *)
(* The search for a Joliet descriptor is a step per block; everything else *)
(* is a step per request.  Which requests the daemon gets, and in which    *)
(* order, is the business of StubFsd and Volumes.                          *)
(***************************************************************************)
EXTENDS IsoAccess

CONSTANTS
  Attachments,  \* set of [img, charset, iOffset]: what FS_ATTACH may ask for
  SystemCp,     \* the process code page, as "cpNNN"
  Paths,        \* function: the paths that are opened on an image
  Lengths,      \* lengths of reads
  Offsets       \* offsets of seeks

ASSUME LengthsAssumption == Lengths \subseteq Nat
ASSUME OffsetsAssumption == Offsets \subseteq -HighBit .. HighBit - 1

VARIABLES
  st,      \* "detached", "scanning", "mounted"
  parms,   \* the IFS_ATTACH of the volume
  block,   \* block of the search
  jpd,     \* the descriptor read last
  vol,     \* VolData, as far as it concerns the image
  file,    \* the open file: iExtent and sfi_size
  sfi_position,
  last     \* the last read: from where, how much was asked for, what came

volvars == <<st, parms, block, jpd, vol, file, sfi_position, last>>

NoParms == [img |-> "none", charset |-> "", iOffset |-> 0]
NoVol   == [img |-> "none", nls |-> NoTable,
            high_sierra |-> FALSE, ucs_level |-> 0,
            iRootExtent |-> 0, iRootSize |-> 0]
NoFile  == [iExtent |-> -1, sfi_size |-> 0]
NoRead  == [from |-> 0, asked |-> 0, bytes |-> <<>>]

Init ==
  /\ st = "detached" /\ parms = NoParms /\ block = 0 /\ jpd = NoDesc
  /\ vol = NoVol /\ file = NoFile /\ sfi_position = 0 /\ last = NoRead

-----------------------------------------------------------------------------
(* Attaching *)

\* checkCpSupport: the code pages there are tables of
CpSupported == {"cp437", "cp737", "cp775", "cp850", "cp852", "cp855", "cp857",
                "cp860", "cp861", "cp862", "cp863", "cp864", "cp865", "cp866",
                "cp869", "cp874"}

\* "Load translation table"; without one the volume is attached all the same.
NlsFor(charset) ==
  IF charset # "" THEN load_nls(charset)
  ELSE IF SystemCp \in CpSupported THEN load_nls(SystemCp) ELSE NoTable

NewVolume(p, hs, ucs, root) ==
  [img |-> p.img, nls |-> NlsFor(p.charset), high_sierra |-> hs,
   ucs_level |-> ucs, iRootExtent |-> root.extent, iRootSize |-> root.size]

\* The first half of attachVolume, up to the search; refusals change nothing.
AttachVolume(p) ==
  /\ st = "detached"
  /\ p.iOffset >= 0 /\ p.img \in DOMAIN Stored
  /\ LET ipd == ReadDesc(p.img, 16 + p.iOffset, NoDesc)
     IN  \/ /\ IsHighSierra(ipd)
            /\ st' = "mounted" /\ vol' = NewVolume(p, TRUE, 0, ipd.root)
            /\ UNCHANGED <<block, jpd>>
         \/ /\ IsPrimary(ipd)
            /\ st' = "scanning" /\ block' = 16 /\ jpd' = ipd
            /\ UNCHANGED vol
  /\ parms' = p
  /\ UNCHANGED <<file, sfi_position, last>>

\* Mutation: the descriptor after the primary one is not looked at.
ScanEverySecond ==
  /\ st = "scanning" /\ GoesOn(jpd) /\ ~IsJoliet(jpd)
  /\ block' = Min2(block + 2, LastSector(parms.img) + 1)
  /\ jpd' = ReadDesc(parms.img, parms.iOffset + block', jpd)
  /\ UNCHANGED <<st, parms, vol, file, sfi_position, last>>

\* Mutation: the search reads the block it has read.
ScanOnTheSpot ==
  /\ st = "scanning" /\ GoesOn(jpd) /\ ~IsJoliet(jpd)
  /\ jpd' = ReadDesc(parms.img, parms.iOffset + block, jpd)
  /\ UNCHANGED <<st, parms, block, vol, file, sfi_position, last>>

\* The body of the search.  The block number stops counting, in the model,
\* when it is beyond the end of the image.
ScanDescriptor ==
  /\ st = "scanning" /\ GoesOn(jpd) /\ ~IsJoliet(jpd)
  /\ block' = Min2(block + 1, LastSector(parms.img) + 1)
  /\ jpd' = ReadDesc(parms.img, parms.iOffset + block', jpd)
  /\ UNCHANGED <<st, parms, vol, file, sfi_position, last>>

\* The second half of attachVolume
Mount ==
  /\ st = "scanning" /\ (~GoesOn(jpd) \/ IsJoliet(jpd))
  /\ st' = "mounted"
  /\ LET ipd == ReadDesc(parms.img, 16 + parms.iOffset, NoDesc)
     IN  vol' = IF GoesOn(jpd) /\ IsJoliet(jpd)
                THEN NewVolume(parms, FALSE, UcsLevel(jpd.esc), jpd.root)
                ELSE NewVolume(parms, FALSE, 0, ipd.root)
  /\ UNCHANGED <<parms, block, jpd, file, sfi_position, last>>

\* detachVolume, not by force
DetachVolume ==
  /\ st = "mounted" /\ file = NoFile
  /\ st' = "detached" /\ vol' = NoVol /\ parms' = NoParms
  /\ block' = 0 /\ jpd' = NoDesc /\ last' = NoRead
  /\ UNCHANGED <<file, sfi_position>>

-----------------------------------------------------------------------------
(* Opening and closing a file *)

\* fsOpenCreate opens what exists, is a regular file, and is to be read or
\* executed; every other request is refused and changes nothing.
OpenCreate(path) ==
  /\ st = "mounted" /\ file = NoFile
  /\ LET e == isoQueryIsoEntryFromPath(vol, path)
     IN  /\ e # NotFound /\ ~e.dir
         /\ file' = [iExtent |-> e.iExtent, sfi_size |-> e.iSize]
  /\ sfi_position' = 0 /\ last' = NoRead
  /\ UNCHANGED <<st, parms, block, jpd, vol>>

Close ==
  /\ file # NoFile
  /\ file' = NoFile /\ sfi_position' = 0 /\ last' = NoRead
  /\ UNCHANGED <<st, parms, block, jpd, vol>>

-----------------------------------------------------------------------------
(* Reading *)

\* Mutation: the end of the file is the only limit.
AvailableToEnd(asked) ==
  IF file.sfi_size > sfi_position THEN file.sfi_size - sfi_position ELSE 0

\* The bytes there are between the position and the end of the file
Available(asked) ==
  IF file.sfi_size > sfi_position
  THEN Min2(asked, file.sfi_size - sfi_position) ELSE 0

\* Mutation: after the first block, the offset in it is taken off once more.
SecondOffset(cbLen) ==
  LET start  == file.iExtent + sfi_position \div SectorSize
      offset == sfi_position % SectorSize
      first  == Min2(SectorSize - offset, cbLen)
      buff0  == ReadBytes(vol.img, start, SectorSize, NewBuffer)
      rest   == [i \in 1 .. cbLen - first |->
                   LET b == (offset + i - 1) \div SectorSize
                   IN  ReadBytes(vol.img, start + 1 + b, SectorSize, NewBuffer)
                         [((offset + i - 1) % SectorSize) + 1]]
  IN  SubSeq(buff0, offset + 1, offset + first) \o rest

\* What fsRead copies to the caller for cbLen bytes: part of a first block,
\* then block after block through the same buffer.
Copied(cbLen) ==
  LET start  == file.iExtent + sfi_position \div SectorSize
      offset == sfi_position % SectorSize
      first  == Min2(SectorSize - offset, cbLen)
      buff0  == ReadBytes(vol.img, start, SectorSize, NewBuffer)
      loop[k \in 0 .. Sectors(cbLen)] ==
        IF k = 0 THEN [buff |-> buff0, left |-> cbLen - first,
                       out |-> SubSeq(buff0, offset + 1, offset + first)]
        ELSE LET prev   == loop[k - 1]
                 toRead == Min2(SectorSize, prev.left)
                 buff   == ReadBytes(vol.img, start + k, toRead, prev.buff)
             IN  IF prev.left = 0 THEN prev
                 ELSE [buff |-> buff, left |-> prev.left - toRead,
                       out |-> prev.out \o SubSeq(buff, 1, toRead)]
  IN  loop[Sectors(cbLen)].out

\* fsRead
Read(asked) ==
  /\ st = "mounted" /\ file # NoFile
  /\ LET bytes == Copied(Available(asked))
     IN  /\ last' = [from |-> sfi_position, asked |-> asked, bytes |-> bytes]
         /\ sfi_position' = sfi_position + Len(bytes)
  /\ UNCHANGED <<st, parms, block, jpd, vol, file>>

-----------------------------------------------------------------------------
(* Seeking *)

Range32 == 2 * HighBit
AsLong(u)  == IF u >= HighBit THEN u - Range32 ELSE u
AsUlong(n) == n % Range32

\* Mutation: the target is compared with zero as an unsigned number.
UnsignedTarget(from, ibOffset) == AsUlong(AsLong(from) + ibOffset)

\* lNewPos
Target(from, ibOffset) == AsLong(AsUlong(AsLong(from) + ibOffset))

\* fsChgFilePtr
ChgFilePtr(usType, ibOffset) ==
  /\ st = "mounted" /\ file # NoFile
  /\ \/ /\ usType = "FILE_BEGIN"
        /\ sfi_position' = AsUlong(ibOffset)
     \/ /\ usType = "FILE_CURRENT" /\ Target(sfi_position, ibOffset) >= 0
        /\ sfi_position' = Target(sfi_position, ibOffset)
     \/ /\ usType = "FILE_END" /\ Target(file.sfi_size, ibOffset) >= 0
        /\ sfi_position' = Target(file.sfi_size, ibOffset)
  /\ last' = NoRead
  /\ UNCHANGED <<st, parms, block, jpd, vol, file>>

SeekTypes == {"FILE_BEGIN", "FILE_CURRENT", "FILE_END"}

Next ==
  \/ \E p \in Attachments : AttachVolume(p)
  \/ ScanDescriptor \/ Mount \/ DetachVolume
  \/ st = "mounted" /\ \E path \in Paths[parms.img] : OpenCreate(path)
  \/ Close
  \/ \E n \in Lengths : Read(n)
  \/ \E t \in SeekTypes, o \in Offsets : ChgFilePtr(t, o)

\* The search is one loop of the daemon, which nothing stops but its end.
Spec     == Init /\ [][Next]_volvars
FairSpec == Spec /\ WF_volvars(ScanDescriptor) /\ WF_volvars(Mount)
=============================================================================
