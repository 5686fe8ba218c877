---------------------------- MODULE IsoContents ----------------------------
(***************************************************************************)
(* What an image contains, as the program that made it saw it, and that    *)
(* the daemon and isoinfo show just that.                                  *)
(*                                                                         *)
(* A master is [last, descs, dirs, per]: the last sector, the volume       *)
(* descriptors by sector, the files and directories in each directory, by  *)
(* its extent, in the order they were written, and how many directory      *)
(* records go into one sector.  A node is [id, name, dir, at, size]: its   *)
(* identifier on the disc, the name its author gave it, and where its data *)
(* is.  High Sierra volumes keep the flag of directories elsewhere.        *)
(***************************************************************************)
EXTENDS IsoVolume, Isoinfo

CONSTANT Masters    \* function: how each image was made

\* An extent and a size are 32-bit fields of their record.
Nodes == [id : Seq(Nat), name : Seq(Nat), dir : BOOLEAN, at : Nat,
          size : 0 .. Range32 - 1]
Descs == [type : {"primary", "supplementary", "boot", "end"}, id : STRING,
          version : Nat, esc : STRING,
          root : [extent : Nat, size : 0 .. Range32 - 1]]

ASSUME MastersAssumption ==
  \A i \in DOMAIN Masters :
    LET m == Masters[i]
    IN  /\ m.last \in Nat /\ m.per \in Nat \ {0}
        /\ \A e \in DOMAIN m.dirs : e \in Nat /\ m.dirs[e] \in Seq(Nodes)
        /\ \A n \in DOMAIN m.descs : n \in 0 .. m.last /\ m.descs[n] \in Descs

Made == Masters    \* evaluated once, like Stored

HS(m) == \E n \in DOMAIN m.descs : m.descs[n].id = "CDROM"

Special(kind, at) == [kind |-> kind, name |-> <<>>, dir |-> TRUE,
                      hsdir |-> TRUE, extent |-> at, size |-> 0]

RecordOf(m, node) ==
  [kind |-> "named", name |-> node.id, dir |-> node.dir /\ ~HS(m),
   hsdir |-> node.dir /\ HS(m), extent |-> node.at, size |-> node.size]

\* A record that happens to be where a file is
Garbage == [kind |-> "named", name |-> <<255, 254>>, dir |-> TRUE,
            hsdir |-> TRUE, extent |-> 0, size |-> 1]

\* The nodes of one directory, and all
NodesOf(m, extent) == At(m.dirs, extent, <<>>)
AllNodes(m) == UNION {Range(m.dirs[e]) : e \in DOMAIN m.dirs}

DirRecords(m, extent) ==
  <<Special("self", extent), Special("parent", extent)>>
  \o [i \in DOMAIN NodesOf(m, extent) |-> RecordOf(m, NodesOf(m, extent)[i])]

\* The bytes of a sector are numbered through the image, so that no two
\* places look alike.
ByteAt(sector, i) == sector * SectorSize + i

\* The sectors of one directory
DirSectors(m, extent) ==
  LET r == DirRecords(m, extent)
  IN  [n \in extent .. (extent + (Len(r) - 1) \div m.per) |->
         SubSeq(r, (n - extent) * m.per + 1,
                Min2((n - extent + 1) * m.per, Len(r)))]

ImageOf(m) ==
  [last  |-> m.last,
   desc  |-> m.descs,
   recs  |-> LET dirs == {DirSectors(m, e) : e \in DOMAIN m.dirs}
             IN  [n \in (UNION {DOMAIN d : d \in dirs})
                        \cup {node.at : node \in AllNodes(m)} |->
                    IF \E d \in dirs : n \in DOMAIN d
                    THEN (CHOOSE d \in dirs : n \in DOMAIN d)[n]
                    ELSE <<Garbage>>],
   bytes |-> [n \in 0 .. m.last |->
                [i \in 1 .. SectorSize |-> ByteAt(n, i)]]]

ASSUME ImagesAssumption ==
  \A i \in DOMAIN Images :
    i \in DOMAIN Masters /\ Images[i] = ImageOf(Masters[i])

ASSUME RequestsAssumption ==
  /\ \A p \in Attachments : p.iOffset \in Int
  /\ \A i \in DOMAIN Images : Paths[i] \subseteq Seq(Nat)

-----------------------------------------------------------------------------
(* The names and paths of a master *)

\* The characters of a character set, by their code points
Alphabets ==
  [nls \in ToSet(init_nls) |->
     LET unit == [c \in 1 .. 255 |-> char2uni(nls, c)]
     IN  [u \in Range(unit) |-> CHOOSE c \in 1 .. 255 : unit[c] = u]]

\* How a unit of a name is to be seen: on a Joliet volume as the character the
\* character set has for it, or as '_'; without a table, as its low byte.
CharOf(v, u) ==
  IF v.ucs_level = 0 THEN u
  ELSE IF v.nls = NoTable THEN u % 256
  ELSE At(Alphabets[v.nls], u, Underscore)
Shows(v, name) == [i \in DOMAIN name |-> CharOf(v, name[i])]

\* The names that are to be seen
Visible(v, nodes) == [node \in nodes |-> Shows(v, node.name)]

NodesIn(m, extent) == Range(NodesOf(m, extent))

NoNode == [id |-> <<>>, name |-> <<>>, dir |-> FALSE,
           at |-> -1, size |-> 0]
RootNode(v) == [NoNode EXCEPT !.dir = TRUE, !.at = v.iRootExtent,
                              !.size = v.iRootSize]

\* The node a path leads to, from directory to directory
Named(seen, name) ==
  LET hits == {n \in DOMAIN seen : SameName(seen[n], name)}
  IN  IF hits = {} THEN NoNode ELSE CHOOSE n \in hits : TRUE
NodeIn(m, v, in, name) ==
  Named(Visible(v, IF in.dir THEN NodesIn(m, in.at) ELSE {}), name)

NodeOf(m, v, path) ==
  LET parts == Components(path)
      walk[i \in 0 .. Len(parts)] ==
        IF i = 0 THEN RootNode(v) ELSE NodeIn(m, v, walk[i - 1], parts[i])
  IN  walk[Len(parts)]

-----------------------------------------------------------------------------
(* What is to hold *)

Mounted == st = "mounted"

\* isoinfo changes nothing of the volume: what is said of the volume alone is
\* looked at while isoinfo does not run and no file is open.
Quiet == Mounted /\ ipc = "off" /\ file = NoFile

Master == Made[parms.img]

TypeOK ==
  /\ st \in {"detached", "scanning", "mounted"}
  /\ parms \in Attachments \cup {NoParms}
  /\ block \in Nat
  /\ st = "scanning" => jpd.type \in {"primary", "supplementary", "boot", "end", "none"}
  /\ file.sfi_size \in 0 .. Range32 - 1
  /\ sfi_position \in 0 .. Range32 - 1
  /\ Len(last.bytes) <= last.asked
  /\ ipc \in {"off", "scan", "list", "done", "failed"}
  /\ opt \in Commands \cup {NoOpt}

\* The entry the daemon found, and the node its author made
SamePlace(e, n) ==
  IF e = NotFound THEN n = NoNode
  ELSE e.iExtent = n.at /\ e.iSize = n.size /\ e.dir = n.dir

\* A path leads to a file or directory exactly if its author put one there,
\* and to that one: whatever the case, the number of separators, the version
\* numbers and dots of the identifiers, and the sector its record is in
\* (isoQueryIsoEntryFromPath).
PathsResolve ==
  Quiet => \A path \in Paths[parms.img] :
    SamePlace(isoQueryIsoEntryFromPath(vol, path), NodeOf(Master, vol, path))

SameDirectory(d, n) ==
  IF n.dir THEN d.iExtent = n.at /\ d.iSize = n.size ELSE d.iExtent = 0

\* The other resolution, for searches and changes of the directory, finds the
\* directories among them (isoQueryDirExtentFromPath).
DirectoriesResolve ==
  Quiet => \A path \in Paths[parms.img] :
    SameDirectory(isoQueryDirExtentFromPath(vol, path),
                  NodeOf(Master, vol, path))

\* The names a Joliet volume shows are those its author gave: every character
\* the character set has is that character, and the others are '_'
\* (getDirEntries and the tables of libunls).
NamesExact ==
  Quiet /\ vol.ucs_level > 0 /\ vol.nls # NoTable =>
    LET entries == getDirEntries(vol, vol.iRootExtent, vol.iRootSize)
        seen    == Visible(vol, NodesIn(Master, vol.iRootExtent))
    IN  {entries[i].chrName : i \in DOMAIN entries} \ {<<Dot>>, <<Dot, Dot>>}
        = {seen[n] : n \in DOMAIN seen}

\* The Joliet descriptors from sector first on, before a sector that is no
\* descriptor or ends the list
JolietFrom(m, first) ==
  {n \in DOMAIN m.descs :
     /\ n >= first /\ IsJoliet(m.descs[n])
     /\ \A s \in first .. n : s \in DOMAIN m.descs /\ GoesOn(m.descs[s])}

\* The descriptor a volume is to be read by
Used(m, first) ==
  LET hits == JolietFrom(m, first)
  IN  IF hits = {} THEN first ELSE CHOOSE n \in hits : \A h \in hits : n <= h

\* A volume is read as Joliet if there is a Joliet descriptor before the
\* terminator of its session, and by the first one; otherwise by its primary
\* descriptor (attachVolume).
JolietPreferred ==
  Mounted =>
    LET first == 16 + parms.iOffset
    IN  /\ vol.iRootExtent = Master.descs[Used(Master, first)].root.extent
        /\ vol.ucs_level > 0 <=> JolietFrom(Master, first) # {}

\* The search for descriptors ends if the descriptors of the image do.
ScanEnds ==
  st = "scanning" /\ (\E n \in DOMAIN Master.descs :
                        n >= 16 + parms.iOffset /\ ~GoesOn(Master.descs[n]))
    ~> st # "scanning"

\* The file that is open lies within the image.
WithinImage(extent, size) == extent + Sectors(size) - 1 <= Master.last

\* What a read returns are the bytes of the file from the position on, as many
\* as were asked for or as there are, across blocks and after any seeks.
ReadsAreContent ==
  last # NoRead /\ WithinImage(file.iExtent, file.sfi_size) =>
    /\ Len(last.bytes) =
         IF last.from >= file.sfi_size THEN 0
         ELSE Min2(last.asked, file.sfi_size - last.from)
    /\ \A i \in DOMAIN last.bytes :
         last.bytes[i] = ByteAt(file.iExtent, last.from + i)
    /\ sfi_position = last.from + Len(last.bytes)

\* A seek relative to a place in the lower half of the range, where positions
\* and LONGs are the same, ends where it should, and in that half
\* (fsChgFilePtr).
SeeksLand ==
  [][\A t \in {"FILE_CURRENT", "FILE_END"}, o \in Offsets :
       LET from == IF t = "FILE_END" THEN file.sfi_size ELSE sfi_position
       IN  from < HighBit =>
             (ChgFilePtr(t, o) => /\ sfi_position' = from + o
                                  /\ sfi_position' < HighBit)
    ]_volvars

-----------------------------------------------------------------------------
(* Images that are written as ISO9660 and Joliet ask for.  What follows is   *)
(* what the theorems about names and paths take for granted of the images.   *)

\* The volume an image is attached as
VolumeFor(p) ==
  LET m     == Made[p.img]
      first == 16 + p.iOffset
      d     == m.descs[Used(m, first)]
  IN  NewVolume(p, IsHighSierra(m.descs[first]),
                IF IsJoliet(d) THEN UcsLevel(d.esc) ELSE 0, d.root)

\* An identifier is the name, and behind it a dot, or a version, or both.
Identifies(id, name) ==
  LET n == Len(name)
  IN  /\ n > 0 /\ n <= Len(id) /\ SubSeq(id, 1, n) = name
      /\ name[n] # Dot
      /\ \A i \in 1 .. Len(id) : id[i] # 0
      /\ \E cut \in {n, n + 1} :
           /\ cut = n + 1 => cut <= Len(id) /\ id[cut] = Dot
           /\ cut < Len(id) => id[cut + 1] = Semicolon
           /\ \A i \in 1 .. Len(id) : i # cut + 1 => id[i] # Semicolon

\* The name can be told from the identifier, in the character set of the volume.
NodeWritten(v, node) == Identifies(Shows(v, node.id), Shows(v, node.name))

\* For the characters of the image, the table from Unicode has what the table to
\* Unicode has.
TableExact(m, v) ==
  v.ucs_level > 0 /\ v.nls # NoTable =>
    \A node \in AllNodes(m) : \A i \in DOMAIN node.id :
      ToChar(v.nls, node.id[i]) = CharOf(v, node.id[i])

\* The sectors something takes, and those a directory of the image takes
Extent(at, size)    == at .. (at + Sectors(size) - 1)
DirExtentOf(m, e)   == e .. (e + (Len(NodesOf(m, e)) + 1) \div m.per)

IsDirAt(m, at, size) ==
  /\ at \in DOMAIN m.dirs /\ at # 0 /\ 0 < size /\ size < HighBit
  /\ Extent(at, size) = DirExtentOf(m, at)
  /\ at + Sectors(size) - 1 <= m.last

NoDirAt(m, at, size) ==
  \A e \in DOMAIN m.dirs : Extent(at, size) \cap DirExtentOf(m, e) = {}

\* dirs are the directories of a volume: the root, and those in them.
IsTree(m, v, dirs) ==
  /\ v.iRootExtent \in dirs /\ IsDirAt(m, v.iRootExtent, v.iRootSize)
  /\ \A e \in dirs : \A node \in NodesIn(m, e) :
       /\ NodeWritten(v, node)
       /\ IF node.dir THEN node.at \in dirs /\ IsDirAt(m, node.at, node.size)
          ELSE NoDirAt(m, node.at, node.size)

\* Names are told apart without regard to case, and the paths that are asked for
\* have no components that are not names.
Unambiguous(m, v, dirs) ==
  /\ \A e \in dirs : \A a, b \in NodesIn(m, e) :
       SameName(Shows(v, a.name), Shows(v, b.name)) => a = b
  /\ \A path \in Paths[v.img] : \A c \in Range(Components(path)) :
       \A odd \in {<<Dot>>, <<Dot, Dot>>, Entry(v, Garbage).chrName} :
         ~SameName(odd, c)

\* The directories of an image share no sectors.
DirsApart(m) ==
  \A e, f \in DOMAIN m.dirs :
    e # f => DirExtentOf(m, e) \cap DirExtentOf(m, f) = {}

WrittenFor(m, v, dirs) ==
  DirsApart(m) /\ v.high_sierra = HS(m) /\ IsTree(m, v, dirs)

Mountable(p) == /\ p.iOffset >= 0 /\ p.img \in DOMAIN Masters
                /\ 16 + p.iOffset \in DOMAIN Made[p.img].descs

\* Of these attachments, those with paths to look at are of such images,
WrittenForPaths(ps) ==
  \A p \in ps : Mountable(p) /\ Paths[p.img] # {} =>
    \E dirs \in SUBSET DOMAIN Made[p.img].dirs :
      /\ WrittenFor(Made[p.img], VolumeFor(p), dirs)
      /\ Unambiguous(Made[p.img], VolumeFor(p), dirs)

\* and those of Joliet volumes, for which names are looked at.
WrittenForNames(ps) ==
  \A p \in ps :
    Mountable(p) /\ VolumeFor(p).ucs_level > 0 /\ VolumeFor(p).nls # NoTable =>
      \E dirs \in SUBSET DOMAIN Made[p.img].dirs :
        WrittenFor(Made[p.img], VolumeFor(p), dirs)

\* A directory is in one directory, and the root is in none.
EachInOne(m, v, dirs) ==
  \A e, f \in dirs :
    \A i \in DOMAIN NodesOf(m, e), j \in DOMAIN NodesOf(m, f) :
      LET a == NodesOf(m, e)[i]
          b == NodesOf(m, f)[j]
      IN  a.dir => /\ a.at # v.iRootExtent
                   /\ b.dir /\ a.at = b.at => e = f /\ i = j

\* Its nodes have names of their own, and identifiers without separators.
NamesTold(m, v, dirs) ==
  \A e \in dirs : \A i, j \in DOMAIN NodesOf(m, e) :
    LET a == NodesOf(m, e)[i]
        b == NodesOf(m, e)[j]
    IN  /\ SameName(Shows(v, a.name), Shows(v, b.name)) => i = j
        /\ \A c \in Range(Shows(v, a.id)) : c \notin Separators

FilesWithin(m, dirs) ==
  \A e \in dirs : \A node \in NodesIn(m, e) :
    ~node.dir => node.at + Sectors(node.size) - 1 <= m.last

WrittenToList(m, v, dirs) ==
  /\ WrittenFor(m, v, dirs) /\ EachInOne(m, v, dirs)
  /\ NamesTold(m, v, dirs) /\ FilesWithin(m, dirs)

\* The options are of the volume of an attachment.
OfVolume(o, p) ==
  /\ Mountable(p) /\ p.img = o.img /\ p.iOffset = o.T
  /\ LET d == Made[p.img].descs[16 + p.iOffset]
     IN  IsPrimary(d) \/ IsHighSierra(d)

\* Volumes that are attached and listed are of such images.
WrittenForIsoinfo(ps, cs) ==
  \A p \in ps, o \in cs : OfVolume(o, p) =>
    \E dirs \in SUBSET DOMAIN Made[p.img].dirs :
      WrittenToList(Made[p.img], VolumeFor(p), dirs)

\* That the tables are exact is what NamesExact shows of all but one.
TablesExact(ps) ==
  \A p \in ps : Mountable(p) => TableExact(Made[p.img], VolumeFor(p))

-----------------------------------------------------------------------------
(* isoinfo beside the daemon *)

SameView == /\ parms.img = opt.img /\ parms.iOffset = opt.T
            /\ disk.nls = vol.nls /\ disk.ucs_level = vol.ucs_level

\* The components of a printed line, as the daemon would name them
Shown(name) ==
  LET parts == Components(name)
      path[i \in 0 .. Len(parts)] ==
        IF i = 0 THEN <<>> ELSE path[i - 1] \o <<92>> \o BuildName(parts[i], 2)
  IN  path[Len(parts)]

\* The directories below root, which are in every set that has root and, with a
\* directory, those in it; and the places of what is in them
Closed(m, dirs) ==
  \A e \in dirs : \A node \in NodesIn(m, e) : node.dir => node.at \in dirs
DirsBelow(m, root) ==
  {e \in DOMAIN m.dirs : \A dirs \in SUBSET DOMAIN m.dirs :
                           root \in dirs /\ Closed(m, dirs) => e \in dirs}
Within(m, root) ==
  UNION {{e} \X DOMAIN NodesOf(m, e) : e \in DirsBelow(m, root)}

\* What isoinfo lists is what the daemon finds: every line, without version
\* numbers, is a path to the same extent, and there is one line for every file
\* and directory.  Nothing is said of a run that has gone through memory it had
\* freed, as it does when any directory but the root and the first in it has
\* directories (main and parse_dir of isoinfo.c).
IsoinfoAgrees ==
  ipc = "done" /\ ~astray /\ Mounted /\ SameView =>
    /\ \A i \in DOMAIN printed :
         isoQueryIsoEntryFromPath(vol, Shown(printed[i].name)).iExtent
           = printed[i].extent
    /\ Len(printed) = Cardinality(Within(Master, vol.iRootExtent))

\* isoinfo -x writes the bytes of the file that is asked for, and no others; of a
\* file with 2^31 bytes or more it writes nothing.  A run that has gone through
\* freed memory is left out again (parse_dir, extract_file).
ExtractsContent ==
  ipc = "done" /\ ~astray /\ Mounted /\ SameView /\ opt.x # <<>> =>
    LET hits == {i \in DOMAIN printed : SameName(Tail(printed[i].name), opt.x)}
        n    == NodeOf(Master, vol, Shown(opt.x))
    IN  extracted = IF hits # {} /\ ~n.dir /\ n.size < HighBit
                    THEN [i \in 1 .. n.size |-> ByteAt(n.at, i)] ELSE <<>>

-----------------------------------------------------------------------------
(* Neither program changes what the other reads: isoinfo runs from beginning *)
(* to end while the volume is attached and no file is open.                  *)

\* The next invocation of isoinfo
Again ==
  /\ ipc \in {"done", "failed"}
  /\ ipc' = "off" /\ opt' = NoOpt /\ blk' = 0 /\ dsc' = NoDesc
  /\ disk' = NoDisk /\ todo' = <<>> /\ idr' = "null" /\ astray' = FALSE
  /\ buffer' = <<>> /\ printed' = <<>> /\ extracted' = <<>>

BothInit == Init /\ IInit
BothNext ==
  \/ ipc = "off" /\ Next /\ UNCHANGED isovars
  \/ Mounted /\ file = NoFile /\ (INext \/ Again) /\ UNCHANGED volvars
bothvars == <<volvars, isovars>>
BothSpec == /\ BothInit /\ [][BothNext]_bothvars
            /\ WF_bothvars(ScanDescriptor /\ UNCHANGED isovars)
            /\ WF_bothvars(Mount /\ UNCHANGED isovars)
=============================================================================
