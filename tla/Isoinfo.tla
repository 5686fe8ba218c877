------------------------------ MODULE Isoinfo ------------------------------
(***************************************************************************)
(* isoinfo -f and isoinfo -x (daemon/isoinfo.c): the names of all files    *)
(* and directories of an image, and the contents of one file.  The program *)
(* reads the image by itself and has its own copies of what the daemon     *)
(* does with descriptors, directory records and names.                     *)
(***************************************************************************)
EXTENDS IsoAccess

CONSTANT
  Commands    \* set of [img, J, charset, x, T]: the options -i, -J or -j, -x, -T

ASSUME CommandsAssumption == \A o \in Commands : o.x \in Seq(Nat)

VARIABLES
  ipc,       \* "off", "scan", "list", "done", "failed"
  opt,       \* the options
  blk, dsc,  \* block and descriptor of the search
  disk,      \* what the globals of isoinfo.c say of the image
  todo,      \* the directories to list, from the one that is listed next
  idr,       \* todo_idr: "null", the "list", or memory that has been "freed"
  astray,    \* history: a directory has been appended through freed memory
  buffer,    \* what the last sector of a directory that was read has left
  printed,   \* the lines of -f, each with the extent of its entry
  extracted  \* the output of -x

listvars == <<todo, idr, astray, buffer>>
isovars  == <<ipc, opt, blk, dsc, disk, todo, idr, astray, buffer, printed,
              extracted>>

NoOpt  == [img |-> "none", J |-> FALSE, charset |-> "", x |-> <<>>, T |-> 0]
NoDisk == [img |-> "none", nls |-> NoTable,
           high_sierra |-> FALSE, ucs_level |-> 0,
           iRootExtent |-> 0, iRootSize |-> 0]

IInit ==
  /\ ipc = "off" /\ opt = NoOpt /\ blk = 0 /\ dsc = NoDesc /\ disk = NoDisk
  /\ todo = <<>> /\ idr = "null" /\ astray = FALSE /\ buffer = <<>>
  /\ printed = <<>> /\ extracted = <<>>

\* With no charset iso8859-1; "default" is not in the list of tables.
NlsOption(charset) ==
  IF charset = "" THEN load_nls("iso8859-1")
  ELSE IF charset = "default" THEN load_nls_default ELSE load_nls(charset)

Described(hs, ucs, root) ==
  [img |-> opt.img, nls |-> NlsOption(opt.charset), high_sierra |-> hs,
   ucs_level |-> ucs, iRootExtent |-> root.extent, iRootSize |-> root.size]

\* The first directory to list, whose name ends in a separator already
RootToDo(d) == <<[name |-> <<92>>, extent |-> d.iRootExtent,
                  length |-> d.iRootSize]>>

\* main up to the descriptors; an unknown charset or a file that is no image
\* ends the program.
Start(o) ==
  /\ ipc = "off"
  /\ opt' = o
  /\ LET pvd == ReadDesc(o.img, 16 + o.T, NoDesc)
     IN  IF NlsOption(o.charset) = NoTable
            \/ (~IsHighSierra(pvd) /\ ~IsPrimary(pvd))
         THEN ipc' = "failed" /\ UNCHANGED <<blk, dsc>>
         ELSE ipc' = "scan" /\ blk' = 16 /\ dsc' = pvd
  /\ UNCHANGED <<disk, listvars, printed, extracted>>

\* The search for a Joliet descriptor, which -J and -j ask for
Search ==
  /\ ipc = "scan" /\ opt.J /\ GoesOn(dsc) /\ ~IsJoliet(dsc)
  /\ blk' = Min2(blk + 1, LastSector(opt.img) + 1)
  /\ dsc' = ReadDesc(opt.img, opt.T + blk', dsc)
  /\ UNCHANGED <<ipc, opt, disk, listvars, printed, extracted>>

\* The end of the search: the root directory to list, or no Joliet descriptor
OpenRoot ==
  /\ ipc = "scan"
  /\ LET pvd == ReadDesc(opt.img, 16 + opt.T, NoDesc)
     IN  \/ /\ IsHighSierra(pvd)
            /\ disk' = Described(TRUE, 0, pvd.root)
            /\ todo' = RootToDo(disk') /\ ipc' = "list"
         \/ /\ ~IsHighSierra(pvd) /\ ~opt.J
            /\ disk' = Described(FALSE, 0, pvd.root)
            /\ todo' = RootToDo(disk') /\ ipc' = "list"
         \/ /\ opt.J /\ GoesOn(dsc) /\ IsJoliet(dsc)
            /\ disk' = Described(FALSE, UcsLevel(dsc.esc), dsc.root)
            /\ todo' = RootToDo(disk') /\ ipc' = "list"
         \/ /\ ~IsHighSierra(pvd) /\ opt.J /\ ~GoesOn(dsc)
            /\ ipc' = "failed" /\ UNCHANGED <<disk, todo>>
  /\ UNCHANGED <<opt, blk, dsc, idr, astray, buffer, printed, extracted>>

-----------------------------------------------------------------------------
(* parse_dir *)

\* The records of a directory, through the buffer of the directory before; it
\* is not cleared.  The length is an int.
ReadDir(extent, len) ==
  LET read[k \in 0 .. Sectors(len)] ==
        IF k = 0 THEN [buffer |-> buffer, recs |-> <<>>]
        ELSE LET prev == read[k - 1]
                 b    == ReadRecs(disk.img, extent + k - 1, prev.buffer)
             IN  [buffer |-> b, recs |-> prev.recs \o b]
  IN  read[IF 0 < len /\ len < HighBit THEN Sectors(len) ELSE 0]

\* What -f prints of a record: the name as it is, version and all
Line(td, rec) == [name |-> td.name \o RawName(disk, rec), extent |-> rec.extent]

\* Mutation: a directory is taken to be one sector long.
ToDoWithoutLength(td, rec) ==
  [name |-> td.name \o RawName(disk, rec) \o <<92>>,
   extent |-> rec.extent, length |-> SectorSize]

\* A directory that is met is listed later.
ToDo(td, rec) ==
  [name |-> td.name \o RawName(disk, rec) \o <<92>>,
   extent |-> rec.extent, length |-> rec.size]

\* Mutation: the length of the last block is not looked at.
ExtractBlocks(rec) ==
  LET block(k) == ReadBytes(disk.img, rec.extent + k - 1, SectorSize, NewBuffer)
      out[k \in 0 .. Sectors(rec.size)] ==
        IF k = 0 THEN <<>> ELSE out[k - 1] \o block(k)
  IN  out[Sectors(rec.size)]

\* extract_file; the length is an int there, below zero from HighBit on.
ExtractFile(rec) ==
  LET loop[k \in 0 .. Sectors(rec.size)] ==
        IF k = 0 THEN [buff |-> NewBuffer, out |-> <<>>]
        ELSE LET prev == loop[k - 1]
                 tlen == Min2(SectorSize, rec.size - (k - 1) * SectorSize)
                 buff == ReadBytes(disk.img, rec.extent + k - 1, tlen, prev.buff)
             IN  [buff |-> buff, out |-> prev.out \o SubSeq(buff, 1, tlen)]
  IN  IF rec.size < HighBit THEN loop[Sectors(rec.size)].out ELSE <<>>

\* Names are compared with -x without the leading separator.
Wanted(td, rec) ==
  /\ opt.x # <<>>
  /\ SameName(opt.x, Tail(td.name \o RawName(disk, rec)))

\* What parse_dir makes of one record: a directory to list later, or, of what
\* is none, perhaps the file that is wanted; and a line, unless it is . or ..
Taken(td, rec, got) ==
  LET named == rec.kind = "named"
      dir   == named /\ IsDirectory(disk, rec)
  IN  [todo      |-> IF dir THEN Append(got.todo, ToDo(td, rec)) ELSE got.todo,
       printed   |-> IF named THEN Append(got.printed, Line(td, rec))
                     ELSE got.printed,
       extracted |-> IF ~dir /\ Wanted(td, rec)
                     THEN got.extracted \o ExtractFile(rec) ELSE got.extracted]

\* parse_dir of one directory, and what is listed after it
Parsed(td) ==
  LET recs == ReadDir(td.extent, td.length).recs
      loop[k \in 0 .. Len(recs)] ==
        IF k = 0 THEN [todo |-> Tail(todo), printed |-> printed,
                       extracted |-> extracted]
        ELSE Taken(td, recs[k], loop[k - 1])
  IN  loop[Len(recs)]

Appends(end) == Len(end.todo) - Len(Tail(todo))

\* main frees a directory when it has been listed and leaves todo_idr where it
\* is: at the first of the list, which is freed after the root and that one.
Freed(end) == IF idr = "null" /\ Appends(end) > 0 THEN "list"
              ELSE IF idr = "list" THEN "freed" ELSE idr

\* One directory of the list: first the root, then what has been found.
ParseDir ==
  /\ ipc = "list" /\ todo # <<>>
  /\ LET td  == Head(todo)
         end == Parsed(td)
     IN  /\ idr = "freed" => Appends(end) = 0
         /\ todo' = end.todo /\ printed' = end.printed
         /\ extracted' = end.extracted
         /\ idr' = Freed(end) /\ buffer' = ReadDir(td.extent, td.length).buffer
  /\ UNCHANGED <<ipc, opt, blk, dsc, disk, astray>>

\* The same, when parse_dir follows todo_idr through directories that have been
\* freed to find the last of the list.  As long as that memory is as it was the
\* directories found are appended; where the walk ends earlier, they and those
\* found later are lost; and it may lead anywhere and end the program.
ParseDirAstray ==
  /\ ipc = "list" /\ todo # <<>> /\ idr = "freed"
  /\ LET td  == Head(todo)
         end == Parsed(td)
     IN  /\ Appends(end) > 0
         /\ \/ /\ \E n \in 0 .. Appends(end) :
                    todo' = SubSeq(end.todo, 1, Len(Tail(todo)) + n)
               /\ UNCHANGED ipc
            \/ todo' = <<>> /\ ipc' = "failed"
         /\ printed' = end.printed /\ extracted' = end.extracted
         /\ buffer' = ReadDir(td.extent, td.length).buffer
  /\ astray' = TRUE
  /\ UNCHANGED <<opt, blk, dsc, disk, idr>>

Finish ==
  /\ ipc = "list" /\ todo = <<>>
  /\ ipc' = "done"
  /\ UNCHANGED <<opt, blk, dsc, disk, listvars, printed, extracted>>

INext == \/ \E o \in Commands : Start(o)
         \/ Search \/ OpenRoot \/ ParseDir \/ ParseDirAstray \/ Finish
=============================================================================
