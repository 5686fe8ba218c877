------------------------------ MODULE FileInfo ------------------------------
(***************************************************************************)
(* What the daemon writes about a file, and how much room it takes         *)
(* (daemon/fileinfo.c, ea.c), and how EA lists get to a program and back   *)
(* (copyEAOP of driver/stubfsd.c).                                         *)
(*                                                                         *)
(* A buffer is a sequence of fields [kind, of, size]: what a field is,     *)
(* whom it is about and how many bytes it has.  A GEA list, the program's  *)
(* list of EA names, is [cbList, names], names being the lengths.          *)
(***************************************************************************)
EXTENDS Integers, Sequences, FiniteSets

PosSize    == 4      \* sizeof(ULONG)
StatusSize == 22     \* sizeof(FILESTATUS)
EASizeSize == 4      \* sizeof(ULONG)
FEASize    == 4      \* sizeof(FEA)
MaxList    == 65536

Field(kind, of, size) == [kind |-> kind, of |-> of, size |-> size]
Bytes(fields) ==
  LET sum[n \in 0 .. Len(fields)] ==
        IF n = 0 THEN 0 ELSE sum[n - 1] + fields[n].size
  IN  sum[Len(fields)]

\* What a list element holds beside a name: an empty EA (storeEA), a GEA
EABytes  == FEASize + 1
GEABytes == 2

\* The null pointer, which no list is
NoGeas == [cbList |-> -1, names |-> <<>>]

\* Where in a list of names its k-th element ends, which has a name and more
EndOf(names, more, k) ==
  LET end[n \in 0 .. k] == IF n = 0 THEN 4 ELSE end[n - 1] + (names[n] + more)
  IN  end[k]

\* Mutation: the list is as long as its EAs.
StoreEAsShort(pgeas, cbData) ==
  IF cbData < 4 THEN [rc |-> "ERROR_BUFFER_OVERFLOW", cbList |-> 0]
  ELSE [rc |-> "NO_ERROR",
        cbList |-> EndOf(pgeas.names, EABytes, Len(pgeas.names)) - 4]

\* storeEAsInFEAList2: [rc, cbList].  Without a list it is asked for all EAs, of
\* which there are none; a list has at least its length.  Names are taken while
\* something of the list is left; of two reasons to stop, the earlier counts.
storeEAsInFEAList(pgeas, cbData) ==
  LET names   == pgeas.names
      taken   == {k \in DOMAIN names :
                    EndOf(names, GEABytes, k - 1) < pgeas.cbList}
      torn    == {k \in taken : EndOf(names, GEABytes, k) > pgeas.cbList}
      tooMuch == {k \in taken : EndOf(names, EABytes, k) > cbData}
  IN  IF cbData < 4 THEN [rc |-> "ERROR_BUFFER_OVERFLOW", cbList |-> 0]
      ELSE IF pgeas = NoGeas THEN [rc |-> "NO_ERROR", cbList |-> 4]
      ELSE IF \/ pgeas.cbList < 4
              \/ \E k \in torn : \A j \in tooMuch : k <= j
      THEN [rc |-> "ERROR_EA_LIST_INCONSISTENT", cbList |-> 0]
      ELSE IF tooMuch # {} THEN [rc |-> "ERROR_BUFFER_OVERFLOW", cbList |-> 0]
      ELSE [rc |-> "NO_ERROR",
            cbList |-> EndOf(names, EABytes, Cardinality(taken))]

\* One field more, if nothing has failed before and there is room for it
Put(s, field) ==
  IF s.rc # "NO_ERROR" THEN s
  ELSE IF field.size > s.cb
  THEN [rc |-> "ERROR_BUFFER_OVERFLOW", cb |-> s.cb, out |-> s.out]
  ELSE [rc |-> "NO_ERROR", cb |-> s.cb - field.size,
        out |-> Append(s.out, field)]

\* Nothing more after rc
Ended(s, rc) ==
  [rc |-> IF s.rc = "NO_ERROR" THEN rc ELSE s.rc, cb |-> s.cb, out |-> s.out]

\* One entry: [rc, cb, out].  Fields that have been written stay in the buffer
\* when the next one does not fit.  If EAs do not fit, their size is stored as
\* on level 2.  cbName is -1 if no name is asked for; of a name its length and
\* its zero are stored, too.
storeFileInfo(pgeas, of, cbName, cbData, level, getpos) ==
  LET start    == [rc |-> "NO_ERROR", cb |-> cbData, out |-> <<>>]
      pos      == IF getpos THEN Put(start, Field("pos", of, PosSize)) ELSE start
      status   == Put(pos, Field("status", of, StatusSize))
      eas      == storeEAsInFEAList(pgeas, status.cb)
      didntFit == level = 3 /\ eas.rc = "ERROR_BUFFER_OVERFLOW"
      ea       == IF level = 2 \/ didntFit
                  THEN Put(status, Field("easize", of, EASizeSize))
                  ELSE IF level # 3 THEN status
                  ELSE IF eas.rc = "NO_ERROR"
                  THEN Put(status, Field("fealist", of, eas.cbList))
                  ELSE Ended(status, eas.rc)
      name     == IF cbName = -1 THEN ea
                  ELSE IF cbName > 255
                  THEN Ended(ea, "ERROR_FILENAME_EXCED_RANGE")
                  ELSE Put(ea, Field("name", of, cbName + 2))
  IN  Ended(name, IF didntFit THEN "ERROR_EAS_DIDNT_FIT" ELSE "NO_ERROR")

-----------------------------------------------------------------------------
(* FS_FILEINFO and FS_PATHINFO, from the program's buffer to the program's *)
(* buffer                                                                  *)

\* copyEAOP with CEA_BUF_TO_FEAS: the first bytes of the list in the exchange
\* buffer, as many as the program has room for.  What it notes in rcfinal is
\* not returned.
CopiedBytes(cbList, room) ==
  IF cbList > MaxList \/ cbList > room THEN room ELSE cbList

\* copyEAOP with CEA_GEAS_TO_BUF takes lists of these lengths only.
Taken(pgeas) == pgeas.cbList \in 4 .. MaxList

\* copyFileInfoBufPre, doFileInfo(query) and copyFileInfoBufPost.  For levels 1
\* and 2 all of the program's buffer is copied; for 3 and 4 the program gives
\* an FEA list, whose first number is the room there is.  A GEA list that is
\* not taken is not refused: the daemon goes by what the exchange buffer held.
FileInfoAnswer(level, room, pgeas, held) ==
  LET sent == IF Taken(pgeas) THEN pgeas ELSE held
      eas  == storeEAsInFEAList(IF level = 3 THEN sent ELSE NoGeas, MaxList)
  IN  CASE level \in {1, 2} ->
             [rc     |-> storeFileInfo(NoGeas, 0, -1, room, level, FALSE).rc,
              cbList |-> 0, copied |-> room]
        [] level \in {3, 4} ->
             [rc     |-> eas.rc, cbList |-> eas.cbList,
              copied |-> CopiedBytes(eas.cbList, room)]
        [] OTHER ->
             [rc |-> "ERROR_NOT_SUPPORTED", cbList |-> 0, copied |-> room]
=============================================================================
