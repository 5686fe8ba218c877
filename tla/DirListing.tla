----------------------------- MODULE DirListing -----------------------------
(***************************************************************************)
(* What a search shows of a directory: DirSearch against the rules of OS/2 *)
(* for names, attributes and continued searches, and against DirCursor.    *)
(***************************************************************************)
EXTENDS DirSearch

\* The attributes a search may ask for, beside that of names that are not 8.3
Attributes == {"READONLY", "HIDDEN", "SYSTEM", "DIRECTORY", "ARCHIVED"}

\* An entry is wanted if its attributes, but that of read-only files, are
\* allowed, if it has those that are demanded, if the program can take its
\* name, and if the specification says so.  Where a letter follows a question
\* mark, the code has a rule of its own.
Wanted(i) ==
  LET e == Entries[i]
  IN  /\ flFlags(e) \ {"READONLY"} \subseteq params.may
      /\ params.must \cap Attributes \subseteq flFlags(e)
      /\ IsShort(e.name) \/ "NON83" \in params.may
      /\ IF LetterAfterQuestion(szName) THEN nameMatches(szName, e.name)
         ELSE MatchesByRule(szName, e.name)

WantedFrom(n) == {i \in n .. Len(Entries) : Wanted(i)}

\* Names are no longer than their length bytes allow.
NamesFit == \A d \in DOMAIN Dirs : \A i \in DOMAIN Dirs[d] :
              Len(Dirs[d][i].name) <= 255

TypeOK ==
  /\ open \in BOOLEAN /\ first \in BOOLEAN
  /\ params \in Searches \cup {NoParams}
  /\ params # NoParams => pIsoNext \in 1 .. Len(Entries) + 1
  /\ iNext \in 0 .. Positions - 1
  /\ rq \in Requests \cup {NoRequest}
  /\ cAdded \in Nat /\ (Busy => cAdded < rq.cMatch)
  /\ cbData \in Nat /\ (Busy => cbData + Bytes(pData) = rq.cbData)
  /\ \A i \in DOMAIN seen : seen[i].entry \in 1 .. Len(Entries)

\* Between two calls the program has seen just the wanted entries up to where
\* the search stands, each once and in the order of the directory: whatever
\* the sizes of its buffers, the numbers it asked for, and the entries whose
\* EAs did not fit (storeDirContents, storeNextFileInfo).
EachOnceInOrder ==
  open /\ ~Busy =>
    /\ {seen[k].entry : k \in DOMAIN seen} = WantedFrom(1) \ WantedFrom(pIsoNext)
    /\ \A k, l \in DOMAIN seen : k < l => seen[k].entry < seen[l].entry

\* The positions a program is told tell its entries apart and keep their
\* distances, whatever the first position was (advanceSearch).
PositionsTell ==
  \A k, l \in DOMAIN seen :
    k < l => (seen[l].pos - seen[k].pos) % Positions
             = (seen[l].entry - seen[k].entry) % Positions

\* A program that asks for all EAs, or for some by a list of names that the
\* driver takes, is refused if its list is torn or the EAs do not fit in 64 KB.
\* Otherwise all EAs asked for are ready for it, and if they are not more than
\* its room it has them all; it never has more than its room: the bounds of
\* storeEAsInFEAList and of copyEAOP fit together.  That a program with less
\* room is told so by an error is not claimed, since it is not.
EAListsTold ==
  info.level = 4 \/ (info.level = 3 /\ Taken(info.pgeas)) =>
    LET names == IF info.level = 3 THEN info.pgeas.names ELSE <<>>
        size[k \in 0 .. Len(names)] ==
          IF k = 0 THEN 4 ELSE size[k - 1] + (FEASize + names[k] + 1)
        all   == size[Len(names)]
        whole == info.level = 3 =>
                   EndOf(names, GEABytes, Len(names)) = info.pgeas.cbList
    IN  /\ info.rc = "NO_ERROR" <=> whole /\ all <= MaxList
        /\ info.rc = "NO_ERROR" => info.cbList = all
        /\ info.rc = "NO_ERROR" /\ all <= info.room => info.copied = all
        /\ info.copied <= info.room

\* A program that goes on with a search, some time with a buffer for any entry,
\* is told the end or closes it.
SearchEnds == open ~> (~open \/ answer.rc = "ERROR_NO_MORE_FILES")

-----------------------------------------------------------------------------
(* The search as DirCursor has it: a call is one step, at its end.         *)

Todo ==
  IF ~open THEN {} ELSE WantedFrom(IF Busy THEN from ELSE pIsoNext)

LastSeen ==
  {seen[k].entry : k \in Len(seen) - answer.cMatch + 1 .. Len(seen)}

Cursor == INSTANCE DirCursor WITH
  todo   <- Todo,
  answer <- [given |-> LastSeen, end |-> answer.rc = "ERROR_NO_MORE_FILES"]

\* DirSearch implements DirCursor: every call gives a beginning of what is
\* left, a call that gives nothing changes nothing, and the end is told when
\* nothing is left and then only.
ImplementsCursor == Cursor!Spec
=============================================================================
