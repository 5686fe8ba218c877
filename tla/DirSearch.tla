----------------------------- MODULE DirSearch -----------------------------
(***************************************************************************)
(* One search of a directory, from FS_FINDFIRST to FS_FINDCLOSE            *)
(* (daemon/find.c).                                                        *)
(*                                                                         *)
(* A step is one turn of the loop of storeNextFileInfo, or what happens    *)
(* when that loop or the one of storeDirContents ends.  The directory is   *)
(* read once, by fsFindFirst.                                              *)
(***************************************************************************)
EXTENDS DosNames, FileInfo

CONSTANTS
  Dirs,        \* function: path of a directory |-> its entries, [name, dir]
  Searches,    \* set of [path, may, must]: names and attributes to look for
  Requests,    \* set of [cMatch, cbData, usLevel, getpos, pgeas], as they
               \* reach the daemon
  Firsts,      \* what the memory of a new SearchData may hold as iNext
  Positions,   \* 2^32 in the code: how many different positions there are
  EAQueries    \* set of [level, room, pgeas, held]: queries of one file,
               \* held being the list in the exchange buffer before

ASSUME PositionsAssumption == Positions \in Nat \ {0}
ASSUME FirstsAssumption    == Firsts \subseteq 0 .. Positions - 1
ASSUME RequestsAssumption ==
  Requests \subseteq [cMatch : Nat, cbData : Nat, usLevel : 1 .. 3,
                      getpos : BOOLEAN,
                      pgeas : [cbList : Int, names : Seq(Nat)]]
ASSUME ListsAssumption ==
  \A r \in Requests : IF r.usLevel = 3 THEN Taken(r.pgeas)
                      ELSE r.pgeas = NoGeas
ASSUME EAQueriesAssumption ==
  \A q \in EAQueries :
    /\ q.level \in Nat /\ q.room \in Nat
    /\ q.pgeas \in [cbList : Int, names : Seq(Nat)]
    /\ q.held \in [cbList : Int, names : Seq(Nat)]
    \* the names of a list are all those that begin before its end
    /\ \A k \in DOMAIN q.pgeas.names :
         EndOf(q.pgeas.names, GEABytes, k - 1) < q.pgeas.cbList
    /\ Taken(q.pgeas) =>
         EndOf(q.pgeas.names, GEABytes, Len(q.pgeas.names)) >= q.pgeas.cbList
ASSUME SearchesAssumption ==
  \A s \in Searches :
    s.path \in Seq(Nat) /\ \E i \in DOMAIN s.path : s.path[i] \in Slashes
ASSUME DirsAssumption ==
  \A d \in DOMAIN Dirs :
    Dirs[d] \in Seq([name : Seq(Nat), dir : BOOLEAN]) \ {<<>>}

VARIABLES
  open,      \* the program has a handle
  params,    \* the search: [path, may, must]
  pIsoNext,  \* the next entry, by its number
  iNext,
  rq,        \* the request that is being carried out, or NoRequest
  first,     \* it is FS_FINDFIRST
  cbData,    \* room that is left
  cAdded,
  pData,     \* the fields written by this request
  from,      \* where the request began
  answer,    \* of the last request: [rc, cMatch]
  seen,      \* what the program has read from its buffers since the beginning
  info       \* answer of the last query of one file

loopvars == <<pIsoNext, iNext, cbData, cAdded, pData>>
vars == <<open, params, rq, first, loopvars, from, answer, seen, info>>

NoParams  == [path |-> <<>>, may |-> {}, must |-> {}]
NoRequest == [cMatch |-> 0, cbData |-> 0, usLevel |-> 0, getpos |-> FALSE,
              pgeas |-> NoGeas]
NoAnswer  == [rc |-> "none", cMatch |-> 0]
NoInfo    == [level |-> 0, room |-> 0, pgeas |-> NoGeas,
              rc |-> "none", cbList |-> 0, copied |-> 0]

Init ==
  /\ open = FALSE /\ params = NoParams /\ pIsoNext = 1 /\ iNext = 0
  /\ rq = NoRequest /\ first = FALSE /\ cbData = 0 /\ cAdded = 0
  /\ pData = <<>> /\ from = 1 /\ answer = NoAnswer /\ seen = <<>>
  /\ info = NoInfo

Busy    == rq # NoRequest
szDir   == splitPath(params.path).prefix
szName  == splitPath(params.path).last
Entries == IF params = NoParams THEN <<>> ELSE Dirs[szDir]

-----------------------------------------------------------------------------
(* Which entries are meant *)

\* flFlags as getDirEntries and storeFileInfo set them.  No entry is hidden, a
\* system file, writable or modified.
flFlags(e) == {"READONLY"} \cup (IF e.dir THEN {"DIRECTORY"} ELSE {})

\* Mutation: long names are returned to programs that cannot take them.
EntryMatchesAny(e) ==
  /\ "HIDDEN" \in flFlags(e) => "HIDDEN" \in params.may
  /\ "HIDDEN" \in params.must => "HIDDEN" \in flFlags(e)
  /\ nameMatches(szName, e.name)

entryMatches(e) ==
  /\ "HIDDEN" \in flFlags(e) => "HIDDEN" \in params.may
  /\ "HIDDEN" \in params.must => "HIDDEN" \in flFlags(e)
  /\ hasNon83Name(e.name) => "NON83" \in params.may
  /\ nameMatches(szName, e.name)

fileMatches2(e) ==
  /\ "DIRECTORY" \in flFlags(e) => "DIRECTORY" \in params.may
  /\ "DIRECTORY" \in params.must => "DIRECTORY" \in flFlags(e)
  /\ "SYSTEM" \in flFlags(e) => "SYSTEM" \in params.may
  /\ "SYSTEM" \in params.must => "SYSTEM" \in flFlags(e)
  /\ "READONLY" \in params.must => "WRITABLE" \notin flFlags(e)
  /\ "ARCHIVED" \in params.must => "MODIFIED" \in flFlags(e)

Matches(i) == entryMatches(Entries[i]) /\ fileMatches2(Entries[i])

-----------------------------------------------------------------------------
(* The program reads as many records as it is told, in the format it asked *)
(* for, or that of level 2 if EAs did not fit.                             *)

Kinds(r, rc) ==
  LET eas  == IF r.usLevel = 2 \/ rc = "ERROR_EAS_DIDNT_FIT"
              THEN "easize" ELSE "fealist"
      rest == IF r.usLevel = 1 THEN <<"status", "name">>
              ELSE <<"status", eas, "name">>
  IN  IF r.getpos THEN <<"pos">> \o rest ELSE rest

RecordsRead(fields, r, rc, n) ==
  LET kinds == Kinds(r, rc)
      k == Len(kinds)
  IN  [i \in 1 .. n |->
         IF /\ i * k <= Len(fields)
            /\ \A j \in 1 .. k : fields[(i - 1) * k + j].kind = kinds[j]
         THEN fields[i * k].of ELSE [entry |-> 0, pos |-> 0]]

-----------------------------------------------------------------------------
(* The requests *)

BeginRequest(r) ==
  /\ rq' = r /\ cbData' = r.cbData /\ cAdded' = 0 /\ pData' = <<>>
  /\ answer' = NoAnswer

\* fsFindFirst up to storeDirContents.  A request for no entry, a path without
\* a last component or through a directory that is not there begins nothing.
FindFirst(s, r) ==
  /\ ~open /\ ~Busy
  /\ splitPath(s.path).last # <<>> /\ splitPath(s.path).prefix \in DOMAIN Dirs
  /\ r.cMatch > 0
  /\ params' = s /\ first' = TRUE
  /\ pIsoNext' = 1 /\ from' = 1
  /\ \E n \in Firsts : iNext' = n
  /\ BeginRequest(r)
  /\ info' = NoInfo
  /\ UNCHANGED <<open, seen>>

\* fsFindNext, fsFindFromName: where the search is to go on is not looked at.
FindNext(r) ==
  /\ open /\ ~Busy
  /\ \/ /\ r.cMatch > 0
        /\ BeginRequest(r)
        /\ from' = pIsoNext
        /\ UNCHANGED <<pIsoNext, iNext>>
     \/ /\ r.cMatch = 0
        /\ answer' = [rc |-> "ERROR_INVALID_PARAMETER", cMatch |-> 0]
        /\ UNCHANGED <<rq, loopvars, from>>
  /\ UNCHANGED <<open, params, first, seen, info>>

\* Mutation: the position does not count the entries.
AdvanceEntryOnly == pIsoNext' = pIsoNext + 1 /\ UNCHANGED iNext

advanceSearch ==
  /\ pIsoNext' = pIsoNext + 1
  /\ iNext' = (iNext + 1) % Positions

\* An entry that is not meant
Skip ==
  /\ Busy /\ pIsoNext <= Len(Entries)
  /\ ~Matches(pIsoNext)
  /\ advanceSearch
  /\ UNCHANGED <<open, params, rq, first, cbData, cAdded, pData, from, answer,
                 seen, info>>

\* Mutation: the room that is left is not reduced.
StoredForNothing ==
  [rc |-> "NO_ERROR", cb |-> cbData,
   out |-> storeFileInfo(rq.pgeas, [entry |-> pIsoNext, pos |-> iNext],
                         Len(Entries[pIsoNext].name), cbData, rq.usLevel,
                         rq.getpos).out]

\* storeFileInfo for the next entry
Stored ==
  storeFileInfo(rq.pgeas, [entry |-> pIsoNext, pos |-> iNext],
                Len(Entries[pIsoNext].name), cbData, rq.usLevel, rq.getpos)

\* The request is done: the program has its answer, or the search is not begun.
Return(rc, cMatch, fields) ==
  /\ answer' = [rc |-> rc, cMatch |-> cMatch]
  /\ rq' = NoRequest /\ first' = FALSE /\ cbData' = 0 /\ cAdded' = 0
  /\ pData' = <<>>
  /\ IF first /\ rc \notin {"NO_ERROR", "ERROR_EAS_DIDNT_FIT"}
     THEN open' = FALSE /\ params' = NoParams /\ seen' = <<>>
     ELSE /\ open' = TRUE
          /\ seen' = seen \o RecordsRead(fields, rq, rc, cMatch)
          /\ UNCHANGED params
  /\ UNCHANGED <<from, info>>

\* An entry that fits, the last one that was asked for or not
Store ==
  /\ Busy /\ pIsoNext <= Len(Entries) /\ Matches(pIsoNext)
  /\ Stored.rc = "NO_ERROR"
  /\ advanceSearch
  /\ IF cAdded + 1 < rq.cMatch
     THEN /\ cAdded' = cAdded + 1
          /\ cbData' = Stored.cb
          /\ pData' = pData \o Stored.out
          /\ UNCHANGED <<open, params, rq, first, from, answer, seen, info>>
     ELSE Return("NO_ERROR", cAdded + 1, pData \o Stored.out)

\* What may end a request that has stored something already
MayStop == {"ERROR_BUFFER_OVERFLOW", "ERROR_EAS_DIDNT_FIT",
            "ERROR_NO_MORE_FILES"}

\* Mutation: whatever stops a request, the call succeeds.
StopWithSuccess(rc, out) ==
  Return("NO_ERROR", cAdded, pData \o out) /\ UNCHANGED <<pIsoNext, iNext>>

\* Mutation: the search goes past the entry that does not fit.
StopAndAdvance(rc, out) ==
  /\ Return(IF cAdded > 0 THEN "NO_ERROR" ELSE rc,
            IF cAdded = 0 /\ rc = "ERROR_EAS_DIDNT_FIT" THEN 1 ELSE cAdded,
            pData \o out)
  /\ IF rc = "ERROR_NO_MORE_FILES" THEN UNCHANGED <<pIsoNext, iNext>>
     ELSE advanceSearch

\* The rest of storeDirContents when storeNextFileInfo fails
Stop(rc, out) ==
  IF cAdded > 0 /\ rc \in MayStop
  THEN /\ Return("NO_ERROR", cAdded, pData \o out)
       /\ UNCHANGED <<pIsoNext, iNext>>
  ELSE IF rc = "ERROR_EAS_DIDNT_FIT"
  THEN Return(rc, 1, pData \o out) /\ advanceSearch
  ELSE Return(rc, 0, pData \o out) /\ UNCHANGED <<pIsoNext, iNext>>

\* An entry that does not fit, with what of it has been written
DoesNotFit ==
  /\ Busy /\ pIsoNext <= Len(Entries) /\ Matches(pIsoNext)
  /\ Stored.rc # "NO_ERROR"
  /\ Stop(Stored.rc, Stored.out)

EndOfDirectory ==
  /\ Busy /\ pIsoNext > Len(Entries)
  /\ Stop("ERROR_NO_MORE_FILES", <<>>)

FindClose ==
  /\ open /\ ~Busy
  /\ open' = FALSE /\ params' = NoParams /\ seen' = <<>> /\ answer' = NoAnswer
  /\ UNCHANGED <<rq, first, loopvars, from, info>>

\* FS_FILEINFO, FS_PATHINFO of any file: nothing is kept.
QueryFileInfo(q) ==
  /\ ~open /\ ~Busy
  /\ LET a == FileInfoAnswer(q.level, q.room, q.pgeas, q.held)
     IN  info' = [level |-> q.level, room |-> q.room, pgeas |-> q.pgeas,
                  rc |-> a.rc, cbList |-> a.cbList, copied |-> a.copied]
  /\ UNCHANGED <<open, params, rq, first, loopvars, from, answer, seen>>

Loop == Skip \/ Store \/ DoesNotFit \/ EndOfDirectory

Next ==
  \/ \E s \in Searches, r \in Requests : FindFirst(s, r)
  \/ \E r \in Requests : FindNext(r)
  \/ Loop \/ FindClose
  \/ \E q \in EAQueries : QueryFileInfo(q)

Spec == Init /\ [][Next]_vars

\* The daemon goes on with a request it has, and a program with its search,
\* some time with a buffer that holds any entry without its EAs.
Roomy(r) ==
  /\ r.cMatch > 0 /\ r.cbData >= 300
  /\ storeEAsInFEAList(r.pgeas, MaxList).rc = "NO_ERROR"
GoesOn   == \E r \in Requests : Roomy(r) /\ FindNext(r)
FairSpec == Spec /\ WF_vars(Loop) /\ SF_vars(GoesOn)
=============================================================================
