----------------------------- MODULE FsHandlers -----------------------------
(***************************************************************************)
(* The FS_xxx entry points of the ring-0 stub driver, each reduced to what *)
(* the exchange protocol can tell apart.  All of them have the same shape: *)
(* take the exchange, fill in the request, signal the daemon and wait,     *)
(* copy the results out, release the exchange.  They differ in what they   *)
(* do with the caller's memory while they hold the exchange:               *)
(*                                                                         *)
(*   alone  the call succeeds without the daemon when there is none        *)
(*   name   the call takes a path (or device) name and refuses one that is *)
(*          too long, after taking the exchange and before signalling      *)
(*   in     the caller's memory before the signal:                         *)
(*            "none"      not touched                                      *)
(*            "yield"     touched; a failing probe does not end the call   *)
(*            "probe"     a failing probe releases the exchange and fails  *)
(*            "leak"      a failing probe fails and keeps the exchange     *)
(*            "unlocked"  a failing probe releases the exchange and the    *)
(*                        call goes on to signal the daemon                *)
(*   out    the caller's memory after the wait:                            *)
(*            "none"      not touched                                      *)
(*            "probe"     a failing probe releases the exchange and fails  *)
(*            "undo"      a failing probe first sends a second request     *)
(*                                                                         *)
(* A call that touches the caller's memory may block there: a page of it   *)
(* may have to be read in.                                                 *)
(***************************************************************************)

EXTENDS Naturals

InKinds  == {"none", "yield", "probe", "leak", "unlocked"}
OutKinds == {"none", "probe", "undo"}

Profiles == [alone : BOOLEAN, name : BOOLEAN, in : InKinds, out : OutKinds]

Handler(name, in, out) ==
  [alone |-> FALSE, name |-> name, in |-> in, out |-> out]

-----------------------------------------------------------------------------
(* Volumes and the file system as a whole.                                 *)

\* The parameter buffer is probed before the exchange is taken and copied
\* after; hasParm says whether there is one.
FS_FSCTL(hasParm) == Handler(FALSE, IF hasParm THEN "yield" ELSE "none", "probe")

\* FSA_DETACH without a daemon returns NO_ERROR at once.
FS_ATTACH(flag, hasParm) ==
  [alone |-> flag = "FSA_DETACH",
   name  |-> TRUE,
   in    |-> IF flag # "FSA_ATTACH_INFO" /\ hasParm THEN "probe" ELSE "none",
   out   |-> IF flag = "FSA_ATTACH_INFO" THEN "probe" ELSE "none"]

FS_FSINFO(flag) ==
  IF flag = "INFO_SET" THEN Handler(FALSE, "probe", "none")
                       ELSE Handler(FALSE, "none", "probe")

FS_FLUSHBUF == Handler(FALSE, "none", "none")

FS_PROCESSNAME == Handler(TRUE, "none", "none")

-----------------------------------------------------------------------------
(* Open files.                                                             *)

\* The parameter buffer is probed with the exchange held, and the three
\* returns on a bad one release nothing.
FS_IOCTL(hasParm) == Handler(FALSE, IF hasParm THEN "leak" ELSE "none", "probe")

FS_OPENCREATE(hasEAs) ==
  IF hasEAs THEN Handler(TRUE, "probe", "probe")
            ELSE Handler(TRUE, "none", "none")

FS_CLOSE      == Handler(FALSE, "none", "none")
FS_READ       == Handler(FALSE, "none", "probe")
FS_WRITE      == Handler(FALSE, "probe", "none")
FS_CHGFILEPTR == Handler(FALSE, "none", "none")
FS_NEWSIZE    == Handler(FALSE, "none", "none")
FS_COMMIT     == Handler(FALSE, "none", "none")

\* copyFileInfoBufPre releases the exchange when the buffer of a level 1
\* "set" is bad; its result, like that of a bad EA list, is not looked at.
copyFileInfoBufPre(set, level) ==
  CASE set /\ level # 2  -> "unlocked"
    [] set /\ level = 2  -> "yield"
    [] ~set /\ level = 3 -> "yield"
    [] OTHER             -> "none"

\* copyFileInfoBufPost releases the exchange when the buffer of a "query" is
\* bad and its caller releases it again; nothing in between can block, so
\* the two releases are one.
copyFileInfoBufPost(set, level) ==
  IF set /\ level # 2 THEN "none" ELSE "probe"

FS_FILEINFO(set, level) ==
  Handler(FALSE, copyFileInfoBufPre(set, level), copyFileInfoBufPost(set, level))

-----------------------------------------------------------------------------
(* Paths and directories.                                                  *)

FS_PATHINFO(set, level) ==
  Handler(TRUE, copyFileInfoBufPre(set, level), copyFileInfoBufPost(set, level))

FS_FILEATTRIBUTE == Handler(TRUE, "none", "none")
FS_DELETE        == Handler(TRUE, "none", "none")
FS_COPY          == Handler(FALSE, "none", "none")
FS_MOVE          == Handler(TRUE, "none", "none")
FS_CHDIR(flag)   == Handler(flag = "CD_EXPLICIT", "none", "none")
FS_RMDIR         == Handler(TRUE, "none", "none")

FS_MKDIR(hasEAs) ==
  IF hasEAs THEN Handler(TRUE, "probe", "probe")
            ELSE Handler(TRUE, "none", "none")

-----------------------------------------------------------------------------
(* Searches.  eas: the search asks for extended attributes of a list       *)
(* (FIL_QUERYEASFROMLIST), and a bad list leaves the exchange taken.       *)

FS_FINDFIRST(eas)    == Handler(TRUE, IF eas THEN "leak" ELSE "none", "undo")
FS_FINDNEXT(eas)     == Handler(FALSE, IF eas THEN "leak" ELSE "none", "probe")
FS_FINDFROMNAME(eas) == Handler(TRUE, IF eas THEN "leak" ELSE "none", "probe")
FS_FINDCLOSE         == Handler(FALSE, "none", "none")

\* The three FINDNOTIFY entry points carry no data at all.
FS_FINDNOTIFY        == Handler(FALSE, "none", "none")

-----------------------------------------------------------------------------
(* Every call the kernel can make of the driver that reaches the exchange. *)

AttachFlags == {"FSA_ATTACH", "FSA_DETACH", "FSA_ATTACH_INFO"}

AllCalls ==
  {FS_FLUSHBUF, FS_PROCESSNAME, FS_CLOSE, FS_READ, FS_WRITE, FS_CHGFILEPTR,
   FS_NEWSIZE, FS_COMMIT, FS_FILEATTRIBUTE, FS_DELETE, FS_COPY, FS_MOVE,
   FS_RMDIR, FS_FINDCLOSE, FS_FINDNOTIFY}
  \cup {FS_ATTACH(f, p) : f \in AttachFlags, p \in BOOLEAN}
  \cup {FS_FSINFO(f) : f \in {"INFO_SET", "INFO_RETRIEVE"}}
  \cup {FS_CHDIR(f) : f \in {"CD_EXPLICIT", "CD_VERIFY", "CD_FREE"}}
  \cup {FS_FILEINFO(s, l) : s \in BOOLEAN, l \in 1..4}
  \cup {FS_PATHINFO(s, l) : s \in BOOLEAN, l \in 1..4}
  \cup UNION {{FS_FSCTL(b), FS_IOCTL(b), FS_OPENCREATE(b), FS_MKDIR(b),
               FS_FINDFIRST(b), FS_FINDNEXT(b), FS_FINDFROMNAME(b)} : b \in BOOLEAN}

\* The calls that never signal the daemon without holding the exchange.
KeepsExchange(o) == o.in # "unlocked"

\* The calls that give the exchange back on every path.
ReturnsExchange(o) == o.in # "leak"

\* The calls that, once they hold the exchange, signal the daemon without
\* blocking first, and signal it once.
Prompt(o) == o.in = "none" /\ o.out # "undo"
=============================================================================
