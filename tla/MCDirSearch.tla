---------------------------- MODULE MCDirSearch ----------------------------
(* Instances of DirListing for TLC: two directories, specifications of every *)
(* kind, and buffers that hold none, some or all of the entries.             *)
EXTENDS DirListing, TLC

File(name) == [name |-> name, dir |-> FALSE]
Dir(name)  == [name |-> name, dir |-> TRUE]

\* The root: D, abcdefghi.j, A.B, a.b.a.  In \D: . .. A a.b ba.bc d
MCDirs ==
  (<<>> :> <<Dir(<<68>>), File(<<97,98,99,100,101,102,103,104,105,46,106>>),
             File(<<65,46,66>>), File(<<97,46,98,46,97>>)>>)
  @@ (<<92,68>> :> <<Dir(<<46>>), Dir(<<46,46>>), File(<<65>>),
                     File(<<97,46,98>>), File(<<98,97,46,98,99>>),
                     Dir(<<100>>)>>)

All == {"DIRECTORY", "NON83", "HIDDEN", "SYSTEM"}
For(path, may, must) == [path |-> path, may |-> may, must |-> must]

\* \*  \D\*  \D\*.*  /D//a?  \D\?.b? \*.?  \D\??.b  \D\*a*  \D\  \x\*
MCSearches ==
  {For(<<92,42>>, All, {}), For(<<92,42>>, {"DIRECTORY"}, {}),
   For(<<92,42>>, {"NON83"}, {}), For(<<92,42>>, All, {"DIRECTORY"}),
   For(<<92,42>>, All, {"ARCHIVED"}), For(<<92,42,46,63>>, All, {"READONLY"}),
   For(<<92,68,92,42>>, All, {}), For(<<92,68,92,42,46,42>>, {}, {}),
   For(<<92,68,92,92,97,63>>, All, {}),
   For(<<92,68,92,63,46,98,63>>, {}, {}),
   For(<<92,68,92,63,63,46,98>>, All, {}),
   For(<<92,68,92,42,97,42>>, {"NON83"}, {}),
   For(<<92,68,92>>, All, {}), For(<<92,120,92,42>>, All, {})}

Ask(cMatch, room, level, getpos, pgeas) ==
  [cMatch |-> cMatch, cbData |-> room, usLevel |-> level, getpos |-> getpos,
   pgeas |-> pgeas]
Geas(cbList, names) == [cbList |-> cbList, names |-> names]

\* EAs of 30 and of 319 bytes, a list that ends within a name, one of no names,
\* and two that are not taken: too short to be a list, and longer than 64 KB
Few     == Geas(23, <<8, 7>>)
Many    == Geas(310, <<100, 100, 100>>)
Damaged == Geas(10, <<8>>)
Empty   == Geas(4, <<>>)
Short   == Geas(0, <<>>)
Long    == Geas(MaxList + 1, <<8, 7>>)

MCRequests ==
  {Ask(1, 300, 1, TRUE, NoGeas), Ask(3, 60, 1, FALSE, NoGeas),
   Ask(9, 340, 2, TRUE, NoGeas), Ask(2, 25, 1, FALSE, NoGeas),
   Ask(2, 100, 3, FALSE, Few), Ask(2, 400, 3, TRUE, Many),
   Ask(2, 300, 3, FALSE, Damaged), Ask(0, 300, 1, FALSE, NoGeas)}

Query(level, room, pgeas, held) ==
  [level |-> level, room |-> room, pgeas |-> pgeas, held |-> held]
MCEAQueries ==
  {Query(1, 22, NoGeas, Short), Query(1, 21, NoGeas, Short),
   Query(2, 26, NoGeas, Short), Query(4, 300, NoGeas, Short),
   Query(4, 3, NoGeas, Short), Query(5, 300, NoGeas, Short)}
  \cup {Query(3, room, pgeas, held) :
          room \in {29, 30, 300},
          pgeas \in {Few, Many, Damaged, Empty, Short, Long},
          held \in {Few, Short}}

\* What the theorems of DirSearchProofs assume
ASSUME NamesAssumption == NamesFit
=============================================================================
