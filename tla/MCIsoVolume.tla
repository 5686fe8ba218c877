---------------------------- MODULE MCIsoVolume ----------------------------
(* Instances of IsoContents for TLC: images made by hand, one of them with a *)
(* file for every character of any character set.                            *)
EXTENDS IsoContents, NlsInit

F(id, name, at, size) == [id |-> id, name |-> name, dir |-> FALSE, at |-> at,
                          size |-> size]
D(id, name, at, size) == [id |-> id, name |-> name, dir |-> TRUE, at |-> at,
                          size |-> size]
Desc(type, esc, extent, size) ==
  [type |-> type, id |-> "CD001", version |-> 1, esc |-> esc,
   root |-> [extent |-> extent, size |-> size]]
End == Desc("end", "", 0, 0)

\* R, AB.C, G.X, D with E and F in it, H in E
PlainDirs ==
   (20 :> <<F(<<82,46,59,49>>, <<82>>, 30, 6),
            F(<<65,66,46,67,59,49>>, <<65,66,46,67>>, 32, 3),
            D(<<68>>, <<68>>, 22, 8),
            F(<<71,46,88,59,49>>, <<71,46,88>>, 33, 9)>>)
   @@ (22 :> <<D(<<69>>, <<69>>, 24, 4),
            F(<<70,46,59,49>>, <<70>>, 35, 0)>>)
   @@ (24 :> <<F(<<72,46,59,50>>, <<72>>, 36, 4)>>)

Plain == [last |-> 40, per |-> 3, dirs |-> PlainDirs,
          descs |-> (16 :> Desc("primary", "", 20, 8)) @@ (17 :> End)]

\* The same image without the sectors behind its first file
Cut == [Plain EXCEPT !.last = 30]

\* Without a descriptor that ends the list
Short == [last |-> 16, per |-> 3, dirs |-> <<>>,
          descs |-> (16 :> Desc("primary", "", 20, 8))]

\* A plain root, and a Joliet one with characters of several character sets;
\* a file in the upper half of the range; a descriptor of another kind first
Joliet == [last |-> 60, per |-> 3,
  dirs |->
   (20 :> <<F(<<82,46,59,49>>, <<82>>, 30, 6)>>)
   @@ (25 :> <<F(<<82,233,955>>, <<82,233,955>>, 30, 6),
            D(<<68,105,114>>, <<68,105,114>>, 28, 7),
            F(<<98,105,103>>, <<98,105,103>>, 40, 40),
            F(<<97,46,98,59,49>>, <<97,46,98>>, 33, 5)>>)
   @@ (28 :> <<F(<<20013,305,46>>, <<20013,305>>, 50, 3),
            D(<<115,117,98>>, <<115,117,98>>, 36, 4)>>)
   @@ (36 :> <<F(<<120>>, <<120>>, 51, 2)>>),
  descs |-> (16 :> Desc("primary", "", 20, 4))
         @@ (17 :> Desc("supplementary", "%/G", 20, 4))
         @@ (18 :> Desc("supplementary", "%/E", 25, 8)) @@ (19 :> End)]

HighSierra == [last |-> 40, per |-> 5,
  dirs |->
   (20 :> <<F(<<82,46,59,49>>, <<82>>, 30, 6),
            D(<<68>>, <<68>>, 22, 4)>>)
   @@ (22 :> <<F(<<70,46,59,49>>, <<70>>, 32, 3)>>),
  descs |-> (16 :> [Desc("primary", "", 20, 4) EXCEPT !.id = "CDROM"])]

\* Two sessions; the first has a Joliet descriptor only behind its end.
TwoSessions == [last |-> 40, per |-> 5,
  dirs |->
   (20 :> <<F(<<82,46,59,49>>, <<82>>, 30, 6)>>)
   @@ (22 :> <<F(<<83,46,59,49>>, <<83>>, 31, 4)>>)
   @@ (24 :> <<F(<<84>>, <<84>>, 32, 4),
            D(<<85>>, <<85>>, 34, 4)>>)
   @@ (34 :> <<F(<<86>>, <<86>>, 33, 2)>>),
  descs |-> (16 :> Desc("primary", "", 20, 4)) @@ (17 :> End)
         @@ (18 :> Desc("supplementary", "%/C", 22, 4))
         @@ (26 :> Desc("primary", "", 22, 4))
         @@ (27 :> Desc("supplementary", "%/@", 24, 4)) @@ (28 :> End)]

\* A, B with C and D in it, C with E in it, and the files F in C and G in D:
\* isoinfo finds C and D when it has freed A.
Deep == [last |-> 40, per |-> 3,
  dirs |->
   (20 :> <<D(<<65>>, <<65>>, 24, 4), D(<<66>>, <<66>>, 26, 8)>>)
   @@ (24 :> <<F(<<72>>, <<72>>, 36, 2)>>)
   @@ (26 :> <<D(<<67>>, <<67>>, 28, 8), D(<<68>>, <<68>>, 30, 4)>>)
   @@ (28 :> <<D(<<69>>, <<69>>, 32, 4), F(<<70>>, <<70>>, 37, 5)>>)
   @@ (30 :> <<F(<<71>>, <<71>>, 39, 3)>>)
   @@ (32 :> <<>>),
  descs |-> (16 :> Desc("primary", "", 20, 8)) @@ (17 :> End)]

NoIso == [last |-> 20, per |-> 3, dirs |-> <<>>,
          descs |-> (16 :> [Desc("primary", "", 0, 0) EXCEPT !.id = "other"])]

\* The code points some character set has a character for, and others near
\* them, without separators, dots and semicolons, which mean something in a name
Stretch(first, end) == [i \in 1 .. (end - first + 1) |-> first + i - 1]
Units ==
  Stretch(1, 45) \o Stretch(48, 58) \o Stretch(60, 91) \o Stretch(93, \h1FF)
  \o Stretch(\h2BC, \h2DD) \o Stretch(\h384, \h3CE) \o Stretch(\h401, \h45F)
  \o Stretch(\h5D0, \h5EA) \o Stretch(\h60C, \h66A) \o Stretch(\hE01, \hE5B)
  \o Stretch(\h1E02, \h1E85) \o Stretch(\h1EF2, \h1EF3)
  \o Stretch(\h2013, \h2044) \o Stretch(\h207F, \h20AC)
  \o Stretch(\h2116, \h2122) \o Stretch(\h2202, \h2265)
  \o Stretch(\h2310, \h2321) \o Stretch(\h2500, \h25CA)
  \o <<\h4E00, \hF8FF, \hFB01, \hFB02>> \o Stretch(\hFE7D, \hFEFC)

\* A Joliet image with a file for each of them
Unicode ==
  LET us == Units
  IN  [last |-> 30, per |-> 256,
       dirs  |-> 20 :> [i \in DOMAIN us |-> F(<<us[i]>>, <<us[i]>>, 30, 0)],
       descs |-> (16 :> Desc("primary", "", 29, 0))
              @@ (17 :> Desc("supplementary", "%/@", 20,
                             SectorSize * ((Len(us) + 257) \div 256)))
              @@ (18 :> End)]

OtherCharsets == ToSet(init_nls) \ {"iso8859-14"}

MCMasters == ("plain" :> Plain) @@ ("cut" :> Cut) @@ ("short" :> Short)
  @@ ("joliet" :> Joliet) @@ ("hs" :> HighSierra) @@ ("two" :> TwoSessions)
  @@ ("noiso" :> NoIso) @@ ("unicode" :> Unicode) @@ ("deep" :> Deep)

MCImages ==
  LET masters == MCMasters
      images  == FoldSet(LAMBDA i, f : (i :> ImageOf(masters[i])) @@ f, <<>>,
                         DOMAIN masters)
  IN  images

Attach(img, charset, offset) ==
  [img |-> img, charset |-> charset, iOffset |-> offset]
MCAttachments ==
  {Attach("plain", "", 0), Attach("cut", "", 0), Attach("short", "", 0),
   Attach("joliet", "", 0), Attach("joliet", "iso8859-7", 0),
   Attach("joliet", "nonsense", 0), Attach("hs", "", 0), Attach("two", "", 0),
   Attach("two", "", 10), Attach("two", "", -1), Attach("noiso", "", 0),
   Attach("missing", "", 0), Attach("deep", "", 0)}
  \cup {Attach("unicode", c, 0) : c \in OtherCharsets}

HandPaths ==
  ("plain" :> {<<>>, <<92,82>>, <<47,114>>, <<92,65,66,46,67>>,
      <<92,65,66>>, <<92,65,66,46,67,59,49>>, <<92,68,92,69,92,72>>,
      <<92,100,47>>, <<92,68,92,92,101>>, <<92,68,92,70>>,
      <<92,71,46,88,92,81>>, <<92,82,92,72>>, <<92,90,92,72>>})
  @@ ("joliet" :> {<<92,82>>, <<92,98,105,103>>,
      <<92,68,105,114,92,115,117,98,92,88>>, <<92,68,73,82>>,
      <<92,97,46,98>>, <<92,68,105,114,92,95,213>>,
      <<92,68,105,114,92,115,117,98,92>>, <<92,82,130,95>>})
  @@ ("hs" :> {<<92,82>>, <<92,68>>, <<92,68,92,70>>, <<92,68,92,82>>})
  @@ ("two" :> {<<92,82>>, <<92,83>>, <<92,84>>, <<92,85,92,86>>})
  @@ ("cut" :> {<<92,82>>, <<92,68,92,70>>})
  @@ ("deep" :> {<<92,66,92,67,92,70>>, <<92,66,92,67,92,69>>, <<92,65,92,67>>})
MCPaths == [i \in DOMAIN MCMasters |->
              IF i \in DOMAIN HandPaths THEN HandPaths[i] ELSE {}]

MCOffsets == {-32, -5, -1, 0, 3, 31}

Isoinfo_(img, J, charset, x, T) ==
  [img |-> img, J |-> J, charset |-> charset, x |-> x, T |-> T]
MCCommands ==
  {Isoinfo_("plain", FALSE, "cp850", <<68,92,69,92,72,46,59,50>>, 0),
   Isoinfo_("plain", TRUE, "", <<>>, 0),
   Isoinfo_("plain", FALSE, "cp850", <<82>>, 0),
   Isoinfo_("hs", FALSE, "cp850", <<>>, 0),
   Isoinfo_("deep", FALSE, "cp850", <<66,92,67,92,70>>, 0),
   Isoinfo_("joliet", TRUE, "cp850", <<68,105,114,92,115,117,98,92,120>>, 0),
   Isoinfo_("joliet", TRUE, "cp850", <<98,105,103>>, 0),
   Isoinfo_("joliet", TRUE, "iso8859-7", <<>>, 0),
   Isoinfo_("two", TRUE, "cp850", <<85,92,86>>, 10),
   Isoinfo_("two", FALSE, "", <<>>, 0),
   Isoinfo_("noiso", FALSE, "", <<>>, 0),
   Isoinfo_("joliet", TRUE, "nonsense", <<>>, 0),
   Isoinfo_("joliet", TRUE, "default", <<>>, 0)}

\* What the theorems take for granted of the images
ASSUME MastersWrittenWell ==
  /\ WrittenForPaths(MCAttachments) /\ WrittenForNames(MCAttachments)
  /\ WrittenForIsoinfo(MCAttachments, MCCommands)

\* The character set whose table is not exact
MCWelshAttachments == {Attach("unicode", "iso8859-14", 0)}
=============================================================================
