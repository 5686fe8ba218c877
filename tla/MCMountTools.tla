---------------------------- MODULE MCMountTools ----------------------------
(* An instance of MountTools for TLC: one drive letter, two images and a     *)
(* file that is none, one mapiso and ISODrive.                               *)
EXTENDS MountTools

CONSTANTS x, iso1, text, mapiso, isodrive

MCDrives == {x}
MCFiles  == {iso1, text}
MCImages == {iso1}
MCTools  == {mapiso}

Attach(f, start) == [kind |-> "attach", drive |-> x, file |-> f, start |-> start]
Detach == [kind |-> "detach", drive |-> x, file |-> None, start |-> FALSE]

MCCommands ==
  [p \in {mapiso, isodrive} |->
     IF p = mapiso THEN {Attach(iso1, TRUE), Attach(text, FALSE), Detach}
     ELSE {Attach(iso1, TRUE), Detach}]
=============================================================================
