-------------------------- MODULE MCYadiskTransfer --------------------------
(* Two messages: one with a folder, matched twice in its text, one with a  *)
(* file whose target is also that of a file of the folder.                 *)
EXTENDS YadiskTransfer

MCHistory == << <<"folder", "folder">>, <<"photo">> >>
MCListing == [d \in Dirs |-> IF d = "folder" THEN <<"clip", "thumbs", "sub">>
                                             ELSE <<"doc">>]
MCBelow == [d \in Dirs |-> IF d = "folder" THEN Dirs ELSE {d}]
MCTarget == [f \in Files |-> IF f = "photo" THEN "doc" ELSE f]
MCSize == [f \in Files |-> IF f = "doc" THEN 0 ELSE 2]
MCBytes == [o \in Object |-> IF o = "archive" THEN 3
                              ELSE IF o \in {"preview", "old"} THEN 1 ELSE 2]

(* Every size is told, and is that of the object.                          *)
MCCutSize == [f \in Files |-> 2]
MCCutBytes == [o \in Object |-> 2]
=============================================================================
