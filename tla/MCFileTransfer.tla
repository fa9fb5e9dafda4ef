--------------------------- MODULE MCFileTransfer ---------------------------
(* Instances of FileTransfer.                                              *)
EXTENDS FileTransfer

\* One path, or one more for a hashtag, as the session's flags have it.
MCBothSets == {{"d"}, {"d", "t"}}
MCOneSet == {{"d"}}

\* Two workers meet on one path; the two paths are left to one worker.
MCBothCopies == [ps \in MCBothSets |-> IF ps = {"d"} THEN 2 ELSE 1]
MCOneCopies == [ps \in MCOneSet |-> 2]
=============================================================================
