--------------------------- MODULE MCPathClaims ---------------------------
(* Instances of PathClaims.                                                *)
EXTENDS PathClaims

MCIdentity == {"a", "b"}
MCOptions == {o \in [dryRun : BOOLEAN, rewrite : BOOLEAN] : ~(o.dryRun /\ o.rewrite)}

\* Two files of the same name; a is also saved in a hashtag directory "t".
\* A partial b has the size of a complete a.
MCDirs == {"d", "t"}
MCDirsPath == {"d", "d_a", "d_b", "t", "t_a", "t_b"}
MCDirsRequests == [i \in MCIdentity |-> IF i = "a" THEN {{"d", "t"}} ELSE {{"d"}}]
MCDirsSizeOf == [i \in MCIdentity |-> IF i = "a" THEN 1 ELSE 2]
MCDirsIdentified ==
  [t \in MCDirs \X MCIdentity \X {1} |->
     IF t[1] = "d" THEN IF t[2] = "a" THEN "d_a" ELSE "d_b"
     ELSE IF t[2] = "a" THEN "t_a" ELSE "t_b"]

\* The two files have the same size.
MCAlikeSizeOf == [i \in MCIdentity |-> 1]

\* One directory: a and c have the same name, and b is itself called what a
\* would be called with its identity.
MCClash == {"v", "v_a"}
MCClashPath == {"v", "v_a", "v_a-2", "v_a_b", "v_c"}
MCClashIdentity == {"a", "b", "c"}
MCClashRequests == [i \in MCClashIdentity |-> IF i = "b" THEN {{"v_a"}} ELSE {{"v"}}]
MCClashSizeOf == [i \in MCClashIdentity |-> IF i = "b" THEN 2 ELSE 3]
MCClashIdentified ==
  [t \in MCClash \X MCClashIdentity \X {1, 2} |->
     IF t[1] = "v" THEN IF t[2] = "a" THEN IF t[3] = 1 THEN "v_a" ELSE "v_a-2"
                                      ELSE "v_c"
     ELSE "v_a_b"]
=============================================================================
