--------------------------- MODULE YadiskInvariants ---------------------------
(***************************************************************************)
(* What holds at every step of YadiskTransfer and is kept by each of them: *)
(* Typed, Content and Found.  YadiskProofs proves that they do, and that   *)
(* TypeOK, DiskSound and AllListed follow.                                 *)
(***************************************************************************)
EXTENDS YadiskTransfer

Wanted == Files \ System
Handling == {"url", "open", "copy", "range", "refresh", "hls", "segments"}
Writing == {"copy", "range", "segments"}

(* TypeOK, in parts.                                                       *)
RunTyped ==
  /\ rewrite \in BOOLEAN /\ dryRun \in BOOLEAN /\ closed \in BOOLEAN /\ ctxDone \in BOOLEAN
  /\ links \in Seq(Entry) /\ link \in Entry \cup {"none"}
  /\ result \in {"none", "nil", "error", "cancel"} /\ failed \in Nat
WalkTyped ==
  /\ listing \in [Dirs -> Seq(Entry)] /\ changes \in 0..MaxChanges
  /\ stable \in SUBSET Files /\ shrunk \in BOOLEAN /\ at \in Dirs \cup {"none"}
  /\ got \in Seq(Entry) /\ todo \in Seq(Entry)
FilesTyped == files \in Seq(Files) /\ file \in Files \cup {"none"}
TransferTyped ==
  /\ direct \in Object \cup {"none"} /\ attempt \in {1, 2} /\ total \in Nat
  /\ declared \in BOOLEAN /\ written \in Nat /\ parts \in 0..MaxParts
StoreTyped ==
  /\ exists \in SUBSET Targets /\ disk \in [Targets -> Seq(Byte)]
  /\ blind \in SUBSET Targets /\ refused \in SUBSET Videos
PlaceTyped ==
  /\ pc \in {"loop", "meta", "list", "walk", "fileurl", "item", "url", "open",
             "copy", "range", "refresh", "hls", "segments", "done"}
  /\ rows \in SUBSET {"resolve", "link", "file"}

(* What each place of the program has at hand.                             *)
Shape ==
  /\ pc = "list" <=> at # "none"
  /\ pc = "list" => link \in Dirs
  /\ todo # <<>> => pc \in {"list", "walk"} /\ link \in Dirs
  /\ pc = "fileurl" => link \in Files
  /\ pc \in Handling \cup {"item"} => files \in Seq(Wanted)
  /\ pc \in Handling => file \in Wanted
  /\ pc \in Writing \cup {"open"} => direct \in Object
  /\ pc # "list" => got = <<>>

Typed == TypeOK /\ Shape

(* Every target that nobody writes has bytes of one object, all of them    *)
(* unless it is blind.  What has arrived by ranges is the beginning of the *)
(* object it is from, and what has arrived of a stream is from the segments*)
(* so far.                                                                 *)
Settled(t) ==
  \E o \in Object : InOrder(disk[t], o) /\ (t \notin blind => disk[t] = Whole(o))

Content ==
  /\ \A t \in exists : Settled(t) \/ (pc \in Writing /\ t = Target[file])
  /\ pc = "range" =>
       /\ written <= Bytes[direct]
       /\ disk[Target[file]] = SubSeq(Whole(direct), 1, written)
  /\ pc = "segments" =>
       /\ written <= Bytes[direct]
       /\ InOrder(disk[Target[file]], direct)
       /\ \A i \in 1..Len(disk[Target[file]]) : disk[Target[file]][i][2] <= written

(* The entries that the walk will come to: those it has noted, those of    *)
(* the pages it has, and those of the pages that follow.                   *)
Coming(x) ==
  \/ x \in Range(todo)
  \/ pc = "list" /\ (x \in Range(got)
                     \/ \E i \in 1..Len(listing[at]) : i > Len(got) /\ listing[at][i] = x)

Under(d) == UNION {FilesIn(listing[e]) : e \in Below[d]}
Seen(f) ==
  \/ f \in Range(files) \cup System
  \/ Coming(f)
  \/ \E d \in Dirs : Coming(d) /\ f \in Under(d)

(* The owner moves files only, and no file that was there is lost.         *)
Found ==
  /\ \A d \in Dirs : Range(listing[d]) \cap Dirs = Range(Listing[d]) \cap Dirs
  /\ pc \in {"list", "walk"} /\ link \in Dirs /\ ~shrunk => \A f \in stable : Seen(f)
=============================================================================
