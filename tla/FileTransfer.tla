---------------------------- MODULE FileTransfer ----------------------------
(***************************************************************************)
(* How workers bring the content of one Telegram file to disk: downloadFile*)
(* with its retries, the saver that writes a fresh download to all output  *)
(* paths at once, and resumeExistingPartialFile, which appends to what an  *)
(* earlier session has left (internal/downloader/downloader.go, file.go).  *)
(*                                                                         *)
(* Different files never share a path (PathClaims), so one file and its    *)
(* paths are enough; but a dialog may offer the same file more than once,  *)
(* and then several workers have the same paths.  The process may die at   *)
(* any step.  Dry runs do not touch the disk and are left to PathClaims.   *)
(***************************************************************************)
EXTENDS Naturals, Sequences, FiniteSets

CONSTANTS
  Workers,
  Paths,     \* the output paths that the file may have
  PathSets,  \* those it may have in one session, one per subdirectory
  Size,      \* its size, in the chunks that Telegram delivers
  Retries,   \* retryCount
  Copies,    \* bound: how many workers may have the file at once, by its paths
  None, Closed, Orphan

ASSUME TransferAssumption ==
  /\ PathSets \subseteq SUBSET Paths /\ PathSets # {}
  /\ Size \in Nat \ {0} /\ Retries \in Nat \ {0}
  /\ Copies \in [PathSets -> Nat]
  /\ None \notin Paths \cup Seq(Nat)
  /\ Closed \notin Nat /\ Orphan \notin Nat

VARIABLES
  cancelled, rewrite,  \* the command's context, and its flag --rewrite
  paths,     \* the output paths in this session
  before,    \* history: what existed when the session started, if it is kept
  disk,      \* disk[p]: the chunks stored at p, or None; a hole reads as 0
  pc,        \* what worker w is doing
  attempt,   \* its attempt at the download
  chunk,     \* the next chunk that it receives
  left,      \* the paths that addFileToSaver has yet to look at
  make,      \* the path that it has found absent and will create, or None
  handle,    \* handle[w][p]: the offset of an open file, Closed, or Orphan:
             \* still open but unlinked
  mixed      \* history: the paths written twice over, see below

session == <<cancelled, rewrite, paths, before>>
transferVars == <<session, disk, pc, attempt, chunk, left, make, handle, mixed>>

AllClosed == [p \in Paths |-> Closed]

TransferTypeOK ==
  /\ cancelled \in BOOLEAN /\ rewrite \in BOOLEAN /\ paths \in PathSets
  /\ before \subseteq Paths
  /\ disk \in [Paths -> Seq(0..Size) \cup {None}]
  /\ pc \in [Workers -> {"idle", "stat", "resume", "append", "create", "stream"}]
  /\ attempt \in [Workers -> 1..Retries]
  /\ chunk \in [Workers -> 1..(Size + 1)]
  /\ left \in [Workers -> SUBSET Paths]
  /\ make \in [Workers -> Paths \cup {None}]
  /\ handle \in [Workers -> [Paths -> Nat \cup {Closed, Orphan}]]
  /\ mixed \subseteq Paths

All(x) == [w \in Workers |-> x]

TransferInit ==
  /\ cancelled = FALSE /\ rewrite \in BOOLEAN /\ paths \in PathSets
  /\ pc = All("idle") /\ attempt = All(1) /\ chunk = All(1)
  /\ left = All({}) /\ make = All(None) /\ handle = All(AllClosed)
  /\ disk = [p \in Paths |-> None] /\ mixed = {} /\ before = {}

-----------------------------------------------------------------------------
Whole == [i \in 1..Size |-> i]
IsPart(c) == Len(c) <= Size /\ \A i \in 1..Len(c) : c[i] = i

Exists(p) == disk[p] # None
Length(p) == IF Exists(p) THEN Len(disk[p]) ELSE 0

(* Writing chunk x at offset n; a gap before it is filled with zeros.      *)
WriteAt(c, n, x) ==
  [i \in 1..(IF n < Len(c) THEN Len(c) ELSE n + 1) |->
     IF i = n + 1 THEN x ELSE IF i <= Len(c) THEN c[i] ELSE 0]

Open(w, p) == handle[w][p] # Closed
Linked(w, p) == handle[w][p] \in Nat
OthersOpen(w, p) == \E v \in Workers \ {w} : Linked(v, p)

(* However a job ends, worker counts it and takes the next one.            *)
Settle(w) ==
  /\ pc' = [pc EXCEPT ![w] = "idle"]
  /\ attempt' = [attempt EXCEPT ![w] = 1] /\ chunk' = [chunk EXCEPT ![w] = 1]
  /\ left' = [left EXCEPT ![w] = {}] /\ make' = [make EXCEPT ![w] = None]
  /\ UNCHANGED session

CloseAll(w) == [handle EXCEPT ![w] = AllClosed]

(* A retry is due unless the context is cancelled or retryCount is reached.*)
Again(w) == ~cancelled /\ attempt[w] < Retries

NextAttempt(w) == attempt' = [attempt EXCEPT ![w] = @ + 1]

-----------------------------------------------------------------------------
(* The dialog may offer the file again at any time.                        *)
Take(w) ==
  /\ pc[w] = "idle"
  /\ Cardinality({v \in Workers : pc[v] # "idle"}) < Copies[paths]
  /\ pc' = [pc EXCEPT ![w] = "stat"]
  /\ UNCHANGED <<session, disk, attempt, chunk, left, make, handle, mixed>>

(* downloadFile asks resumeExistingPartialFile first; its directories may  *)
(* be impossible to create, and its Stat may fail.                         *)
CanResume ==
  /\ ~rewrite
  /\ \E p \in paths : paths = {p} /\ Length(p) \in 1..(Size - 1)

Stat(w) ==
  /\ pc[w] = "stat"
  /\ pc' = [pc EXCEPT ![w] = IF CanResume THEN "resume" ELSE "create"]
  /\ left' = [left EXCEPT ![w] = IF CanResume THEN {} ELSE paths]
  /\ UNCHANGED <<session, disk, attempt, chunk, make, handle, mixed>>

StatFails(w) ==
  /\ pc[w] = "stat" /\ Settle(w)
  /\ UNCHANGED <<disk, handle, mixed>>

-----------------------------------------------------------------------------
(* One attempt of a resume: Stat, open for append, and the chunks from the *)
(* size found.                                                             *)

(* (A definition whose name ends in _Slip is not part of the model: it is  *)
(* the definition after it with a mistake in it, used to see that the      *)
(* properties notice the mistake.)                                         *)
From_Slip(p) == Length(p) + 2
From(p) == Length(p) + 1

ResumeOpen(w, p) ==
  /\ pc[w] = "resume" /\ ~cancelled
  /\ Length(p) \in 0..(Size - 1) /\ Exists(p)
  /\ pc' = [pc EXCEPT ![w] = "append"]
  /\ chunk' = [chunk EXCEPT ![w] = From(p)]
  /\ handle' = [handle EXCEPT ![w][p] = 0]
  /\ mixed' = IF OthersOpen(w, p) THEN mixed \cup {p} ELSE mixed
  /\ UNCHANGED <<session, disk, attempt, left, make>>

ResumeComplete(w, p) ==
  /\ pc[w] = "resume" /\ ~cancelled /\ Length(p) >= Size
  /\ Settle(w)
  /\ UNCHANGED <<disk, handle, mixed>>

(* The context is cancelled, or the file cannot be examined or opened.     *)
ResumeFails(w) ==
  /\ pc[w] = "resume" /\ Settle(w)
  /\ UNCHANGED <<disk, handle, mixed>>

AppendChunk(w, p) ==
  /\ pc[w] = "append" /\ ~cancelled /\ chunk[w] <= Size
  /\ disk' = IF Linked(w, p) THEN [disk EXCEPT ![p] = Append(@, chunk[w])] ELSE disk
  /\ chunk' = [chunk EXCEPT ![w] = @ + 1]
  /\ UNCHANGED <<session, pc, attempt, left, make, handle, mixed>>

(* The stream has ended, maybe early, and the final Stat finds the file    *)
(* complete ...                                                            *)
LongEnough_Slip(p) == TRUE
LongEnough(p) == Length(p) >= Size

Resumed(w, p) ==
  /\ pc[w] = "append" /\ LongEnough(p)
  /\ Settle(w) /\ handle' = CloseAll(w)
  /\ UNCHANGED <<disk, mixed>>

(* ... or the attempt has failed and is made again ...                     *)
ResumeAgain(w, p) ==
  /\ pc[w] = "append" /\ Again(w)
  /\ chunk[w] <= Size \/ ~LongEnough(p)
  /\ pc' = [pc EXCEPT ![w] = "resume"]
  /\ NextAttempt(w) /\ handle' = CloseAll(w)
  /\ UNCHANGED <<session, disk, chunk, left, make, mixed>>

(* ... or it was the last one, or closing or examining the file fails.     *)
AppendFails(w) ==
  /\ pc[w] = "append"
  /\ Settle(w) /\ handle' = CloseAll(w)
  /\ UNCHANGED <<disk, mixed>>

-----------------------------------------------------------------------------
(* A fresh download.  addFileToSaver looks whether a path exists, and then *)
(* creates it: other workers may run in between.                           *)

Creatable_Slip(p) == TRUE
Creatable(p) == ~Exists(p) \/ rewrite

Check(w, p) ==
  /\ pc[w] = "create" /\ make[w] = None /\ p \in left[w]
  /\ left' = [left EXCEPT ![w] = @ \ {p}]
  /\ make' = [make EXCEPT ![w] = IF Creatable(p) THEN p ELSE None]
  /\ UNCHANGED <<session, disk, pc, attempt, chunk, handle, mixed>>

(* Create truncates what another worker may have created meanwhile.        *)
Create(w, p) ==
  /\ pc[w] = "create" /\ make[w] = p
  /\ make' = [make EXCEPT ![w] = None]
  /\ disk' = [disk EXCEPT ![p] = <<>>]
  /\ handle' = [handle EXCEPT ![w][p] = 0]
  /\ mixed' = IF OthersOpen(w, p) THEN mixed \cup {p} ELSE mixed \ {p}
  /\ UNCHANGED <<session, pc, attempt, chunk, left>>

(* What the saver has created before the error stays, open and empty.      *)
CreateFails(w) ==
  /\ pc[w] = "create" /\ Settle(w)
  /\ handle' = CloseAll(w)
  /\ UNCHANGED <<disk, mixed>>

Skip(w) ==
  /\ pc[w] = "create" /\ left[w] = {} /\ make[w] = None
  /\ \A p \in Paths : ~Open(w, p)
  /\ Settle(w)
  /\ UNCHANGED <<disk, handle, mixed>>

Begin(w) ==
  /\ pc[w] = "create" /\ left[w] = {} /\ make[w] = None
  /\ \E p \in Paths : Open(w, p)
  /\ pc' = [pc EXCEPT ![w] = "stream"]
  /\ UNCHANGED <<session, disk, attempt, chunk, left, make, handle, mixed>>

(* Write stores a chunk in the files one after the other; in which of them *)
(* it got when an error stops it is a choice.                              *)
Store(w, S) ==
  /\ disk' = [p \in Paths |->
                IF p \in S /\ Linked(w, p)
                THEN WriteAt(disk[p], handle[w][p], chunk[w]) ELSE disk[p]]
  /\ handle' = [handle EXCEPT ![w] = [p \in Paths |->
                  IF p \in S /\ Linked(w, p) THEN @[p] + 1 ELSE @[p]]]

Write(w) ==
  /\ pc[w] = "stream" /\ ~cancelled /\ chunk[w] <= Size
  /\ Store(w, Paths)
  /\ chunk' = [chunk EXCEPT ![w] = @ + 1]
  /\ UNCHANGED <<session, pc, attempt, left, make, mixed>>

(* Download has returned no error.  Nothing compares what it brought with  *)
(* the size of the file: a stream that ends early counts like a whole one. *)
Downloaded(w) ==
  /\ pc[w] = "stream"
  /\ Settle(w) /\ handle' = CloseAll(w)
  /\ UNCHANGED <<disk, mixed>>

(* The next attempt streams the file from its start into the same saver,   *)
(* which goes on writing where the failed attempt has stopped.             *)
DownloadAgain(w) ==
  /\ pc[w] = "stream" /\ Again(w)
  /\ NextAttempt(w) /\ chunk' = [chunk EXCEPT ![w] = 1]
  /\ \E S \in SUBSET Paths :
       /\ S # {} => chunk[w] <= Size /\ S # {p \in Paths : Open(w, p)}
       /\ Store(w, S)
  /\ mixed' = mixed \cup {p \in Paths : Linked(w, p) /\ handle'[w][p] # 0}
  /\ UNCHANGED <<session, pc, left, make>>

(* The last attempt has failed: the saver removes its files, by their      *)
(* names; that may fail as well.                                           *)
Removed(w) == {p \in Paths : Open(w, p)}

DownloadFails(w) ==
  /\ pc[w] = "stream" /\ Settle(w)
  /\ \E S \in SUBSET Removed(w) :
       /\ disk' = [p \in Paths |-> IF p \in S THEN None ELSE disk[p]]
       /\ mixed' = mixed \ S
       /\ handle' = [v \in Workers |-> [p \in Paths |->
                       IF v = w THEN Closed
                       ELSE IF p \in S /\ Open(v, p) THEN Orphan ELSE handle[v][p]]]

-----------------------------------------------------------------------------
Cancel ==
  /\ ~cancelled /\ cancelled' = TRUE
  /\ UNCHANGED <<rewrite, paths, before, disk, pc, attempt, chunk, left, make, handle, mixed>>

(* The program ends or dies, and the next session starts.                  *)
Restart ==
  /\ cancelled' = FALSE /\ rewrite' \in BOOLEAN /\ paths' \in PathSets
  /\ pc' = All("idle") /\ attempt' = All(1) /\ chunk' = All(1)
  /\ left' = All({}) /\ make' = All(None) /\ handle' = All(AllClosed)
  /\ before' = {p \in Paths : Exists(p) /\ ~rewrite'}
  /\ UNCHANGED <<disk, mixed>>

Prepare(w) ==
  \/ Stat(w) \/ StatFails(w)
  \/ \E p \in paths : Check(w, p) \/ Create(w, p)
  \/ CreateFails(w) \/ Skip(w) \/ Begin(w)

Resume(w) ==
  \/ \E p \in paths : ResumeOpen(w, p) \/ ResumeComplete(w, p)
  \/ ResumeFails(w)
  \/ \E p \in paths : AppendChunk(w, p) \/ Resumed(w, p)
  \/ \E p \in paths : ResumeAgain(w, p)
  \/ AppendFails(w)

Stream(w) == Write(w) \/ Downloaded(w) \/ DownloadAgain(w) \/ DownloadFails(w)

TransferNext ==
  \/ Cancel \/ Restart
  \/ \E w \in Workers : Take(w) \/ Prepare(w) \/ Resume(w) \/ Stream(w)

TransferSpec == TransferInit /\ [][TransferNext]_transferVars

-----------------------------------------------------------------------------
(* What lies on disk is always the beginning of the file, after any number *)
(* of crashes, failed and resumed downloads; except for the paths in mixed,*)
(* on which a retry has written the start of the file behind what it had   *)
(* before, or two workers have written at a time.                          *)
PrefixOnDisk == \A p \in Paths \ mixed : Exists(p) => IsPart(disk[p])

(* Without --rewrite, what an earlier session has brought to disk is never *)
(* lost: it is appended to or left alone.                                  *)
EarlierDataKept ==
  [][\A p \in before :
       /\ Exists(p)' /\ Len(disk'[p]) >= Len(disk[p])
       /\ \A i \in 1..Len(disk[p]) : disk'[p][i] = disk[p][i]]_transferVars

CountsResumed(w) == \E p \in paths : ResumeComplete(w, p) \/ Resumed(w, p)

(* When a file is counted as downloaded, what is on disk is what the worker*)
(* is to answer for, on every path that is not mixed: after a resume all of*)
(* the file, whichever sessions brought its parts; after a fresh download, *)
(* at every path that it wrote, what the last stream brought, once and in  *)
(* its order.                                                              *)
Received(w) == [i \in 1..(chunk[w] - 1) |-> i]

CountedWhole ==
  [][\A w \in Workers : \A p \in paths \ mixed :
       /\ CountsResumed(w) => disk[p] = Whole
       /\ Downloaded(w) /\ Linked(w, p) => disk[p] = Received(w)]_transferVars

(* The tests compare a downloaded file with what the server sent: when all *)
(* of it has been sent, what is counted as downloaded is that file, without*)
(* an exception for the mixed paths.                                       *)
AllSent(w) == CountsResumed(w) \/ (Downloaded(w) /\ chunk[w] = Size + 1)
IsWhole(w, p) == Linked(w, p) \/ pc[w] = "resume" => disk[p] = Whole

DownloadedIntact ==
  [][\A w \in Workers : AllSent(w) => \A p \in paths : IsWhole(w, p)]_transferVars

(* Whatever is counted as downloaded is all of the file.                   *)
NeverShort ==
  [][\A w \in Workers : Downloaded(w) =>
       \A p \in paths \ mixed : IsWhole(w, p)]_transferVars
=============================================================================
