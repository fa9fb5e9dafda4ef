----------------------------- MODULE PathClaims -----------------------------
(***************************************************************************)
(* Which file on disk a Telegram file is saved as: the path claims of one  *)
(* download session and the manifest that carries them to the next one     *)
(* (internal/downloader/downloader.go, manifest.go).                       *)
(*                                                                         *)
(* Sessions follow each other on one output directory.  In a session the   *)
(* feeder goroutine reserves output paths while the workers already write  *)
(* to the paths reserved before; Stop saves the manifest, then joins the   *)
(* workers.  The process may die at any step and is then started again.    *)
(* Paths are relative to the output directory.                             *)
(***************************************************************************)
EXTENDS Naturals, FiniteSets

CONSTANTS
  Identity,    \* identities of files (the Telegram document or photo id)
  Logical,     \* the paths that files ask for: subdirectory/display name
  Path,        \* every path of the output directory
  Requests,    \* Requests[i]: the sets of paths file i may ask for at once
  Suffix,      \* the suffixes 1, 2, ... tried by claimIdentifiedPath
  Identified,  \* Identified[<<l, i, n>>]: l with identity i and suffix n
  Legacy,      \* where files of earlier versions may be found
  SizeOf,      \* the size Telegram announces for each identity
  Stable,      \* the identities embedded in the file's location
  Options,     \* the flags a session may be started with
  Losses,      \* what may be lost: "run", "gap", "load" (see the actions)
  None, Foreign

ASSUME PathAssumption ==
  /\ Logical \subseteq Path
  /\ Requests \in [Identity -> SUBSET SUBSET Logical]
  /\ Suffix \subseteq Nat \ {0}
  /\ Identified \in [Logical \X Identity \X Suffix -> Path]
  /\ Legacy \subseteq Path
  /\ SizeOf \in [Identity -> Nat]
  /\ Stable \subseteq Identity
  /\ Options \subseteq [dryRun : BOOLEAN, rewrite : BOOLEAN]
  /\ Options # {}
  /\ None \notin Path \cup Identity
  /\ None \notin [Logical \X Identity -> Path \cup {None}]
  /\ Foreign \notin Identity

VARIABLES
  opts,      \* the flags of the session
  session,   \* "down", "feeding", "saving", "gap", "draining"
  claims,    \* pathClaims: the identity that claimed a path
  manifest,  \* the manifest in memory
  dirty,     \* manifestDirty
  stored,    \* the manifest file: a manifest, or None if there is none
  hand,      \* the file whose paths the feeder is reserving
  held,      \* the files handed to workers and not yet finished
  disk,      \* what is stored at each path
  names      \* history: every <<l, i, p>> that a save has committed

memory == <<claims, manifest, dirty>>
vars == <<opts, session, claims, manifest, dirty, stored, hand, held, disk, names>>

Absent == [by |-> {}, size |-> 0]
NoHand == [id |-> None, left |-> {}, got |-> {}]
NoClaims == [p \in Path |-> None]
EmptyManifest == [k \in Logical \X Identity |-> None]

Manifests == [Logical \X Identity -> Path \cup {None}]
Job == [id : Identity, paths : SUBSET Path, pc : {"new", "fresh", "resume"}]

TypeOK ==
  /\ opts \in Options
  /\ session \in {"down", "feeding", "saving", "gap", "draining"}
  /\ claims \in [Path -> Identity \cup {None}]
  /\ manifest \in Manifests
  /\ dirty \in BOOLEAN
  /\ stored \in Manifests \cup {None}
  /\ hand \in [id : Identity \cup {None}, left : SUBSET Logical, got : SUBSET Path]
  /\ held \subseteq Job
  /\ disk \in [Path -> [by : SUBSET (Identity \cup {Foreign}), size : Nat]]
  /\ names \subseteq Logical \X Identity \X Path

-----------------------------------------------------------------------------
(* The directory may hold files of earlier versions, which kept no         *)
(* manifest ("legacy" in the tests).                                       *)

Exists(p) == disk[p].by # {}

LegacyDisk ==
  [Path -> {Absent} \cup [by : {{Foreign}}, size : {SizeOf[i] : i \in Identity} \cup {1}]]

Init ==
  /\ opts \in Options
  /\ session = "down"
  /\ claims = NoClaims /\ manifest = EmptyManifest /\ dirty = FALSE
  /\ stored = None
  /\ hand = NoHand /\ held = {}
  /\ disk \in {d \in LegacyDisk : \A p \in Path \ Legacy : d[p] = Absent}
  /\ names = {}

-----------------------------------------------------------------------------
(* newDownloader and SetOutputDir: load the manifest and claim every path  *)
(* it names.  A manifest that cannot be read ("load") is an error that is  *)
(* recorded; the session runs on an empty one.                             *)

ClaimsOf(m, c) ==
  \A p \in Path :
    LET owners == {i \in Identity : \E l \in Logical : m[<<l, i>>] = p}
    IN IF owners = {} THEN c[p] = None ELSE c[p] \in owners

SetOutputDir ==
  /\ session = "down"
  /\ session' = "feeding"
  /\ opts' \in Options
  /\ \/ manifest' = IF stored = None THEN EmptyManifest ELSE stored
     \/ manifest' = EmptyManifest /\ "load" \in Losses
  /\ claims' \in {c \in [Path -> Identity \cup {None}] : ClaimsOf(manifest', c)}
  /\ UNCHANGED <<dirty, stored, hand, held, disk, names>>

(* The feeder receives a file that asks for one path per subdirectory.     *)
Receive(i, ls) ==
  /\ session = "feeding" /\ hand = NoHand
  /\ hand' = [id |-> i, left |-> ls, got |-> {}]
  /\ UNCHANGED <<opts, session, memory, stored, held, disk, names>>

-----------------------------------------------------------------------------
(* reserveOutputPaths, one turn of its loop per action: workers write to   *)
(* the directory between two turns.  (A definition whose name ends in      *)
(* _Slip is not part of the model: it is the definition after it with a    *)
(* mistake in it, used to see that the properties notice the mistake.)     *)

Lookup_Slip(l, i) == None
Lookup(l, i) == manifest[<<l, i>>]

Free(p, i) == claims[p] \in {None, i}

HasAmbiguousExistingFile_Slip(l, i) == FALSE
HasAmbiguousExistingFile(l, i) ==
  /\ i \in Stable /\ SizeOf[i] > 0
  /\ Exists(l) /\ disk[l].size # SizeOf[i]

ClaimIdentifiedPath(l, i, p) ==
  \E n \in Suffix :
    /\ p = Identified[<<l, i, n>>] /\ Free(p, i)
    /\ \A m \in Suffix : m < n => ~Free(Identified[<<l, i, m>>], i)

OutputPath_Slip(l, i, p) ==
  IF HasAmbiguousExistingFile(l, i) THEN ClaimIdentifiedPath(l, i, p) ELSE p = l

OutputPath(l, i, p) ==
  \/ /\ claims[l] = None /\ HasAmbiguousExistingFile(l, i)
     /\ ClaimIdentifiedPath(l, i, p)
  \/ /\ claims[l] = None /\ ~HasAmbiguousExistingFile(l, i) /\ p = l
  \/ /\ claims[l] = i /\ p = l
  \/ /\ claims[l] \notin {None, i} /\ ClaimIdentifiedPath(l, i, p)

Reserve(l, p) ==
  /\ claims' = [claims EXCEPT ![p] = hand.id]
  /\ hand' = [hand EXCEPT !.left = @ \ {l}, !.got = @ \cup {p}]
  /\ UNCHANGED <<opts, session, stored, held, disk, names>>

ReserveKnown(l) ==
  /\ session = "feeding" /\ l \in hand.left
  /\ Lookup(l, hand.id) # None
  /\ Reserve(l, Lookup(l, hand.id))
  /\ UNCHANGED <<manifest, dirty>>

ReserveNew(l, p) ==
  /\ session = "feeding" /\ l \in hand.left
  /\ Lookup(l, hand.id) = None
  /\ OutputPath(l, hand.id, p)
  /\ Reserve(l, p)
  /\ IF opts.dryRun THEN UNCHANGED <<manifest, dirty>>
     ELSE /\ manifest' = [manifest EXCEPT ![<<l, hand.id>>] = p]
          /\ dirty' = TRUE

(* The reserved file goes to a worker, or is dropped on cancellation.      *)
Send ==
  /\ session = "feeding" /\ hand # NoHand /\ hand.left = {}
  /\ held' = held \cup {[id |-> hand.id, paths |-> hand.got, pc |-> "new"]}
  /\ hand' = NoHand
  /\ UNCHANGED <<opts, session, memory, stored, disk, names>>

(* AddDownloadQueue's goroutine ends: its source is closed, or the context *)
(* is cancelled while it receives or sends.                                *)
FeederEnds ==
  /\ session = "feeding" /\ hand.left = {}
  /\ session' = IF dirty THEN "saving" ELSE "draining"
  /\ hand' = NoHand
  /\ UNCHANGED <<opts, memory, stored, held, disk, names>>

-----------------------------------------------------------------------------
(* Stop: saveFileManifest writes a temporary file, removes the manifest    *)
(* and renames the temporary file; the workers are still running.          *)

SaveRemoveOld ==
  /\ session = "saving"
  /\ session' = "gap" /\ stored' = None
  /\ UNCHANGED <<opts, memory, hand, held, disk, names>>

SaveRename ==
  /\ session = "gap"
  /\ session' = "draining" /\ stored' = manifest
  /\ names' = names \cup {t \in Logical \X Identity \X Path :
                            manifest[<<t[1], t[2]>>] = t[3]}
  /\ UNCHANGED <<opts, memory, hand, held, disk>>

(* An I/O error of the save is recorded and Stop goes on without it.       *)
SaveFails ==
  /\ session \in {"saving", "gap"}
  /\ session = "gap" => "gap" \in Losses
  /\ session' = "draining"
  /\ UNCHANGED <<opts, memory, stored, hand, held, disk, names>>

Forget ==
  /\ session' = "down"
  /\ claims' = NoClaims /\ manifest' = EmptyManifest /\ dirty' = FALSE
  /\ hand' = NoHand
  /\ UNCHANGED <<opts, stored, disk, names>>

(* The workers are joined and the Downloader is dropped.                   *)
Joined ==
  /\ session = "draining" /\ held = {}
  /\ Forget /\ UNCHANGED held

(* The process dies, between two steps of the save ("gap") or elsewhere.   *)
Crash ==
  /\ session # "down"
  /\ (IF session = "gap" THEN "gap" ELSE "run") \in Losses
  /\ Forget /\ held' = {}

-----------------------------------------------------------------------------
(* What a worker does to the disk (downloadFile): resume the one partial   *)
(* file, or create the files that do not exist; a failed fresh download is *)
(* removed again, a failed resume is left as it is.  Only a resume looks at*)
(* the size it ends with.  FileTransfer has the content and the retries.   *)

CanResume_Slip(h) ==
  \E p \in h.paths : h.paths = {p} /\ disk[p].size \in 1..(SizeOf[h.id] - 1)

CanResume(h) ==
  /\ ~opts.rewrite /\ ~opts.dryRun
  /\ \E p \in h.paths : h.paths = {p} /\ disk[p].size \in 1..(SizeOf[h.id] - 1)

Targets(h) == {p \in h.paths : opts.rewrite \/ ~Exists(p)}

Becomes(h, hs) == held' = (held \ {h}) \cup hs

BeginResume(h) ==
  /\ h.pc = "new" /\ CanResume(h)
  /\ Becomes(h, {[h EXCEPT !.pc = "resume"]})
  /\ UNCHANGED disk

BeginFresh(h) ==
  /\ h.pc = "new" /\ ~CanResume(h) /\ ~opts.dryRun /\ Targets(h) # {}
  /\ Becomes(h, {[h EXCEPT !.pc = "fresh", !.paths = Targets(h)]})
  /\ disk' = [p \in Path |-> IF p \in Targets(h)
                             THEN [by |-> {h.id}, size |-> 0] ELSE disk[p]]

Skip(h) ==
  /\ h.pc = "new" /\ ~CanResume(h) /\ (opts.dryRun \/ Targets(h) = {})
  /\ Becomes(h, {}) /\ UNCHANGED disk

Grow(h) ==
  /\ h.pc # "new"
  /\ disk' = [p \in Path |->
                IF p \in h.paths /\ disk[p].size < SizeOf[h.id]
                THEN [by |-> disk[p].by \cup {h.id}, size |-> disk[p].size + 1]
                ELSE disk[p]]
  /\ UNCHANGED held

Finish(h) ==
  /\ h.pc # "new"
  /\ h.pc = "resume" => \A p \in h.paths : disk[p].size >= SizeOf[h.id]
  /\ Becomes(h, {}) /\ UNCHANGED disk

Fail(h) ==
  /\ h.pc # "new"
  /\ Becomes(h, {})
  /\ disk' = IF h.pc = "resume" THEN disk
             ELSE [p \in Path |-> IF p \in h.paths THEN Absent ELSE disk[p]]

Worker(h) ==
  /\ BeginResume(h) \/ BeginFresh(h) \/ Skip(h) \/ Grow(h) \/ Finish(h) \/ Fail(h)
  /\ UNCHANGED <<opts, session, memory, stored, hand, names>>

-----------------------------------------------------------------------------
Next ==
  \/ SetOutputDir
  \/ \E i \in Identity : \E ls \in Requests[i] : Receive(i, ls)
  \/ \E l \in Logical : ReserveKnown(l)
  \/ \E l \in Logical, p \in Path : ReserveNew(l, p)
  \/ Send \/ FeederEnds
  \/ SaveRemoveOld \/ SaveRename \/ SaveFails
  \/ Joined \/ Crash
  \/ \E h \in held : Worker(h)

Spec == Init /\ [][Next]_vars

-----------------------------------------------------------------------------
(* Two files that workers hold at the same time, or that a worker holds    *)
(* and the feeder has reserved, never share an output path unless they are *)
(* the same Telegram file: reserveOutputPaths keeps pathClaims and the     *)
(* manifest in step, over restarts with a lost or an outdated manifest.    *)
ExclusivePaths ==
  /\ \A g, h \in held : g.paths \cap h.paths # {} => g.id = h.id
  /\ \A h \in held : h.paths \cap hand.got # {} => h.id = hand.id

(* No file mixes the bytes of a stable identity with those of another one: *)
(* a partial file is resumed only by the Telegram file that began it, even *)
(* when the manifest that named it was lost with a crash.                  *)
OneAuthor ==
  \A p \in Path : \A i \in disk[p].by \cap Stable : disk[p].by = {i}

(* A name that was saved stays: no later session saves another path for    *)
(* the same file and requested path, in whatever order the files arrive.   *)
NamesStable ==
  \A s, t \in names : s[1] = t[1] /\ s[2] = t[2] => s[3] = t[3]

(* A complete file with a stable identity is changed for the same Telegram *)
(* file, --rewrite included: another file that asks for its path gets a    *)
(* path of its own.  There is one exception.  Where no manifest names the  *)
(* file, for it was lost or never saved, only its size tells whose it is,  *)
(* so one of the same size, or of a size or an identity that is not known, *)
(* takes its path, and --rewrite truncates it.  (A manifest that cannot be *)
(* read for a while may give the path to its owner of before: without the  *)
(* loss "load" only.)                                                      *)
Complete(p, i) == disk[p] = [by |-> {i}, size |-> SizeOf[i]]
Indistinct(j, i) == j \notin Stable \/ SizeOf[j] \in {0, SizeOf[i]}
Unnamed(p, i) == \A l \in Logical : manifest[<<l, i>>] # p
NoClobber ==
  [][\A p \in Path, i \in Stable :
       Complete(p, i) /\ disk'[p] # disk[p]
         => \E h \in held : /\ p \in h.paths
                            /\ h.id = i \/ (Indistinct(h.id, i) /\ Unnamed(p, i))]_vars

(* Without the exception: a complete file is changed for itself only.      *)
NeverClobbered ==
  [][\A p \in Path, i \in Stable :
       Complete(p, i) /\ disk'[p] # disk[p]
         => \E h \in held : h.id = i /\ p \in h.paths]_vars

(* A dry run changes nothing in the directory, manifest included.          *)
DryRunInert ==
  [][session # "down" /\ opts.dryRun => UNCHANGED <<disk, stored>>]_vars
=============================================================================
