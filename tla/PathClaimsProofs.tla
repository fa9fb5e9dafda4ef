-------------------------- MODULE PathClaimsProofs --------------------------
(***************************************************************************)
(* Proofs about PathClaims, for every set of files, names and paths: two   *)
(* different Telegram files never share an output path, a dry run leaves   *)
(* no trace, and saved names are stable as long as no manifest is lost.    *)
(*                                                                         *)
(* ExclusivePaths is not inductive: it follows from ClaimsAgree, which     *)
(* says that whatever a worker, the feeder or the manifest refers to is    *)
(* claimed by the right identity, and that a stored manifest never gives   *)
(* one path to two identities, so that loading it can establish the rest.  *)
(*                                                                         *)
(* Who wrote to a path is a matter of its names: if no identified name is  *)
(* another's and no manifest is unreadable, Authorship holds, and no file  *)
(* mixes two authors; with sizes that differ, nothing is clobbered.        *)
(***************************************************************************)
EXTENDS PathClaims, TLAPS

HandTyped == hand = NoHand \/ hand.id \in Identity

HeldClaimed == \A h \in held : \A p \in h.paths : claims[p] = h.id
HandClaimed == \A p \in hand.got : claims[p] = hand.id
ManifestClaimed ==
  \A l \in Logical, i \in Identity :
    manifest[<<l, i>>] # None => claims[manifest[<<l, i>>]] = i
StoredInjective ==
  stored # None =>
    \A k, m \in Logical, i, j \in Identity :
      stored[<<k, i>>] # None /\ stored[<<k, i>>] = stored[<<m, j>>] => i = j
DownIdle == session = "down" => held = {} /\ hand = NoHand /\ dirty = FALSE

ClaimsAgree ==
  /\ HandTyped /\ DownIdle
  /\ HeldClaimed /\ HandClaimed
  /\ ManifestClaimed /\ StoredInjective

-----------------------------------------------------------------------------
(* Every job that a worker's step leaves has the identity of a job of      *)
(* before, and no path beyond that job's.                                  *)

ComesFrom(g, h) == g \in Job /\ g.id = h.id /\ g.paths \subseteq h.paths

(* A worker only ever finishes its job or goes on with part of its paths.  *)
LEMMA WorkerShrinks ==
  ASSUME TypeOK, NEW h \in held, Worker(h), NEW g \in held'
  PROVE  \E k \in held : ComesFrom(g, k)
<1> USE DEF TypeOK, Job, ComesFrom
<1>1. CASE g \in held
  BY <1>1
<1>2. CASE g \notin held
  <2>1. CASE BeginResume(h)
    BY <1>2, <2>1 DEF BeginResume, Becomes
  <2>2. CASE BeginFresh(h)
    <3>1. g = [h EXCEPT !.pc = "fresh", !.paths = Targets(h)]
      BY <1>2, <2>2 DEF BeginFresh, Becomes
    <3> QED
      BY <3>1 DEF Targets
  <2>3. CASE Skip(h) \/ Finish(h) \/ Fail(h) \/ Grow(h)
    BY <1>2, <2>3 DEF Skip, Finish, Fail, Grow, Becomes
  <2> QED
    BY <2>1, <2>2, <2>3 DEF Worker
<1> QED
  BY <1>1, <1>2

(* Whatever a worker does, the disk stays typed.                           *)
LEMMA WorkerDisk ==
  ASSUME TypeOK, NEW h \in held, Worker(h)
  PROVE  disk' \in [Path -> [by : SUBSET (Identity \cup {Foreign}), size : Nat]]
<1> USE DEF TypeOK, Job
<1>1. h.id \in Identity
  OBVIOUS
<1>2. Absent \in [by : SUBSET (Identity \cup {Foreign}), size : Nat]
  BY DEF Absent
<1>3. CASE BeginFresh(h)
  BY <1>1, <1>3 DEF BeginFresh
<1>4. CASE Grow(h)
  BY <1>1, <1>4 DEF Grow
<1>5. CASE Fail(h)
  BY <1>2, <1>5 DEF Fail
<1>6. CASE BeginResume(h) \/ Skip(h) \/ Finish(h)
  BY <1>6 DEF BeginResume, Skip, Finish
<1> QED
  BY <1>3, <1>4, <1>5, <1>6 DEF Worker

-----------------------------------------------------------------------------
(* Type correctness.                                                       *)

(* What the manifest returns for a name it has is a path.                  *)
LEMMA LookupTyped ==
  ASSUME TypeOK, NEW l \in Logical, NEW i \in Identity, Lookup(l, i) # None
  PROVE  Lookup(l, i) \in Path
BY DEF TypeOK, Manifests, Lookup

(* Forgetting the session leaves every variable typed.                     *)
LEMMA ForgetTyped ==
  ASSUME TypeOK, Forget, held' \subseteq held
  PROVE  TypeOK'
<1>1. /\ NoClaims \in [Path -> Identity \cup {None}]
      /\ EmptyManifest \in Manifests
  BY DEF NoClaims, EmptyManifest, Manifests
<1>2. NoHand \in [id : Identity \cup {None}, left : SUBSET Logical, got : SUBSET Path]
  BY DEF NoHand
<1> QED
  BY <1>1, <1>2 DEF TypeOK, Forget

(* Reserving a path adds it to the paths in hand and to the claims.        *)
LEMMA ReserveTyped ==
  ASSUME TypeOK, NEW l \in Logical, NEW p \in Path, Reserve(l, p), hand.id \in Identity
  PROVE  /\ claims' \in [Path -> Identity \cup {None}]
         /\ hand' \in [id : Identity \cup {None}, left : SUBSET Logical, got : SUBSET Path]
         /\ hand'.id = hand.id
         /\ hand'.got = hand.got \cup {p}
BY DEF TypeOK, Reserve

(* The initial states are typed, and nothing is claimed.                   *)
LEMMA TypeInit == Init => TypeOK /\ ClaimsAgree
<1> SUFFICES ASSUME Init PROVE TypeOK /\ ClaimsAgree
  OBVIOUS
<1>1. disk \in [Path -> [by : SUBSET (Identity \cup {Foreign}), size : Nat]]
  <2>1. Absent \in [by : SUBSET (Identity \cup {Foreign}), size : Nat]
    BY DEF Absent
  <2>2. \A r \in [by : {{Foreign}}, size : {SizeOf[i] : i \in Identity} \cup {1}] :
          r \in [by : SUBSET (Identity \cup {Foreign}), size : Nat]
    BY PathAssumption
  <2>3. LegacyDisk \subseteq [Path -> [by : SUBSET (Identity \cup {Foreign}), size : Nat]]
    BY <2>1, <2>2 DEF LegacyDisk
  <2> QED
    BY <2>3 DEF Init
<1>2. TypeOK
  BY <1>1 DEF Init, TypeOK, NoClaims, EmptyManifest, Manifests, NoHand
<1>3. ClaimsAgree
  BY DEF Init, ClaimsAgree, HandTyped, DownIdle, HeldClaimed, HandClaimed,
         ManifestClaimed, StoredInjective, EmptyManifest, NoHand
<1> QED
  BY <1>2, <1>3

(* Every step keeps the types.                                             *)
LEMMA TypeStep == TypeOK /\ HandTyped /\ [Next]_vars => TypeOK'
<1> SUFFICES ASSUME TypeOK, HandTyped, [Next]_vars PROVE TypeOK'
  OBVIOUS
<1> USE DEF memory
<1>1. CASE SetOutputDir
  <2>1. EmptyManifest \in Manifests
    BY DEF EmptyManifest, Manifests
  <2> QED
    BY <1>1, <2>1 DEF TypeOK, SetOutputDir
<1>2. ASSUME NEW i \in Identity, NEW ls \in Requests[i], Receive(i, ls) PROVE TypeOK'
  <2>1. ls \subseteq Logical
    BY PathAssumption
  <2> QED
    BY <1>2, <2>1 DEF TypeOK, Receive
<1>3. ASSUME NEW l \in Logical, ReserveKnown(l) PROVE TypeOK'
  <2>1. hand.id \in Identity
    BY <1>3 DEF HandTyped, ReserveKnown, NoHand
  <2>2. Lookup(l, hand.id) \in Path
    BY <1>3, <2>1, LookupTyped DEF ReserveKnown
  <2>3. Reserve(l, Lookup(l, hand.id))
    BY <1>3 DEF ReserveKnown
  <2> HIDE DEF Lookup
  <2>4. /\ claims' \in [Path -> Identity \cup {None}]
        /\ hand' \in [id : Identity \cup {None}, left : SUBSET Logical, got : SUBSET Path]
    BY <2>1, <2>2, <2>3, ReserveTyped
  <2> QED
    BY <1>3, <2>4 DEF TypeOK, ReserveKnown, Reserve
<1>4. ASSUME NEW l \in Logical, NEW p \in Path, ReserveNew(l, p) PROVE TypeOK'
  <2>1. hand.id \in Identity
    BY <1>4 DEF HandTyped, ReserveNew, NoHand
  <2>2. /\ claims' \in [Path -> Identity \cup {None}]
        /\ hand' \in [id : Identity \cup {None}, left : SUBSET Logical, got : SUBSET Path]
    BY <1>4, <2>1, ReserveTyped DEF ReserveNew
  <2>3. manifest' \in Manifests /\ dirty' \in BOOLEAN
    BY <1>4, <2>1 DEF TypeOK, Manifests, ReserveNew
  <2> QED
    BY <1>4, <2>2, <2>3 DEF TypeOK, ReserveNew, Reserve
<1>5. CASE Send
  <2>1. [id |-> hand.id, paths |-> hand.got, pc |-> "new"] \in Job
    BY <1>5 DEF TypeOK, HandTyped, Send, Job
  <2>2. NoHand \in [id : Identity \cup {None}, left : SUBSET Logical, got : SUBSET Path]
    BY DEF NoHand
  <2> QED
    BY <1>5, <2>1, <2>2 DEF TypeOK, Send
<1>6. CASE FeederEnds
  <2>1. NoHand \in [id : Identity \cup {None}, left : SUBSET Logical, got : SUBSET Path]
    BY DEF NoHand
  <2> QED
    BY <1>6, <2>1 DEF TypeOK, FeederEnds
<1>7. CASE SaveRemoveOld
  BY <1>7 DEF TypeOK, SaveRemoveOld
<1>8. CASE SaveRename
  BY <1>8 DEF TypeOK, SaveRename
<1>9. CASE SaveFails
  BY <1>9 DEF TypeOK, SaveFails
<1>10. CASE Joined
  BY <1>10, ForgetTyped DEF Joined
<1>11. CASE Crash
  BY <1>11, ForgetTyped DEF Crash
<1>12. ASSUME NEW h \in held, Worker(h) PROVE TypeOK'
  <2>1. held' \subseteq Job
    BY <1>12, WorkerShrinks DEF ComesFrom
  <2>2. disk' \in [Path -> [by : SUBSET (Identity \cup {Foreign}), size : Nat]]
    BY <1>12, WorkerDisk
  <2> QED
    BY <1>12, <2>1, <2>2 DEF TypeOK, Worker
<1>13. CASE UNCHANGED vars
  BY <1>13 DEF TypeOK, vars
<1> QED
  BY <1>1, <1>2, <1>3, <1>4, <1>5, <1>6, <1>7, <1>8, <1>9, <1>10, <1>11, <1>12, <1>13
  DEF Next

-----------------------------------------------------------------------------
(* The claims agree with everything that refers to them.                   *)

(* Loading a manifest claims every path it names, so claims agree again.   *)
LEMMA SetOutputDirAgrees ==
  ASSUME TypeOK, ClaimsAgree, SetOutputDir
  PROVE  ClaimsAgree'
<1>1. held' = {} /\ hand' = NoHand /\ HandTyped' /\ DownIdle'
  BY DEF SetOutputDir, ClaimsAgree, DownIdle, HandTyped
<1>2. HeldClaimed' /\ HandClaimed'
  BY <1>1 DEF HeldClaimed, HandClaimed, NoHand
<1>3. StoredInjective'
  BY DEF SetOutputDir, ClaimsAgree, StoredInjective
<1>4. ManifestClaimed'
  <2> SUFFICES ASSUME NEW l \in Logical, NEW i \in Identity, manifest'[<<l, i>>] # None
               PROVE  claims'[manifest'[<<l, i>>]] = i
    BY DEF ManifestClaimed
  <2> DEFINE p == manifest'[<<l, i>>]
  <2>1. stored # None /\ manifest' = stored
    BY DEF SetOutputDir, EmptyManifest
  <2>2. p \in Path
    BY <2>1 DEF TypeOK, Manifests
  <2>3. claims'[p] \in {j \in Identity : \E m \in Logical : stored[<<m, j>>] = p}
    BY <2>1, <2>2 DEF SetOutputDir, ClaimsOf
  <2>4. PICK j \in Identity, m \in Logical : claims'[p] = j /\ stored[<<m, j>>] = p
    BY <2>3
  <2>5. i = j
    BY <2>1, <2>4 DEF ClaimsAgree, StoredInjective
  <2> QED
    BY <2>4, <2>5
<1> QED
  BY <1>1, <1>2, <1>3, <1>4 DEF ClaimsAgree

(* Claiming a path that is free for the identity takes it from nobody.     *)
LEMMA ReserveAgrees ==
  ASSUME TypeOK, ClaimsAgree, NEW l \in Logical, NEW p \in Path, Reserve(l, p),
         session = "feeding", hand.id \in Identity, Free(p, hand.id)
  PROVE  /\ HandTyped' /\ DownIdle' /\ HeldClaimed' /\ HandClaimed' /\ StoredInjective'
         /\ \A m \in Logical, i \in Identity :
              manifest[<<m, i>>] # None => claims'[manifest[<<m, i>>]] = i
         /\ claims'[p] = hand.id
<1>1. /\ hand'.id = hand.id /\ hand'.got = hand.got \cup {p}
      /\ claims' = [claims EXCEPT ![p] = hand.id]
      /\ claims'[p] = hand.id
      /\ UNCHANGED <<session, stored, held>>
  BY ReserveTyped DEF Reserve, TypeOK
<1>2. \A q \in Path : claims[q] # None => claims'[q] = claims[q]
  BY <1>1 DEF TypeOK, Free
<1>3. HandTyped' /\ DownIdle' /\ StoredInjective'
  BY <1>1 DEF ClaimsAgree, HandTyped, DownIdle, StoredInjective
<1>4. HeldClaimed'
  <2> SUFFICES ASSUME NEW h \in held, NEW q \in h.paths PROVE claims'[q] = h.id
    BY <1>1 DEF HeldClaimed
  <2>1. q \in Path /\ h.id \in Identity /\ claims[q] = h.id
    BY DEF TypeOK, Job, ClaimsAgree, HeldClaimed
  <2> QED
    BY <1>2, <2>1, PathAssumption
<1>5. HandClaimed'
  <2> SUFFICES ASSUME NEW q \in hand.got \cup {p} PROVE claims'[q] = hand.id
    BY <1>1 DEF HandClaimed
  <2>1. CASE q = p
    BY <1>1, <2>1
  <2>2. CASE q \in hand.got
    <3>1. q \in Path /\ claims[q] = hand.id
      BY <2>2 DEF TypeOK, ClaimsAgree, HandClaimed
    <3> QED
      BY <1>2, <3>1, PathAssumption
  <2> QED
    BY <2>1, <2>2
<1>6. ASSUME NEW m \in Logical, NEW i \in Identity, manifest[<<m, i>>] # None
      PROVE  claims'[manifest[<<m, i>>]] = i
  <2>1. manifest[<<m, i>>] \in Path /\ claims[manifest[<<m, i>>]] = i
    BY <1>6 DEF TypeOK, Manifests, ClaimsAgree, ManifestClaimed
  <2> QED
    BY <1>2, <2>1, PathAssumption
<1> QED
  BY <1>1, <1>3, <1>4, <1>5, <1>6

(* A session that is down claims nothing, and the stored manifest stays.   *)
LEMMA ForgetAgrees ==
  ASSUME ClaimsAgree, Forget, held' = {}
  PROVE  ClaimsAgree'
BY DEF ClaimsAgree, Forget, HandTyped, DownIdle, HeldClaimed, HandClaimed,
       ManifestClaimed, StoredInjective, EmptyManifest, NoHand

(* Every step keeps the agreement of claims, manifests and jobs.           *)
LEMMA AgreeStep == TypeOK /\ ClaimsAgree /\ [Next]_vars => ClaimsAgree'
<1> SUFFICES ASSUME TypeOK, ClaimsAgree, [Next]_vars PROVE ClaimsAgree'
  OBVIOUS
<1> USE DEF memory
<1>1. CASE SetOutputDir
  BY <1>1, SetOutputDirAgrees
<1>2. ASSUME NEW i \in Identity, NEW ls \in Requests[i], Receive(i, ls) PROVE ClaimsAgree'
  BY <1>2 DEF Receive, ClaimsAgree, HandTyped, DownIdle, HeldClaimed, HandClaimed,
              ManifestClaimed, StoredInjective
<1>3. ASSUME NEW l \in Logical, ReserveKnown(l) PROVE ClaimsAgree'
  <2> DEFINE p == Lookup(l, hand.id)
  <2>1. hand.id \in Identity
    BY <1>3 DEF ClaimsAgree, HandTyped, ReserveKnown, NoHand
  <2>2. p \in Path /\ Free(p, hand.id)
    BY <1>3, <2>1, LookupTyped DEF ReserveKnown, Lookup, Free, ClaimsAgree, ManifestClaimed
  <2>3. Reserve(l, p) /\ session = "feeding" /\ UNCHANGED manifest
    BY <1>3 DEF ReserveKnown
  <2> HIDE DEF p
  <2>4. /\ HandTyped' /\ DownIdle' /\ HeldClaimed' /\ HandClaimed' /\ StoredInjective'
        /\ \A m \in Logical, i \in Identity :
             manifest[<<m, i>>] # None => claims'[manifest[<<m, i>>]] = i
    BY <2>1, <2>2, <2>3, ReserveAgrees
  <2>5. ManifestClaimed'
    BY <2>3, <2>4 DEF ManifestClaimed
  <2> QED
    BY <2>4, <2>5 DEF ClaimsAgree
<1>4. ASSUME NEW l \in Logical, NEW p \in Path, ReserveNew(l, p) PROVE ClaimsAgree'
  <2>1. hand.id \in Identity
    BY <1>4 DEF ClaimsAgree, HandTyped, ReserveNew, NoHand
  <2>2. Free(p, hand.id)
    BY <1>4 DEF ReserveNew, OutputPath, ClaimIdentifiedPath, Free
  <2>3. Reserve(l, p) /\ session = "feeding"
    BY <1>4 DEF ReserveNew
  <2>4. /\ HandTyped' /\ DownIdle' /\ HeldClaimed' /\ HandClaimed' /\ StoredInjective'
        /\ \A m \in Logical, i \in Identity :
             manifest[<<m, i>>] # None => claims'[manifest[<<m, i>>]] = i
        /\ claims'[p] = hand.id
    BY <2>1, <2>2, <2>3, ReserveAgrees
  <2>5. \/ manifest' = manifest
        \/ manifest' = [manifest EXCEPT ![<<l, hand.id>>] = p]
    BY <1>4 DEF ReserveNew
  <2>6. ASSUME NEW m \in Logical, NEW i \in Identity, manifest'[<<m, i>>] # None
        PROVE  claims'[manifest'[<<m, i>>]] = i
    <3>1. CASE manifest'[<<m, i>>] = manifest[<<m, i>>]
      BY <2>4, <2>6, <3>1
    <3>2. CASE manifest'[<<m, i>>] # manifest[<<m, i>>]
      <4>1. <<m, i>> = <<l, hand.id>> /\ manifest'[<<m, i>>] = p
        BY <2>1, <2>5, <3>2 DEF TypeOK, Manifests
      <4> QED
        BY <2>4, <4>1
    <3> QED
      BY <3>1, <3>2
  <2> QED
    BY <2>4, <2>6 DEF ClaimsAgree, ManifestClaimed
<1>5. CASE Send
  BY <1>5 DEF Send, ClaimsAgree, HandTyped, DownIdle, HeldClaimed, HandClaimed,
              ManifestClaimed, StoredInjective, NoHand
<1>6. CASE FeederEnds
  BY <1>6 DEF FeederEnds, ClaimsAgree, HandTyped, DownIdle, HeldClaimed, HandClaimed,
              ManifestClaimed, StoredInjective, NoHand
<1>7. CASE SaveRemoveOld \/ SaveFails
  BY <1>7 DEF SaveRemoveOld, SaveFails, ClaimsAgree, HandTyped, DownIdle, HeldClaimed,
              HandClaimed, ManifestClaimed, StoredInjective
<1>8. CASE SaveRename
  <2>1. StoredInjective'
    BY <1>8 DEF SaveRename, ClaimsAgree, StoredInjective, ManifestClaimed
  <2> QED
    BY <1>8, <2>1 DEF SaveRename, ClaimsAgree, HandTyped, DownIdle, HeldClaimed,
                      HandClaimed, ManifestClaimed
<1>9. CASE Joined \/ Crash
  BY <1>9, ForgetAgrees DEF Joined, Crash
<1>10. ASSUME NEW h \in held, Worker(h) PROVE ClaimsAgree'
  <2>1. HeldClaimed'
    <3> SUFFICES ASSUME NEW g \in held', NEW q \in g.paths PROVE claims'[q] = g.id
      BY DEF HeldClaimed
    <3>1. PICK k \in held : ComesFrom(g, k)
      BY <1>10, WorkerShrinks
    <3> QED
      BY <1>10, <3>1 DEF ComesFrom, ClaimsAgree, HeldClaimed, Worker
  <2>2. DownIdle'
    BY <1>10 DEF ClaimsAgree, DownIdle, Worker
  <2> QED
    BY <1>10, <2>1, <2>2 DEF Worker, ClaimsAgree, HandTyped, HandClaimed, ManifestClaimed,
                             StoredInjective
<1>11. CASE UNCHANGED vars
  BY <1>11 DEF vars, ClaimsAgree, HandTyped, DownIdle, HeldClaimed, HandClaimed,
               ManifestClaimed, StoredInjective
<1> QED
  BY <1>1, <1>2, <1>3, <1>4, <1>5, <1>6, <1>7, <1>8, <1>9, <1>10, <1>11 DEF Next

(* Every variable keeps its type, and claims agree with what refers to     *)
(* them, in every session and over every crash.                            *)
THEOREM Agreement == Spec => [](TypeOK /\ ClaimsAgree)
<1>1. TypeOK /\ ClaimsAgree /\ [Next]_vars => (TypeOK /\ ClaimsAgree)'
  BY TypeStep, AgreeStep DEF ClaimsAgree
<1> QED
  BY <1>1, TypeInit, PTL DEF Spec

(* PathClaims is type-correct for every set of files, names and flags.     *)
THEOREM TypeCorrect == Spec => []TypeOK
BY Agreement, PTL

(* reserveOutputPaths never gives one output path to two Telegram files.   *)
THEOREM PathsExclusive == Spec => []ExclusivePaths
<1>1. TypeOK /\ ClaimsAgree => ExclusivePaths
  BY DEF TypeOK, Job, ClaimsAgree, HeldClaimed, HandClaimed, ExclusivePaths
<1> QED
  BY <1>1, Agreement, PTL

-----------------------------------------------------------------------------
(* A dry run.  It never marks the manifest dirty, so it never saves, and   *)
(* its workers end their jobs without touching the disk.                   *)

DryInv ==
  session # "down" /\ opts.dryRun =>
    /\ dirty = FALSE /\ session \notin {"saving", "gap"}
    /\ \A h \in held : h.pc = "new"

(* A dry run makes nothing dirty and starts no download.                   *)
LEMMA DryStep ==
  TypeOK /\ ClaimsAgree /\ DryInv /\ [Next]_vars =>
    /\ DryInv'
    /\ session # "down" /\ opts.dryRun => UNCHANGED <<disk, stored>>
<1> SUFFICES ASSUME TypeOK, ClaimsAgree, DryInv, [Next]_vars
             PROVE  /\ DryInv'
                    /\ session # "down" /\ opts.dryRun => UNCHANGED <<disk, stored>>
  OBVIOUS
<1> USE DEF DryInv, memory
<1>1. CASE SetOutputDir
  BY <1>1 DEF SetOutputDir, ClaimsAgree, DownIdle
<1>2. ASSUME NEW i \in Identity, NEW ls \in Requests[i], Receive(i, ls)
      PROVE  DryInv' /\ UNCHANGED <<disk, stored>>
  BY <1>2 DEF Receive
<1>3. ASSUME NEW l \in Logical, ReserveKnown(l)
      PROVE  DryInv' /\ UNCHANGED <<disk, stored>>
  BY <1>3 DEF ReserveKnown, Reserve
<1>4. ASSUME NEW l \in Logical, NEW p \in Path, ReserveNew(l, p)
      PROVE  DryInv' /\ UNCHANGED <<disk, stored>>
  BY <1>4 DEF ReserveNew, Reserve
<1>5. CASE Send
  BY <1>5 DEF Send
<1>6. CASE FeederEnds
  BY <1>6 DEF FeederEnds
<1>7. CASE SaveRemoveOld \/ SaveRename \/ SaveFails
  BY <1>7 DEF SaveRemoveOld, SaveRename, SaveFails
<1>8. CASE Joined \/ Crash
  BY <1>8 DEF Joined, Crash, Forget
<1>9. ASSUME NEW h \in held, Worker(h)
      PROVE  /\ DryInv'
             /\ session # "down" /\ opts.dryRun => UNCHANGED <<disk, stored>>
  <2>1. CASE session # "down" /\ opts.dryRun
    <3>1. Skip(h)
      BY <1>9, <2>1 DEF Worker, BeginResume, BeginFresh, CanResume, Grow, Finish, Fail
    <3> QED
      BY <1>9, <2>1, <3>1 DEF Worker, Skip, Becomes
  <2>2. CASE session = "down" \/ ~opts.dryRun
    BY <1>9, <2>2 DEF Worker
  <2> QED
    BY <2>1, <2>2
<1>10. CASE UNCHANGED vars
  BY <1>10 DEF vars
<1> QED
  BY <1>1, <1>2, <1>3, <1>4, <1>5, <1>6, <1>7, <1>8, <1>9, <1>10 DEF Next

(* A session with --dry-run changes neither a file nor the manifest.       *)
THEOREM DryRunsAreInert == Spec => DryRunInert
<1>1. Init => DryInv
  BY DEF Init, DryInv
<1>2. TypeOK /\ ClaimsAgree /\ DryInv /\ [Next]_vars => DryInv'
  BY DryStep
<1>3. TypeOK /\ ClaimsAgree /\ DryInv /\ [Next]_vars =>
        [session # "down" /\ opts.dryRun => UNCHANGED <<disk, stored>>]_vars
  BY DryStep
<1> QED
  BY <1>1, <1>2, <1>3, Agreement, PTL DEF Spec, DryRunInert

-----------------------------------------------------------------------------
(* Names.  Every name ever saved is in the stored manifest, or in the one  *)
(* that is about to replace it, and a session only adds to what it loaded. *)

NamesInv ==
  /\ \A t \in names :
       /\ session = "gap" => manifest[<<t[1], t[2]>>] = t[3]
       /\ session # "gap" => stored # None /\ stored[<<t[1], t[2]>>] = t[3]
  /\ session \in {"feeding", "saving"} /\ stored # None =>
       \A k \in Logical \X Identity : stored[k] # None => manifest[k] = stored[k]

(* What was committed stays in the stored manifest and in memory.          *)
LEMMA NamesStep ==
  ASSUME Losses \subseteq {"run"}
  PROVE  TypeOK /\ ClaimsAgree /\ NamesInv /\ [Next]_vars => NamesInv'
<1> SUFFICES ASSUME TypeOK, ClaimsAgree, NamesInv, [Next]_vars PROVE NamesInv'
  OBVIOUS
<1> USE DEF NamesInv, memory
<1>0. \A t \in names : <<t[1], t[2]>> \in Logical \X Identity /\ t[3] \in Path
  BY DEF TypeOK
<1>1. CASE SetOutputDir
  BY <1>1 DEF SetOutputDir
<1>2. ASSUME NEW i \in Identity, NEW ls \in Requests[i], Receive(i, ls) PROVE NamesInv'
  BY <1>2 DEF Receive
<1>3. ASSUME NEW l \in Logical, ReserveKnown(l) PROVE NamesInv'
  BY <1>3 DEF ReserveKnown, Reserve
<1>4. ASSUME NEW l \in Logical, NEW p \in Path, ReserveNew(l, p) PROVE NamesInv'
  <2>1. hand.id \in Identity
    BY <1>4 DEF ClaimsAgree, HandTyped, ReserveNew, NoHand
  <2>2. \A k \in Logical \X Identity : manifest[k] # None => manifest'[k] = manifest[k]
    BY <1>4, <2>1 DEF ReserveNew, Lookup, TypeOK, Manifests
  <2>3. session = "feeding" /\ UNCHANGED <<session, stored, names>>
    BY <1>4 DEF ReserveNew, Reserve
  <2>4. stored # None =>
          \A k \in Logical \X Identity : stored[k] # None => manifest'[k] = stored[k]
    BY <2>2, <2>3
  <2> QED
    BY <2>3, <2>4
<1>5. CASE Send
  BY <1>5 DEF Send
<1>6. CASE FeederEnds
  BY <1>6 DEF FeederEnds
<1>7. CASE SaveRemoveOld
  <2>1. session = "saving" /\ session' = "gap" /\ UNCHANGED <<manifest, names>>
    BY <1>7 DEF SaveRemoveOld
  <2>2. ASSUME NEW t \in names PROVE manifest[<<t[1], t[2]>>] = t[3]
    BY <1>0, <2>1, PathAssumption
  <2> QED
    BY <2>1, <2>2
<1>8. CASE SaveRename
  <2>1. /\ session = "gap" /\ session' = "draining" /\ stored' = manifest
        /\ manifest # None
    <3>1. session = "gap" /\ session' = "draining" /\ stored' = manifest
      BY <1>8 DEF SaveRename
    <3>2. manifest # None
      BY PathAssumption DEF TypeOK, Manifests
    <3> QED
      BY <3>1, <3>2
  <2>2. \A t \in names' : manifest[<<t[1], t[2]>>] = t[3]
    BY <1>8, <2>1 DEF SaveRename
  <2> QED
    BY <2>1, <2>2
<1>9. CASE SaveFails
  BY <1>9 DEF SaveFails
<1>10. CASE Joined \/ Crash
  BY <1>10 DEF Joined, Crash, Forget
<1>11. ASSUME NEW h \in held, Worker(h) PROVE NamesInv'
  BY <1>11 DEF Worker
<1>12. CASE UNCHANGED vars
  BY <1>12 DEF vars
<1> QED
  BY <1>1, <1>2, <1>3, <1>4, <1>5, <1>6, <1>7, <1>8, <1>9, <1>10, <1>11, <1>12 DEF Next

(* As long as no manifest is lost, a file keeps the name it was saved      *)
(* with: sessions may crash anywhere but inside saveFileManifest.          *)
THEOREM NamesAreStable ==
  ASSUME Losses \subseteq {"run"}
  PROVE  Spec => []NamesStable
<1>1. Init => NamesInv
  BY DEF Init, NamesInv
<1>2. TypeOK /\ NamesInv => NamesStable
  <2> SUFFICES ASSUME TypeOK, NamesInv, NEW s \in names, NEW t \in names,
                      s[1] = t[1], s[2] = t[2]
               PROVE  s[3] = t[3]
    BY DEF NamesStable
  <2>1. <<s[1], s[2]>> = <<t[1], t[2]>>
    OBVIOUS
  <2>2. CASE session = "gap"
    <3>1. manifest[<<s[1], s[2]>>] = s[3] /\ manifest[<<t[1], t[2]>>] = t[3]
      BY <2>2 DEF NamesInv
    <3> QED
      BY <2>1, <3>1
  <2>3. CASE session # "gap"
    <3>1. stored[<<s[1], s[2]>>] = s[3] /\ stored[<<t[1], t[2]>>] = t[3]
      BY <2>3 DEF NamesInv
    <3> QED
      BY <2>1, <3>1
  <2> QED
    BY <2>2, <2>3
<1> QED
  BY <1>1, <1>2, NamesStep, Agreement, PTL DEF Spec

-----------------------------------------------------------------------------
(* Who wrote what.  A manifest may be lost with a crash, and then nothing  *)
(* but the file itself tells a session whose it is.  The feeder looks at   *)
(* the size of what it finds under a requested name, and at nothing when   *)
(* it makes up a name, so the two ways need an assumption each.            *)

(* Every path that file i is ever saved as: one that it asks for, or one   *)
(* that is made of such a name and its identity.                           *)
Identities(i) == {Identified[<<l, i, n>>] : l \in Logical, n \in Suffix}
Asked(i) == UNION Requests[i]
Names(i) == Asked(i) \cup Identities(i)

(* A name with an identity in it is no name of another file, and there is  *)
(* no file of an earlier version under it.                                 *)
NoClash ==
  \A i, j \in Identity :
    /\ Identities(i) \cap Legacy = {}
    /\ i # j => Identities(i) \cap Names(j) = {}

(* Who may come to write to a path: its owner in this session, or in any   *)
(* session that loads the stored manifest.                                 *)
Entitled(i, p) ==
  \/ claims[p] = i
  \/ stored # None /\ \E l \in Logical : stored[<<l, i>>] = p

(* At p there are only bytes of i and of files without a stable identity.  *)
Pure(i, p) == disk[p].by \subseteq {i} \cup (Identity \ Stable)

HandAsks == hand = NoHand \/ hand.left \subseteq Asked(hand.id)
Extends ==
  session # "down" /\ stored # None =>
    \A k \in Logical \X Identity : stored[k] # None => manifest[k] = stored[k]
WithinNames ==
  /\ \A p \in Path, i \in Identity : Entitled(i, p) \/ i \in disk[p].by => p \in Names(i)
  /\ \A p \in Path : Foreign \in disk[p].by => p \in Legacy

(* What the owner of a path may append to is its own, or is too long.      *)
OwnOrWhole ==
  \A p \in Path, i \in Stable :
    Entitled(i, p) => Pure(i, p) \/ disk[p].size >= SizeOf[i]
AuthorsApart == \A p \in Path : \A i \in disk[p].by \cap Stable : Pure(i, p)

Authorship == HandAsks /\ Extends /\ WithinNames /\ OwnOrWhole /\ AuthorsApart

(* The owner of a path has nobody else's complete file there, but for one  *)
(* that its size does not tell from the owner's.                           *)
Unclobbered ==
  \A p \in Path, j \in Identity, i \in Stable :
    Entitled(j, p) /\ Complete(p, i) => i = j \/ Indistinct(j, i)

(* Nobody but a worker changes a file, so an invariant about files and     *)
(* their owners is only in danger where somebody becomes an owner.         *)
LEMMA NoNewOwner ==
  ASSUME disk' = disk,
         \A p \in Path, i \in Identity : Entitled(i, p)' => Entitled(i, p)
  PROVE  /\ WithinNames /\ OwnOrWhole /\ AuthorsApart
              => WithinNames' /\ OwnOrWhole' /\ AuthorsApart'
         /\ Unclobbered => Unclobbered'
<1>1. \A p \in Path, i \in Identity : Pure(i, p)' = Pure(i, p) /\ Complete(p, i)' = Complete(p, i)
  BY DEF Pure, Complete
<1>2. Stable \subseteq Identity
  BY PathAssumption
<1> HIDE DEF Entitled, Pure, Complete
<1>3. WithinNames => WithinNames'
  BY DEF WithinNames
<1>4. OwnOrWhole => OwnOrWhole'
  BY <1>1, <1>2 DEF OwnOrWhole
<1>5. AuthorsApart => AuthorsApart'
  BY <1>1, <1>2 DEF AuthorsApart
<1>6. Unclobbered => Unclobbered'
  BY <1>1, <1>2 DEF Unclobbered
<1> QED
  BY <1>3, <1>4, <1>5, <1>6

(* A session begins with the owners that the stored manifest names.        *)
LEMMA LoadOwners ==
  ASSUME TypeOK, SetOutputDir, "load" \notin Losses,
         NEW p \in Path, NEW i \in Identity, Entitled(i, p)'
  PROVE  Entitled(i, p)
<1>1. CASE claims'[p] = i
  <2>1. i # None
    BY PathAssumption
  <2>2. PICK l \in Logical : manifest'[<<l, i>>] = p
    BY <1>1, <2>1 DEF SetOutputDir, ClaimsOf
  <2>3. stored # None /\ manifest' = stored
    BY <2>2, PathAssumption DEF SetOutputDir, EmptyManifest
  <2> QED
    BY <2>2, <2>3 DEF Entitled
<1>2. CASE claims'[p] # i
  BY <1>2 DEF SetOutputDir, Entitled
<1> QED
  BY <1>1, <1>2

(* A save makes owners for later of those of this session.                 *)
LEMMA SaveOwners ==
  ASSUME TypeOK, ClaimsAgree, SaveRename,
         NEW p \in Path, NEW i \in Identity, Entitled(i, p)'
  PROVE  Entitled(i, p)
<1>1. UNCHANGED claims /\ stored' = manifest
  BY DEF SaveRename, memory
<1>2. ASSUME NEW l \in Logical, manifest[<<l, i>>] = p PROVE claims[p] = i
  BY <1>2, PathAssumption DEF ClaimsAgree, ManifestClaimed
<1> QED
  BY <1>1, <1>2 DEF Entitled

(* A name that has the identity of a file in it holds bytes of no other.   *)
LEMMA IdentifiedPure ==
  ASSUME TypeOK, WithinNames, NoClash, NEW i \in Identity, NEW p \in Path, p \in Identities(i)
  PROVE  disk[p].by \subseteq {i}
<1> SUFFICES ASSUME NEW x \in disk[p].by PROVE x = i
  OBVIOUS
<1>1. x \in Identity \cup {Foreign}
  BY DEF TypeOK
<1>2. x # Foreign
  BY DEF WithinNames, NoClash
<1>3. p \in Names(x)
  BY <1>1, <1>2 DEF WithinNames
<1> QED
  BY <1>1, <1>2, <1>3 DEF NoClash

(* What the feeder gives to a file that has no name yet: a path that the   *)
(* file has already, a path of its name where nothing is or something of   *)
(* its size, or a name made for it.                                        *)
LEMMA NewOwner ==
  ASSUME TypeOK, HandTyped, HandAsks, NEW l \in Logical, NEW p \in Path, ReserveNew(l, p)
  PROVE  LET i == hand.id IN
         /\ i \in Identity /\ p \in Names(i)
         /\ \/ claims[p] = i
            \/ p \in Identities(i)
            \/ /\ p \in Asked(i)
               /\ Exists(p) => SizeOf[i] = 0 \/ i \notin Stable \/ disk[p].size = SizeOf[i]
<1> DEFINE i == hand.id
<1>1. i \in Identity /\ l \in Asked(i)
  BY DEF ReserveNew, HandTyped, HandAsks, NoHand
<1>2. SizeOf[i] \in Nat
  BY <1>1, PathAssumption
<1>3. CASE ClaimIdentifiedPath(l, i, p)
  <2>1. PICK n \in Suffix : p = Identified[<<l, i, n>>]
    BY <1>3 DEF ClaimIdentifiedPath
  <2>2. p \in Identities(i)
    BY <2>1 DEF Identities
  <2> QED
    BY <1>1, <2>2 DEF Names
<1>4. CASE p = l /\ claims[l] = i
  BY <1>1, <1>4 DEF Names
<1>5. CASE p = l /\ ~HasAmbiguousExistingFile(l, i)
  BY <1>1, <1>2, <1>5 DEF HasAmbiguousExistingFile, Names
<1>6. OutputPath(l, i, p)
  BY DEF ReserveNew
<1> QED
  BY <1>3, <1>4, <1>5, <1>6 DEF OutputPath

(* What a worker does to one path: nothing, or it begins it, adds to it or *)
(* removes it, and then the path is one of its job.                        *)
LEMMA WorkerWrites ==
  ASSUME TypeOK, NEW h \in held, Worker(h), NEW p \in Path, disk'[p] # disk[p]
  PROVE  /\ p \in h.paths
         /\ \/ disk'[p] = [by |-> {h.id}, size |-> 0]
            \/ /\ disk[p].size < SizeOf[h.id]
               /\ disk'[p] = [by |-> disk[p].by \cup {h.id}, size |-> disk[p].size + 1]
            \/ disk'[p] = Absent
<1>1. CASE BeginFresh(h)
  BY <1>1 DEF BeginFresh, Targets
<1>2. CASE Grow(h)
  BY <1>2 DEF Grow
<1>3. CASE Fail(h)
  BY <1>3 DEF Fail
<1>4. CASE BeginResume(h) \/ Skip(h) \/ Finish(h)
  BY <1>4 DEF BeginResume, Skip, Finish
<1> QED
  BY <1>1, <1>2, <1>3, <1>4 DEF Worker

(* Only its owner writes to a path.                                        *)
LEMMA WriterOwns ==
  ASSUME TypeOK, ClaimsAgree, Extends, NEW h \in held, NEW p \in h.paths,
         NEW i \in Identity, Entitled(i, p)
  PROVE  i = h.id
<1>1. h.id \in Identity /\ p \in Path /\ claims[p] = h.id
  BY DEF TypeOK, Job, ClaimsAgree, HeldClaimed
<1>2. session # "down"
  BY DEF ClaimsAgree, DownIdle
<1>3. ASSUME stored # None, NEW l \in Logical, stored[<<l, i>>] = p PROVE claims[p] = i
  <2>1. p # None
    BY <1>1, PathAssumption
  <2>2. manifest[<<l, i>>] = p
    BY <1>2, <1>3, <2>1 DEF Extends
  <2> QED
    BY <2>1, <2>2 DEF ClaimsAgree, ManifestClaimed
<1> QED
  BY <1>1, <1>3 DEF Entitled

-----------------------------------------------------------------------------
(* Authorship is kept by every step.                                       *)

(* The manifest in memory only adds to the one that was loaded.            *)
LEMMA ExtendsStep ==
  ASSUME TypeOK, ClaimsAgree, Extends, "load" \notin Losses, [Next]_vars
  PROVE  Extends'
<1> USE DEF memory
<1>1. CASE SetOutputDir
  BY <1>1 DEF SetOutputDir, Extends
<1>2. ASSUME NEW i \in Identity, NEW ls \in Requests[i], Receive(i, ls) PROVE Extends'
  BY <1>2 DEF Receive, Extends
<1>3. ASSUME NEW l \in Logical, ReserveKnown(l) PROVE Extends'
  BY <1>3 DEF ReserveKnown, Reserve, Extends
<1>4. ASSUME NEW l \in Logical, NEW p \in Path, ReserveNew(l, p) PROVE Extends'
  <2>1. hand.id \in Identity
    BY <1>4 DEF ClaimsAgree, HandTyped, ReserveNew, NoHand
  <2>2. \A k \in Logical \X Identity : manifest[k] # None => manifest'[k] = manifest[k]
    BY <1>4, <2>1 DEF ReserveNew, Lookup, TypeOK, Manifests
  <2>3. UNCHANGED <<session, stored>>
    BY <1>4 DEF ReserveNew, Reserve
  <2> QED
    BY <2>2, <2>3 DEF Extends
<1>5. CASE Send \/ FeederEnds
  BY <1>5 DEF Send, FeederEnds, Extends
<1>6. CASE SaveRemoveOld \/ SaveRename \/ SaveFails
  BY <1>6 DEF SaveRemoveOld, SaveRename, SaveFails, Extends
<1>7. CASE Joined \/ Crash
  BY <1>7 DEF Joined, Crash, Forget, Extends
<1>8. ASSUME NEW h \in held, Worker(h) PROVE Extends'
  BY <1>8 DEF Worker, Extends
<1>9. CASE UNCHANGED vars
  BY <1>9 DEF vars, Extends
<1> QED
  BY <1>1, <1>2, <1>3, <1>4, <1>5, <1>6, <1>7, <1>8, <1>9 DEF Next

(* What the feeder still has to name was asked for by its file.            *)
LEMMA HandAsksStep ==
  ASSUME TypeOK, ClaimsAgree, HandAsks, [Next]_vars
  PROVE  HandAsks'
<1> USE DEF memory
<1>1. ASSUME NEW i \in Identity, NEW ls \in Requests[i], Receive(i, ls) PROVE HandAsks'
  BY <1>1 DEF Receive, HandAsks, Asked
<1>2. ASSUME NEW l \in Logical, NEW p \in Path, Reserve(l, p), hand # NoHand PROVE HandAsks'
  BY <1>2 DEF Reserve, HandAsks, TypeOK
<1>3. ASSUME NEW l \in Logical, ReserveKnown(l) PROVE HandAsks'
  BY <1>3 DEF ReserveKnown, Reserve, HandAsks, TypeOK, NoHand
<1>4. ASSUME NEW l \in Logical, NEW p \in Path, ReserveNew(l, p) PROVE HandAsks'
  BY <1>2, <1>4 DEF ReserveNew, NoHand
<1>5. CASE Send \/ FeederEnds \/ Joined \/ Crash
  BY <1>5 DEF Send, FeederEnds, Joined, Crash, Forget, HandAsks
<1>6. CASE SetOutputDir \/ SaveRemoveOld \/ SaveRename \/ SaveFails
  BY <1>6 DEF SetOutputDir, SaveRemoveOld, SaveRename, SaveFails, HandAsks
<1>7. ASSUME NEW h \in held, Worker(h) PROVE HandAsks'
  BY <1>7 DEF Worker, HandAsks
<1>8. CASE UNCHANGED vars
  BY <1>8 DEF vars, HandAsks
<1> QED
  BY <1>1, <1>3, <1>4, <1>5, <1>6, <1>7, <1>8 DEF Next

(* A step that is neither a worker's nor names a file makes no new owner.  *)
LEMMA OwnersStay ==
  ASSUME TypeOK, ClaimsAgree, "load" \notin Losses, [Next]_vars,
         ~ \E h \in held : Worker(h),
         ~ \E l \in Logical, p \in Path : ReserveNew(l, p)
  PROVE  /\ disk' = disk
         /\ \A p \in Path, i \in Identity : Entitled(i, p)' => Entitled(i, p)
<1> USE DEF memory
<1> DEFINE Goal == /\ disk' = disk
                   /\ \A p \in Path, i \in Identity : Entitled(i, p)' => Entitled(i, p)
<1>1. CASE SetOutputDir
  BY <1>1, LoadOwners DEF SetOutputDir
<1>2. ASSUME NEW i \in Identity, NEW ls \in Requests[i], Receive(i, ls) PROVE Goal
  BY <1>2 DEF Receive, Entitled
<1>3. ASSUME NEW l \in Logical, ReserveKnown(l) PROVE Goal
  <2>1. hand.id \in Identity
    BY <1>3 DEF ClaimsAgree, HandTyped, ReserveKnown, NoHand
  <2>2. Lookup(l, hand.id) \in Path /\ claims[Lookup(l, hand.id)] = hand.id
    BY <1>3, <2>1, LookupTyped DEF ReserveKnown, Lookup, ClaimsAgree, ManifestClaimed
  <2>3. claims' = claims /\ UNCHANGED <<stored, disk>>
    BY <1>3, <2>2 DEF ReserveKnown, Reserve, TypeOK
  <2> QED
    BY <2>3 DEF Entitled
<1>4. CASE Send \/ FeederEnds \/ SaveFails
  BY <1>4 DEF Send, FeederEnds, SaveFails, Entitled
<1>5. CASE SaveRemoveOld
  BY <1>5 DEF SaveRemoveOld, Entitled
<1>6. CASE SaveRename
  BY <1>6, SaveOwners DEF SaveRename
<1>7. CASE Joined \/ Crash
  BY <1>7, PathAssumption DEF Joined, Crash, Forget, NoClaims, Entitled
<1>8. CASE UNCHANGED vars
  BY <1>8 DEF vars, Entitled
<1> QED
  BY <1>1, <1>2, <1>3, <1>4, <1>5, <1>6, <1>7, <1>8 DEF Next

(* The one who gets a path without a name so far is its only new owner.    *)
LEMMA OneNewOwner ==
  ASSUME TypeOK, HandTyped, NEW l \in Logical, NEW p \in Path, ReserveNew(l, p)
  PROVE  /\ disk' = disk
         /\ \A q \in Path, i \in Identity :
              Entitled(i, q)' => Entitled(i, q) \/ (i = hand.id /\ q = p)
BY DEF ReserveNew, Reserve, TypeOK, Entitled

(* A file with a new name: whatever is at its path may be added to.        *)
LEMMA NamedSafely ==
  ASSUME TypeOK, HandTyped, Authorship, NoClash,
         NEW l \in Logical, NEW p \in Path, ReserveNew(l, p)
  PROVE  WithinNames' /\ OwnOrWhole' /\ AuthorsApart'
<1> DEFINE i == hand.id
<1>1. /\ i \in Identity /\ p \in Names(i)
      /\ \/ claims[p] = i
         \/ p \in Identities(i)
         \/ Exists(p) => SizeOf[i] = 0 \/ i \notin Stable \/ disk[p].size = SizeOf[i]
  BY NewOwner DEF Authorship
<1>2. /\ disk' = disk
      /\ \A q \in Path, j \in Identity : Entitled(j, q)' => Entitled(j, q) \/ (j = i /\ q = p)
  BY OneNewOwner
<1>3. i \in Stable => Pure(i, p) \/ disk[p].size >= SizeOf[i]
  <2>0. disk[p].size \in Nat /\ SizeOf[i] \in Nat
    BY <1>1, PathAssumption DEF TypeOK
  <2>1. CASE claims[p] = i
    BY <1>1, <2>1 DEF Authorship, OwnOrWhole, Entitled
  <2>2. CASE p \in Identities(i)
    BY <1>1, <2>2, IdentifiedPure DEF Authorship, Pure
  <2>3. CASE Exists(p) => SizeOf[i] = 0 \/ i \notin Stable \/ disk[p].size = SizeOf[i]
    BY <2>0, <2>3 DEF Exists, Pure
  <2> QED
    BY <1>1, <2>1, <2>2, <2>3
<1>4. \A q \in Path, j \in Identity : Pure(j, q)' = Pure(j, q)
  BY <1>2 DEF Pure
<1>5. Stable \subseteq Identity
  BY PathAssumption
<1> HIDE DEF i
<1>6. WithinNames'
  BY <1>1, <1>2 DEF Authorship, WithinNames
<1>7. OwnOrWhole'
  BY <1>2, <1>3, <1>4, <1>5 DEF Authorship, OwnOrWhole
<1>8. AuthorsApart'
  BY <1>2, <1>4, <1>5 DEF Authorship, AuthorsApart
<1> QED
  BY <1>6, <1>7, <1>8

(* A worker adds bytes of its file where nobody else's are.                *)
LEMMA WrittenSafely ==
  ASSUME TypeOK, ClaimsAgree, Authorship, NEW h \in held, Worker(h)
  PROVE  WithinNames' /\ OwnOrWhole' /\ AuthorsApart'
<1> DEFINE i == h.id
<1>1. i \in Identity /\ Stable \subseteq Identity /\ Foreign \notin Identity
  BY PathAssumption DEF TypeOK, Job
<1>2. \A p \in Path, j \in Identity : Entitled(j, p)' = Entitled(j, p)
  BY DEF Worker, memory, Entitled
<1>3. \A p \in h.paths : Entitled(i, p)
  BY DEF ClaimsAgree, HeldClaimed, Entitled
<1>4. ASSUME NEW p \in Path, disk'[p] # disk[p]
      PROVE  /\ disk'[p].by \subseteq disk[p].by \cup {i}
             /\ \A j \in Stable :
                  Entitled(j, p) => Pure(j, p)' \/ disk'[p].size >= SizeOf[j]
             /\ \A j \in disk'[p].by \cap Stable : Pure(j, p)'
  <2>1. p \in h.paths
    BY <1>4, WorkerWrites
  <2>2. \A j \in Identity : Entitled(j, p) => j = i
    BY <2>1, WriterOwns DEF Authorship
  <2>3. CASE disk'[p] = [by |-> {i}, size |-> 0] \/ disk'[p] = Absent
    BY <1>1, <2>2, <2>3 DEF Pure, Absent
  <2>4. CASE /\ disk[p].size < SizeOf[i]
             /\ disk'[p] = [by |-> disk[p].by \cup {i}, size |-> disk[p].size + 1]
    <3>0. disk'[p].by = disk[p].by \cup {i}
      BY <2>4
    <3>1. disk[p].size \in Nat /\ SizeOf[i] \in Nat
      BY <1>1, PathAssumption DEF TypeOK
    <3>2. i \in Stable => Pure(i, p)
      <4> SUFFICES ASSUME i \in Stable PROVE Pure(i, p)
        OBVIOUS
      <4>1. Pure(i, p) \/ disk[p].size >= SizeOf[i]
        BY <1>3, <2>1 DEF Authorship, OwnOrWhole
      <4> QED
        BY <2>4, <3>1, <4>1
    <3>3. i \in Stable => Pure(i, p)'
      BY <3>0, <3>2 DEF Pure
    <3>4. ASSUME NEW j \in disk'[p].by \cap Stable PROVE Pure(j, p)'
      <4>1. CASE j = i
        BY <3>3, <4>1
      <4>2. CASE j # i
        <5>1. j \in disk[p].by
          BY <3>0, <4>2
        <5>2. Pure(j, p)
          BY <5>1 DEF Authorship, AuthorsApart
        <5>3. i \notin Stable
          BY <3>2, <4>2, <5>1 DEF Pure
        <5> QED
          BY <1>1, <3>0, <5>2, <5>3 DEF Pure
      <4> QED
        BY <4>1, <4>2
    <3> QED
      BY <1>1, <2>2, <3>0, <3>3, <3>4
  <2> QED
    BY <1>4, <2>3, <2>4, WorkerWrites
<1> HIDE DEF i
<1>5. WithinNames'
  <2>1. ASSUME NEW p \in Path, NEW j \in Identity, j \in disk'[p].by PROVE p \in Names(j)
    <3>1. CASE j \in disk[p].by
      BY <3>1 DEF Authorship, WithinNames
    <3>2. CASE j \notin disk[p].by
      <4>1. j = i /\ p \in h.paths
        BY <1>4, <2>1, <3>2, WorkerWrites
      <4> QED
        BY <1>1, <1>3, <4>1 DEF Authorship, WithinNames
    <3> QED
      BY <3>1, <3>2
  <2>2. ASSUME NEW p \in Path, Foreign \in disk'[p].by PROVE p \in Legacy
    BY <1>1, <1>4, <2>2 DEF Authorship, WithinNames
  <2> QED
    BY <1>2, <2>1, <2>2 DEF Authorship, WithinNames
<1>6. OwnOrWhole'
  <2> SUFFICES ASSUME NEW p \in Path, NEW j \in Stable, Entitled(j, p)
               PROVE  Pure(j, p)' \/ disk'[p].size >= SizeOf[j]
    BY <1>1, <1>2 DEF OwnOrWhole
  <2>1. CASE disk'[p] # disk[p]
    BY <1>4, <2>1
  <2>2. CASE disk'[p] = disk[p]
    BY <2>2 DEF Authorship, OwnOrWhole, Pure
  <2> QED
    BY <2>1, <2>2
<1>7. AuthorsApart'
  <2> SUFFICES ASSUME NEW p \in Path, NEW j \in disk'[p].by \cap Stable PROVE Pure(j, p)'
    BY DEF AuthorsApart
  <2>1. CASE disk'[p] # disk[p]
    BY <1>4, <2>1
  <2>2. CASE disk'[p] = disk[p]
    BY <2>2 DEF Authorship, AuthorsApart, Pure
  <2> QED
    BY <2>1, <2>2
<1> QED
  BY <1>5, <1>6, <1>7

(* Before the first session nobody owns anything, and what there is comes  *)
(* from earlier versions.                                                  *)
LEMMA AuthorshipInit == Init => Authorship /\ Unclobbered
<1> SUFFICES ASSUME Init PROVE Authorship /\ Unclobbered
  OBVIOUS
<1>1. \A p \in Path, i \in Identity : ~Entitled(i, p)
  BY PathAssumption DEF Init, NoClaims, Entitled
<1>2. \A p \in Path : disk[p].by \subseteq {Foreign} /\ (disk[p].by # {} => p \in Legacy)
  BY DEF Init, LegacyDisk, Absent
<1>3. Foreign \notin Identity /\ Stable \subseteq Identity
  BY PathAssumption
<1>4. HandAsks /\ Extends
  BY DEF Init, HandAsks, Extends
<1> HIDE DEF Entitled
<1>5. WithinNames /\ OwnOrWhole /\ AuthorsApart /\ Unclobbered
  BY <1>1, <1>2, <1>3 DEF WithinNames, OwnOrWhole, AuthorsApart, Unclobbered
<1> QED
  BY <1>4, <1>5 DEF Authorship

LEMMA AuthorshipStep ==
  ASSUME NoClash, "load" \notin Losses
  PROVE  TypeOK /\ ClaimsAgree /\ Authorship /\ [Next]_vars => Authorship'
<1> SUFFICES ASSUME TypeOK, ClaimsAgree, Authorship, [Next]_vars PROVE Authorship'
  OBVIOUS
<1>1. HandAsks' /\ Extends'
  BY HandAsksStep, ExtendsStep DEF Authorship
<1>2. CASE \E l \in Logical, p \in Path : ReserveNew(l, p)
  BY <1>1, <1>2, NamedSafely DEF Authorship, ClaimsAgree
<1>3. CASE \E h \in held : Worker(h)
  BY <1>1, <1>3, WrittenSafely DEF Authorship
<1>4. CASE /\ ~ \E h \in held : Worker(h)
           /\ ~ \E l \in Logical, p \in Path : ReserveNew(l, p)
  <2>1. /\ disk' = disk
        /\ \A p \in Path, i \in Identity : Entitled(i, p)' => Entitled(i, p)
    BY <1>4, OwnersStay
  <2>2. WithinNames' /\ OwnOrWhole' /\ AuthorsApart'
    BY <2>1, NoNewOwner DEF Authorship
  <2> QED
    BY <1>1, <2>2 DEF Authorship
<1> QED
  BY <1>2, <1>3, <1>4

(* Where no manifest that was saved is unreadable and identified names are *)
(* nobody else's, no path ever holds bytes of two stable identities: not   *)
(* after crashes that lose the manifest, and whatever the other files do.  *)
THEOREM AuthorsStayApart ==
  ASSUME NoClash, "load" \notin Losses
  PROVE  Spec => [](Authorship /\ AuthorsApart)
<1>1. TypeOK /\ ClaimsAgree /\ Authorship /\ [Next]_vars => Authorship'
  BY AuthorshipStep
<1>2. Init => Authorship
  BY AuthorshipInit
<1>3. Authorship => AuthorsApart
  BY DEF Authorship
<1> QED
  BY <1>1, <1>2, <1>3, Agreement, PTL DEF Spec

(* When every file has a stable identity, no file mixes two of them, nor   *)
(* one of them with what an earlier version left.                          *)
THEOREM OneAuthorEach ==
  ASSUME NoClash, "load" \notin Losses, Stable = Identity
  PROVE  Spec => []OneAuthor
<1>1. AuthorsApart => OneAuthor
  BY DEF AuthorsApart, OneAuthor, Pure
<1> QED
  BY <1>1, AuthorsStayApart, PTL

-----------------------------------------------------------------------------
(* Complete files.                                                         *)

(* A file is not given a name under which a complete file of another one   *)
(* is, when the size tells them apart or the identity in the name does.    *)
LEMMA NamedApart ==
  ASSUME TypeOK, HandTyped, Authorship, Unclobbered, NoClash,
         NEW l \in Logical, NEW p \in Path, ReserveNew(l, p)
  PROVE  Unclobbered'
<1> DEFINE i == hand.id
<1>1. /\ i \in Identity /\ p \in Names(i)
      /\ \/ claims[p] = i
         \/ p \in Identities(i)
         \/ /\ p \in Asked(i)
            /\ Exists(p) => SizeOf[i] = 0 \/ i \notin Stable \/ disk[p].size = SizeOf[i]
  BY NewOwner DEF Authorship
<1>2. /\ disk' = disk
      /\ \A q \in Path, j \in Identity : Entitled(j, q)' => Entitled(j, q) \/ (j = i /\ q = p)
  BY OneNewOwner
<1>3. \A q \in Path, j \in Identity : Complete(q, j)' = Complete(q, j)
  BY <1>2 DEF Complete
<1>4. ASSUME NEW j \in Stable, Complete(p, j) PROVE j = i \/ Indistinct(i, j)
  <2>1. j \in Identity /\ j \in disk[p].by /\ Exists(p) /\ disk[p].size = SizeOf[j]
    BY <1>4, PathAssumption DEF Complete, Exists
  <2>2. CASE claims[p] = i
    BY <1>1, <1>4, <2>2 DEF Unclobbered, Entitled
  <2>3. CASE p \in Identities(i)
    BY <1>1, <2>1, <2>3, IdentifiedPure DEF Authorship
  <2>4. CASE SizeOf[i] = 0 \/ i \notin Stable \/ disk[p].size = SizeOf[i]
    BY <2>1, <2>4 DEF Indistinct
  <2> QED
    BY <1>1, <2>1, <2>2, <2>3, <2>4
<1>5. Stable \subseteq Identity
  BY PathAssumption
<1> HIDE DEF i, Indistinct
<1> QED
  BY <1>2, <1>3, <1>4, <1>5 DEF Unclobbered

(* A worker completes no file of somebody else.                            *)
LEMMA WrittenApart ==
  ASSUME TypeOK, ClaimsAgree, Extends, Unclobbered, NEW h \in held, Worker(h)
  PROVE  Unclobbered'
<1> SUFFICES ASSUME NEW p \in Path, NEW j \in Identity, NEW i \in Stable,
                    Entitled(j, p)', Complete(p, i)'
             PROVE  i = j \/ Indistinct(j, i)
  BY DEF Unclobbered, Indistinct
<1>1. Entitled(j, p)
  BY DEF Worker, memory, Entitled
<1>2. CASE disk'[p] = disk[p]
  BY <1>1, <1>2 DEF Unclobbered, Complete
<1>3. CASE disk'[p] # disk[p]
  <2>0. /\ p \in h.paths
        /\ \/ disk'[p] = [by |-> {h.id}, size |-> 0]
           \/ disk'[p] = [by |-> disk[p].by \cup {h.id}, size |-> disk[p].size + 1]
           \/ disk'[p] = Absent
    BY <1>3, WorkerWrites
  <2>1. p \in h.paths /\ (h.id \in disk'[p].by \/ disk'[p] = Absent)
    BY <2>0
  <2>2. disk'[p].by = {i}
    BY DEF Complete
  <2>3. h.id = i
    BY <2>1, <2>2 DEF Absent
  <2>4. j = h.id
    BY <1>1, <2>1, WriterOwns
  <2> QED
    BY <2>3, <2>4
<1> QED
  BY <1>2, <1>3

LEMMA UnclobberedStep ==
  ASSUME NoClash, "load" \notin Losses
  PROVE  TypeOK /\ ClaimsAgree /\ Authorship /\ Unclobbered /\ [Next]_vars => Unclobbered'
<1> SUFFICES ASSUME TypeOK, ClaimsAgree, Authorship, Unclobbered, [Next]_vars
             PROVE  Unclobbered'
  OBVIOUS
<1>1. CASE \E l \in Logical, p \in Path : ReserveNew(l, p)
  BY <1>1, NamedApart DEF ClaimsAgree
<1>2. CASE \E h \in held : Worker(h)
  BY <1>2, WrittenApart DEF Authorship
<1>3. CASE /\ ~ \E h \in held : Worker(h)
           /\ ~ \E l \in Logical, p \in Path : ReserveNew(l, p)
  BY <1>3, OwnersStay, NoNewOwner
<1> QED
  BY <1>1, <1>2, <1>3

(* Whoever changes a complete file is a worker that has that very file, or *)
(* one that its size does not tell from it and that owns the path alone.   *)
LEMMA OnlyItsOwn ==
  ASSUME TypeOK, ClaimsAgree, Unclobbered, [Next]_vars,
         NEW p \in Path, NEW i \in Stable, Complete(p, i), disk'[p] # disk[p]
  PROVE  \E h \in held : /\ p \in h.paths
                         /\ h.id = i \/ (Indistinct(h.id, i) /\ Unnamed(p, i))
<1>1. PICK h \in held : Worker(h)
  <2>1. SetOutputDir => disk' = disk
    BY DEF SetOutputDir
  <2>2. ASSUME NEW j \in Identity, NEW ls \in Requests[j], Receive(j, ls) PROVE disk' = disk
    BY <2>2 DEF Receive
  <2>3. ASSUME NEW l \in Logical, NEW q \in Path, ReserveKnown(l) \/ ReserveNew(l, q)
        PROVE  disk' = disk
    BY <2>3 DEF ReserveKnown, ReserveNew, Reserve
  <2>4. Send \/ FeederEnds \/ SaveRemoveOld \/ SaveRename \/ SaveFails => disk' = disk
    BY DEF Send, FeederEnds, SaveRemoveOld, SaveRename, SaveFails
  <2>5. Joined \/ Crash \/ UNCHANGED vars => disk' = disk
    BY DEF Joined, Crash, Forget, vars
  <2> QED
    BY <2>1, <2>2, <2>3, <2>4, <2>5 DEF Next
<1>2. p \in h.paths
  BY <1>1, WorkerWrites
<1>3. h.id \in Identity /\ claims[p] = h.id /\ Entitled(h.id, p)
  BY <1>2 DEF TypeOK, Job, ClaimsAgree, HeldClaimed, Entitled
<1>4. h.id = i \/ Indistinct(h.id, i)
  BY <1>3 DEF Unclobbered
<1>5. ASSUME h.id # i PROVE Unnamed(p, i)
  <2>1. i \in Identity /\ p # None
    BY PathAssumption
  <2> QED
    BY <1>3, <1>5, <2>1 DEF ClaimsAgree, ManifestClaimed, Unnamed
<1> QED
  BY <1>2, <1>4, <1>5

(* A complete file is changed for the same Telegram file, --rewrite and    *)
(* lost manifests included, or for one that its size does not tell from it *)
(* while no manifest names it: whatever the sizes and the identities.      *)
THEOREM NothingIsClobbered ==
  ASSUME NoClash, "load" \notin Losses
  PROVE  Spec => NoClobber
<1>1. Init => Unclobbered
  BY AuthorshipInit
<1>2. TypeOK /\ ClaimsAgree /\ Authorship /\ Unclobbered /\ [Next]_vars => Unclobbered'
  BY UnclobberedStep
<1>3. TypeOK /\ ClaimsAgree /\ Unclobbered /\ [Next]_vars =>
        [\A p \in Path, i \in Stable :
           Complete(p, i) /\ disk'[p] # disk[p]
             => \E h \in held :
                  /\ p \in h.paths
                  /\ h.id = i \/ (Indistinct(h.id, i) /\ Unnamed(p, i))]_vars
  BY OnlyItsOwn
<1> QED
  BY <1>1, <1>2, <1>3, Agreement, AuthorsStayApart, PTL DEF Spec, NoClobber

=============================================================================
