--------------------------- MODULE YadiskTransfer ---------------------------
(***************************************************************************)
(* `download yadisk`: the links of a peer's messages (pkg/telegram/link.go)*)
(* are resolved and downloaded one at a time (cmd/cmd/download_yadisk.go,  *)
(* pkg/yadisk/client.go, pkg/yadisk/downloader.go).  A link is a file or a *)
(* directory whose listing is read in pages while its owner may change it. *)
(* A file is fetched from an address that has to be asked for, that may be *)
(* stale, and whose answer may be short; what is missing is asked for by   *)
(* range, and a failed attempt is made once more with a fresh address.     *)
(*                                                                         *)
(* The service and the network are external: every request may fail, and a *)
(* body may break off, or end early without an error when the answer did   *)
(* not declare its length.  A ranged answer starts where it was asked to.  *)
(* Nothing tells how long a stream is.                                     *)
(***************************************************************************)
EXTENDS Naturals, Sequences, SequencesExt, FiniteSets

CONSTANTS
  Files, Dirs,
  History,     \* the links of each message, as they are matched in its text
  Limit,       \* of links
  Listing,     \* of each directory, at first
  Below,       \* the directories of a directory's tree, itself included
  Target,      \* the path a file is written to
  Size, Bytes,     \* of a file in the listing (0: unknown), of an object
  Videos, Images, System, Pathless,  \* kinds of files; no path in the metadata
  PageSize,    \* 1000 in the code
  MaxParts,    \* of a resumed transfer: 256 in the code
  MaxChanges   \* bound: entries that the owner adds or removes while listing

Object == Files \cup {"archive", "preview", "stream", "old"}
Entry == Files \cup Dirs
Targets == {Target[f] : f \in Files \ System}

ASSUME YadiskAssumption ==
  /\ History \in Seq(Seq(Entry)) /\ Limit \in Nat /\ Listing \in [Dirs -> Seq(Entry)]
  /\ Size \in [Files -> Nat] /\ Bytes \in [Object -> Nat \ {0}]
  /\ Videos \cap Images = {} /\ PageSize \in Nat \ {0} /\ MaxParts \in Nat
  /\ MaxChanges \in Nat /\ Files \cap Dirs = {} /\ "none" \notin Entry
  /\ Below \in [Dirs -> SUBSET Dirs]
  /\ \A d \in Dirs : Below[d] \subseteq {d} \cup UNION {Below[e] : e \in Range(Listing[d]) \cap Dirs}

VARIABLES
  rewrite, dryRun,     \* the options of the command
  links, closed,       \* the messages' links that are left, and their channel
  ctxDone, pc, result,
  link, listing, changes, stable, shrunk,
  at, got, todo, files,      \* the directory that is listed, its entries so far,
                             \* the entries left to walk, and the files found
  file, direct, attempt,     \* the file, the object its address names, 1 or 2
  total, written, parts,
  exists, disk,
  rows,                      \* the progress rows that have not ended
  failed,                    \* of the summary
  declared,                  \* whether the answer told its length
  refused,                   \* history: videos whose address the service would not
                             \* give, and whose streams were not asked for
  blind                      \* history: targets taken for whole although their
                             \* length was not known

run == <<rewrite, dryRun, links, closed, ctxDone, result, link, failed>>
walk == <<listing, changes, stable, shrunk, at, got, todo>>
transfer == <<direct, attempt, total, declared, written, parts>>
store == <<exists, disk, blind, refused>>
vars == <<run, walk, files, file, transfer, store, rows, pc>>

Byte == Object \X (Nat \ {0})
Whole(o) == [i \in 1..Bytes[o] |-> <<o, i>>]

TypeOK ==
  /\ rewrite \in BOOLEAN /\ dryRun \in BOOLEAN /\ closed \in BOOLEAN
  /\ links \in Seq(Entry) /\ link \in Entry \cup {"none"} /\ ctxDone \in BOOLEAN
  /\ pc \in {"loop", "meta", "list", "walk", "fileurl", "item", "url", "open",
             "copy", "range", "refresh", "hls", "segments", "done"}
  /\ result \in {"none", "nil", "error", "cancel"} /\ failed \in Nat
  /\ listing \in [Dirs -> Seq(Entry)] /\ changes \in 0..MaxChanges
  /\ stable \in SUBSET Files /\ shrunk \in BOOLEAN /\ at \in Dirs \cup {"none"}
  /\ got \in Seq(Entry) /\ todo \in Seq(Entry) /\ files \in Seq(Files)
  /\ file \in Files \cup {"none"} /\ direct \in Object \cup {"none"}
  /\ attempt \in {1, 2} /\ total \in Nat /\ declared \in BOOLEAN /\ written \in Nat /\ parts \in 0..MaxParts
  /\ exists \in SUBSET Targets /\ disk \in [Targets -> Seq(Byte)]
  /\ blind \in SUBSET Targets /\ refused \in SUBSET Videos /\ rows \in SUBSET {"resolve", "link", "file"}

(* extractYandexDiskLinks keeps the first of equal links in a message, and *)
(* the producer stops at the limit.                                        *)
ExtractLinks(s) ==
  LET seen[n \in 0..Len(s)] ==
        IF n = 0 THEN <<>>
        ELSE IF s[n] \in Range(seen[n - 1]) THEN seen[n - 1] ELSE Append(seen[n - 1], s[n])
  IN  seen[Len(s)]

Offered ==
  LET all[n \in 0..Len(History)] ==
        IF n = 0 THEN <<>> ELSE all[n - 1] \o ExtractLinks(History[n])
      every == all[Len(History)]
  IN  SubSeq(every, 1, IF Limit < Len(every) THEN Limit ELSE Len(every))

Init ==
  /\ rewrite \in BOOLEAN /\ dryRun \in BOOLEAN
  /\ links = Offered /\ closed = FALSE /\ ctxDone = FALSE
  /\ pc = "loop" /\ result = "none" /\ link = "none" /\ failed = 0
  /\ listing = Listing /\ changes = 0 /\ stable = {} /\ shrunk = FALSE
  /\ at = "none" /\ got = <<>> /\ todo = <<>> /\ files = <<>>
  /\ file = "none" /\ direct = "none" /\ attempt = 1
  /\ total = 0 /\ declared = FALSE /\ written = 0 /\ parts = 0
  /\ exists \in SUBSET Targets
  /\ disk = [t \in Targets |-> IF t \in exists THEN Whole("old") ELSE <<>>]
  /\ blind = {} /\ refused = {} /\ rows = {}

(* The user's interrupt.  Every request that follows it fails.             *)
Cancel ==
  /\ ~ctxDone /\ ctxDone' = TRUE
  /\ UNCHANGED <<rewrite, dryRun, links, closed, result, link, failed, walk, files,
                 file, transfer, store, rows, pc>>

(* The producer ends: no message is left, or it failed, or was cancelled;  *)
(* either way it only closes the channel.                                  *)
HistoryEnds ==
  /\ ~closed /\ closed' = TRUE
  /\ UNCHANGED <<rewrite, dryRun, links, ctxDone, result, link, failed, walk, files,
                 file, transfer, store, rows, pc>>

-----------------------------------------------------------------------------
(* The loop over the links.  Its select may take any case that is ready.   *)
LoopCancelled ==
  /\ pc = "loop" /\ ctxDone
  /\ failed' = failed + 1 /\ result' = "cancel" /\ pc' = "done"
  /\ UNCHANGED <<rewrite, dryRun, links, closed, ctxDone, link, walk, files, file,
                 transfer, store, rows>>

LoopEnds ==
  /\ pc = "loop" /\ closed
  /\ result' = (IF failed > 0 THEN "error" ELSE "nil") /\ pc' = "done"
  /\ UNCHANGED <<rewrite, dryRun, links, closed, ctxDone, link, failed, walk, files,
                 file, transfer, store, rows>>

TakeLink ==
  /\ pc = "loop" /\ ~closed /\ links # <<>>
  /\ link' = Head(links) /\ links' = Tail(links)
  /\ rows' = rows \cup {"resolve"} /\ pc' = "meta"
  /\ UNCHANGED <<rewrite, dryRun, closed, ctxDone, result, failed, walk, files, file,
                 transfer, store>>

(* What a function keeps in its variables goes when it returns.            *)
Idle == /\ direct' = "none" /\ attempt' = 1 /\ total' = 0 /\ declared' = FALSE
        /\ written' = 0 /\ parts' = 0
NoWalk == /\ at' = "none" /\ got' = <<>> /\ todo' = <<>>
          /\ stable' = {} /\ shrunk' = FALSE /\ UNCHANGED <<listing, changes>>

(* The rows of a link that fails are marked failed: Fail ends a row.       *)
LinkFails(ended) ==
  /\ rows' = rows \ ended
  /\ failed' = failed + 1 /\ files' = <<>> /\ file' = "none" /\ pc' = "loop"
  /\ Idle /\ NoWalk
  /\ UNCHANGED <<rewrite, dryRun, links, closed, ctxDone, result, link>>

(* ResolvePublicResourceDownloads: the metadata tells a file from a folder.*)
FilesIn(s) == Range(s) \cap Files

Meta ==
  /\ pc = "meta"
  /\ \/ LinkFails({"resolve"})
     \/ /\ ~ctxDone /\ link \in Dirs
        /\ at' = link /\ todo' = <<>> /\ got' = <<>> /\ pc' = "list"
        /\ stable' = UNION {FilesIn(listing[d]) : d \in Below[link]} /\ shrunk' = FALSE
        /\ UNCHANGED <<run, listing, changes, files, file, transfer, rows>>
     \/ /\ ~ctxDone /\ link \in Files /\ pc' = "fileurl"
        /\ UNCHANGED <<run, walk, files, file, transfer, rows>>
  /\ UNCHANGED store

-----------------------------------------------------------------------------
(* listDirectoryItems: pages until one is empty or the total that the page *)
(* carries is reached; the offset counts the entries it has.               *)
Page(s, offset) ==
  [i \in 1..Cardinality({j \in 1..PageSize : offset + j <= Len(s)}) |-> s[offset + i]]
Offset_Slip(have) == Len(have) + 1
Offset(have) == Len(have)

ListPage ==
  /\ pc = "list" /\ ~ctxDone
  /\ LET page == Page(listing[at], Offset(got))
         all == got \o page
     IN IF page = <<>> \/ Len(all) >= Len(listing[at])
        THEN /\ todo' = all \o todo /\ got' = <<>> /\ at' = "none" /\ pc' = "walk"
        ELSE got' = all /\ UNCHANGED <<todo, at, pc>>
  /\ UNCHANGED <<run, listing, changes, stable, shrunk, files, file, transfer, store, rows>>

ListFails ==
  /\ pc = "list" /\ LinkFails({"resolve"}) /\ UNCHANGED store

(* The owner of the folder adds or removes an entry between two pages.     *)
Change ==
  /\ at # "none" /\ changes < MaxChanges /\ changes' = changes + 1
  /\ \E d \in Below[link] : \E i \in 1..(Len(listing[d]) + 1) :
       \/ /\ i <= Len(listing[d]) /\ listing[d][i] \in Files
          /\ listing' = [listing EXCEPT ![d] = RemoveAt(@, i)]
          /\ stable' = stable \ {listing[d][i]} /\ shrunk' = TRUE
       \/ \E f \in Files :
            /\ \A e \in Dirs : f \notin Range(listing[e])
            /\ listing' = [listing EXCEPT ![d] = InsertAt(@, i, f)]
            /\ UNCHANGED <<stable, shrunk>>
  /\ UNCHANGED <<run, at, got, todo, files, file, transfer, store, rows, pc>>

IsSkippable(f) == f \in System

(* collectDirectoryFiles: a folder is listed where it stands, a file is    *)
(* kept unless its name is one of the system's.                            *)
Walk ==
  /\ pc = "walk" /\ todo # <<>>
  /\ todo' = Tail(todo)
  /\ LET e == Head(todo) IN
     IF e \in Dirs
     THEN at' = e /\ pc' = "list" /\ UNCHANGED files
     ELSE /\ files' = (IF IsSkippable(e) THEN files ELSE Append(files, e))
          /\ UNCHANGED <<at, pc>>
  /\ UNCHANGED <<run, listing, changes, stable, shrunk, got, file, transfer, store, rows>>

-----------------------------------------------------------------------------
(* The address of a file.  An answer is an error, the address or nothing.  *)
Reply == {"error", "href", "none"}
Answers == [resource : {"error", "none"}, byPath : Reply, root : Reply,
            inListing : BOOLEAN, meta : Reply, forbids : BOOLEAN]
Answer(r, o) == IF r = "href" THEN o ELSE r

(* canUseMediaFallback: the largest preview of an image, never of a video. *)
MediaFallback(f) == IF f \in Images THEN "preview" ELSE "none"

(* ShouldUseHLSFallback: only what looks like a video is asked for streams.  *)
ShouldUseHLSFallback(f, u) == u \in {"forbids", "empty"} /\ f \in Videos

(* resolveFileDirectURL: by the path of the file, then by the link alone,  *)
(* which for a folder is its archive, then from the metadata, and for an   *)
(* image its preview.  What it says when it has nothing tells whether the  *)
(* owner forbids the download.                                             *)
ResolveFileDirectURL(f, a) ==
  LET pathless == f \in Pathless
      chain == << a.resource,
                  IF pathless THEN "none" ELSE Answer(a.byPath, f),
                  Answer(a.root, IF link \in Files THEN f ELSE "archive"),
                  IF a.inListing THEN f ELSE "none",
                  IF pathless THEN "none" ELSE Answer(a.meta, f),
                  MediaFallback(f),
                  IF a.forbids THEN "forbids" ELSE "empty" >>
  IN  SelectSeq(chain, LAMBDA x : x # "none")[1]
Addresses(f) ==
  IF ctxDone THEN {"error"} ELSE {ResolveFileDirectURL(f, a) : a \in Answers}

(* A link to a file: its address is asked for together with its metadata.  *)
FileURL ==
  /\ pc = "fileurl"
  /\ \E u \in Addresses(link) :
       IF u \in Object
       THEN /\ direct' = u /\ files' = <<link>> /\ pc' = "walk"
            /\ UNCHANGED <<run, walk, file, attempt, total, declared, written, parts,
                           rows, refused>>
       ELSE /\ LinkFails({"resolve"})
            /\ refused' = (IF ShouldUseHLSFallback(link, u) THEN refused \cup {link}
                                                            ELSE refused)
  /\ UNCHANGED <<exists, disk, blind>>

(* downloadSingleYandexDiskLink filters once more.                         *)
Filtered(s) ==
  LET kept[n \in 0..Len(s)] ==
        IF n = 0 THEN <<>>
        ELSE IF IsSkippable(s[n]) THEN kept[n - 1] ELSE Append(kept[n - 1], s[n])
  IN  kept[Len(s)]

Resolved ==
  /\ pc = "walk" /\ todo = <<>>
  /\ LET kept == Filtered(files) IN
     \/ /\ files = <<>> /\ LinkFails({"resolve"})
     \/ /\ files # <<>> /\ (kept = <<>> \/ dryRun) /\ Idle /\ NoWalk
        /\ rows' = rows \ {"resolve"} /\ files' = <<>> /\ pc' = "loop"
        /\ UNCHANGED <<run, file>>
     \/ /\ kept # <<>> /\ ~dryRun
        /\ LinkFails({"resolve"})  \* the directory cannot be made
     \/ /\ kept # <<>> /\ ~dryRun /\ NoWalk
        /\ rows' = (rows \ {"resolve"}) \cup {"link"}
        /\ files' = kept /\ pc' = "item"
        /\ UNCHANGED <<run, file, transfer>>
  /\ UNCHANGED store

-----------------------------------------------------------------------------
LinkDone ==
  /\ pc = "item" /\ files = <<>>
  /\ rows' = rows \ {"link"} /\ pc' = "loop" /\ file' = "none" /\ Idle
  /\ UNCHANGED <<run, walk, files, store>>

DirFails ==
  /\ pc = "item" /\ files # <<>> /\ LinkFails({"link"}) /\ UNCHANGED store

SkipExisting ==
  /\ pc = "item" /\ files # <<>> /\ Target[Head(files)] \in exists /\ ~rewrite
  /\ files' = Tail(files)
  /\ UNCHANGED <<run, walk, file, transfer, store, rows, pc>>

(* DownloadFile starts with the address it has, or asks for one.           *)
BeginFile ==
  /\ pc = "item" /\ files # <<>> /\ (rewrite \/ Target[Head(files)] \notin exists)
  /\ file' = Head(files) /\ files' = Tail(files) /\ rows' = rows \cup {"file"}
  /\ pc' = (IF direct # "none" THEN "open" ELSE "url")
  /\ UNCHANGED <<run, walk, transfer, store>>

FileFails == LinkFails({"file", "link"})
FileDone ==
  /\ rows' = rows \ {"file"} /\ file' = "none" /\ pc' = "item" /\ Idle
  /\ UNCHANGED <<run, walk, files>>

FindURL ==
  /\ pc = "url"
  /\ \E u \in Addresses(file) :
       \/ /\ u \in Object /\ direct' = u /\ pc' = "open"
          /\ UNCHANGED <<run, walk, files, file, attempt, total, declared, written,
                         parts, rows>>
       \/ /\ ShouldUseHLSFallback(file, u) /\ pc' = "hls"
          /\ UNCHANGED <<run, walk, files, file, transfer, rows>>
       \/ u \notin Object /\ ~ShouldUseHLSFallback(file, u) /\ FileFails
  /\ UNCHANGED store

(* os.Create truncates what the target held; os.Remove forgets it.         *)
Save(bytes) ==
  /\ exists' = exists \cup {Target[file]}
  /\ disk' = [disk EXCEPT ![Target[file]] = bytes]
Unlink ==
  /\ exists' = exists \ {Target[file]}
  /\ disk' = [disk EXCEPT ![Target[file]] = <<>>]

(* downloadViaHLS.  The streams of a video are found on its public page,   *)
(* with the file's path; the segments of the best go straight into the     *)
(* target, which is removed when one of them fails.  What arrives is not   *)
(* measured: a segment whose body ends early is kept as it is (here none of*)
(* its bytes), and of a playlist that is cut at its limit the segments that*)
(* are left are all there is.                                              *)
NoStreams ==
  /\ pc = "hls" /\ FileFails /\ UNCHANGED store

GetVideoStreams ==
  /\ pc = "hls" /\ ~ctxDone /\ file \notin Pathless
  /\ Save(<<>>) /\ direct' = "stream" /\ written' = 0 /\ pc' = "segments"
  /\ UNCHANGED <<run, walk, files, file, attempt, total, declared, parts, blind,
                 refused, rows>>

Segment ==
  /\ pc = "segments" /\ ~ctxDone /\ written < Bytes[direct]
  /\ \/ Save(Append(disk[Target[file]], Whole(direct)[written + 1]))
     \/ Save(disk[Target[file]])
  /\ written' = written + 1
  /\ UNCHANGED <<run, walk, files, file, direct, attempt, total, declared, parts,
                 blind, refused, rows, pc>>

SegmentFails ==
  /\ pc = "segments" /\ written < Bytes[direct] /\ Unlink /\ FileFails
  /\ UNCHANGED <<blind, refused>>

StreamEnds ==
  /\ pc = "segments" /\ written > 0 /\ FileDone
  /\ blind' = blind \cup {Target[file]} /\ UNCHANGED <<exists, disk, refused>>

-----------------------------------------------------------------------------
(* downloadViaDirect.  The answer is opened before the target is truncated.*)
AttemptFails ==
  IF attempt = 1 /\ file \notin Pathless
  THEN pc' = "refresh" /\ Idle /\ UNCHANGED <<run, walk, files, file, rows>>
  ELSE FileFails

OpenFails ==
  /\ pc = "open" /\ AttemptFails /\ UNCHANGED store

(* resolveDownloadSize: the declared length wins over that of the listing. *)
ResolveDownloadSize(told) == IF told THEN Bytes[direct] ELSE Size[file]

Open ==
  /\ pc = "open" /\ ~ctxDone
  /\ declared' \in BOOLEAN
  /\ total' = ResolveDownloadSize(declared')
  /\ Save(<<>>) /\ written' = 0 /\ parts' = 0 /\ pc' = "copy"
  /\ UNCHANGED <<run, walk, files, file, direct, attempt, blind, refused, rows>>

Accept ==
  /\ blind' = (IF total < Bytes[direct] THEN blind \cup {Target[file]}
                                         ELSE blind \ {Target[file]})
  /\ FileDone /\ UNCHANGED refused

(* A body that ends early without an error is one of undeclared length.    *)
Copy ==
  /\ pc = "copy"
  /\ \E n \in 0..Bytes[direct] :
       /\ declared => n = Bytes[direct]
       /\ Save(SubSeq(Whole(direct), 1, n))
       /\ IF n < total
          THEN /\ written' = n /\ pc' = "range"
               /\ UNCHANGED <<run, walk, files, file, direct, attempt, total, declared,
                              parts, rows, blind, refused>>
          ELSE Accept

(* The body breaks off, or the target cannot be closed.                    *)
CopyFails ==
  /\ pc = "copy" /\ Unlink /\ AttemptFails /\ UNCHANGED <<blind, refused>>

-----------------------------------------------------------------------------
(* resumeDownload: an answer of 206 continues at the offset, and one of 200*)
(* starts again from the first byte, so the target is truncated.           *)
Start_Slip(status) == written
Start(status) == IF status = 206 THEN written ELSE 0

PartsLeft_Slip == TRUE
PartsLeft == parts < MaxParts

Range206Or200 ==
  /\ pc = "range" /\ ~ctxDone /\ written < total /\ PartsLeft
  /\ \E status \in {200, 206} : \E n \in 1..Bytes[direct] :
       LET from == Start(status)
           served == IF status = 206 THEN written ELSE 0
           n1 == n - served
       IN /\ n > served
          /\ Save(SubSeq(disk[Target[file]], 1, from)
                    \o SubSeq(Whole(direct), served + 1, n))
          /\ parts' = parts + 1 /\ written' = from + n1
  /\ UNCHANGED <<run, walk, files, file, direct, attempt, total, declared, blind, refused,
                 rows, pc>>

RangeEnds ==
  /\ pc = "range" /\ written >= total
  /\ Accept /\ UNCHANGED <<exists, disk>>

(* The request fails, as it does beyond the end of the object; a body      *)
(* breaks off or is empty; or the parts are used up.                       *)
RangeFails ==
  /\ pc = "range" /\ written < total /\ Unlink /\ AttemptFails /\ UNCHANGED <<blind, refused>>

(* A fresh address, and one more attempt.                                  *)
Again_Slip == 1
Again == 2

Refresh ==
  /\ pc = "refresh"
  /\ \E u \in Addresses(file) :
       IF u \in Object
       THEN /\ direct' = u /\ attempt' = Again /\ pc' = "open"
            /\ UNCHANGED <<run, walk, files, file, total, declared, written, parts,
                           rows>>
       ELSE FileFails
  /\ UNCHANGED store

-----------------------------------------------------------------------------
Download ==
  \/ LoopCancelled \/ LoopEnds \/ TakeLink \/ Meta \/ ListPage \/ ListFails \/ Walk
  \/ FileURL \/ Resolved \/ LinkDone \/ DirFails \/ SkipExisting \/ BeginFile
  \/ FindURL \/ NoStreams \/ GetVideoStreams \/ Segment \/ SegmentFails \/ StreamEnds
  \/ OpenFails \/ Open \/ Copy \/ CopyFails
  \/ Range206Or200 \/ RangeEnds \/ RangeFails \/ Refresh

Next == Cancel \/ HistoryEnds \/ Change \/ Download

Spec == Init /\ [][Next]_vars

(* Requests end: the client's timeout bounds each of them.  The producer   *)
(* ends when its messages do.                                              *)
FairSpec == Spec /\ WF_vars(Download) /\ WF_vars(HistoryEnds)

-----------------------------------------------------------------------------
(* Bytes of one object, in their order, and none of them twice.            *)
InOrder(s, o) ==
  \A i \in 1..Len(s) :
    s[i][1] = o /\ s[i][2] <= Bytes[o] /\ \A j \in 1..(i - 1) : s[j][2] < s[i][2]

(* Between two transfers every target has the bytes of one object only, the*)
(* one that was there or the one that an address named: a failed attempt   *)
(* leaves nothing of itself, a resumed one no byte twice.  And it has all  *)
(* of them, which is what lets the next run take a file that exists for    *)
(* done: except where nothing told the length (blind), of an answer without*)
(* one or of a stream, and what arrived was taken for the whole.           *)
DiskSound ==
  pc \notin {"copy", "range", "segments"} =>
    \A t \in exists : \E o \in Object :
      InOrder(disk[t], o) /\ (t \notin blind => disk[t] = Whole(o))

(* What blind leaves out: every target that is there is the whole of one   *)
(* object.                                                                 *)
DiskWhole ==
  pc \notin {"copy", "range", "segments"} =>
    \A t \in exists : \E o \in Object : disk[t] = Whole(o)

(* However its owner adds to a folder while its pages are read, every file *)
(* that was there all the time is found.  (When an entry goes away, the    *)
(* offset of the next page skips another: nothing is claimed then.)        *)
AllListed ==
  pc = "walk" /\ todo = <<>> /\ link \in Dirs /\ ~shrunk =>
    stable \ System \subseteq Range(files)

(* downloader.go:82 says of videos: "Try HLS fallback for videos when      *)
(* direct URL is restricted or unavailable".  A link to a video has its    *)
(* address asked for before that code is reached.                          *)
StreamsTried == refused = {}

(* The run ends, whatever the service answers, and when it has no progress *)
(* row is left open, which the display would wait for.                     *)
Ends == <>[](pc = "done" /\ rows = {})
=============================================================================
