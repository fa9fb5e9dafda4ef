# Specifications of tgdownloader

tgdownloader downloads the files of Telegram dialogs to a directory (or a
Dropbox folder), and public Yandex Disk links, from one-shot commands or from
an interactive prompt. This directory holds TLA+ specifications of the code
under `src/`, the TLC configurations that check them on small instances, and
proofs, checked by TLAPS, of what holds for every instance.

The repository has no README; besides the code, `src/docs/error-model.md` and
the designs and plans under `src/docs/superpowers/` say what it should do.

## The system

| Component | State | Operations | Hard because |
|---|---|---|---|
| Path claims and manifest (`internal/downloader/downloader.go` 148-165, 264-361, `manifest.go`) | `pathClaims`, the manifest in memory, `manifestDirty`, the manifest file, the output directory | `SetOutputDir`, `reserveOutputPaths`, the save in `Stop` | names are decided from three sources (claims, manifest, disk) over many sessions; workers change the disk meanwhile; crashes |
| Download run (`cmd/cmd/helpers.go` `downloadFiles`, `downloader.go` `Start`, `worker`, `Stop`, `AddDownloadQueue`, `pkg/telegram/file.go` `GetAllFiles`) | four kinds of goroutines, three unbuffered channels, counters, progress rows, `downloadErr` | the loops of the goroutines, the phases of `Stop`, cancellation | every select may go either way once the context is cancelled; `Stop` closes a channel others use; everybody waits for somebody |
| File transfer (`downloader.go` `downloadFile`, `resumeExistingPartialFile`, `file.go`, `DownloadFromOffset`) | content on disk, open files, attempts | fresh download to several paths, retry, resume, clean-up | retries after partial writes, check-then-create, two workers with one file, crashes |
| Progress rows (`internal/renderer/tui_progress.go`, `progress.go`) | active rows, the `changed` channel, the status goroutine | `newTracker`, `finish`, `Wait`, `Stop`, `EnablePS` | waiters and finishing rows race |
| Renderer events (`internal/renderer/events.go`) | a bounded channel | `Emit`, line buffering | a full channel blocks under a mutex |
| One-shot session (`cmd/cmd/runtime_command.go`, `runtime_startup.go`, `oneshot_model.go`) | state of the screen, startup, command, shutdown | `Update` on keys, events, startup and command results | three goroutines end in any order; cancellation at each point |
| Prompt session (`prompt_model.go`, `prompt_tui.go`, `prompt_execution.go`, `prompt_auth.go`) | as above, plus the queue of one command, the gate, the auth request | submit, finish, auth code, quit | results and barrier in either order; requests nobody answers |
| Prompt history (`prompt_history.go`) | entries in memory and on disk | `Record`, rewrite | crash between remove and rename |
| Dialog cache (`pkg/telegram/cache.go`, `dialog_cache_store.go`, `dialog_updates.go`, `dialog.go`) | the database and a map in memory | replace, upsert, remove, refresh, bootstrap | store and memory change in two steps, by several goroutines |
| Telegram connection (`pkg/telegram/client.go`, `cmd/cmd/root.go`) | the client goroutine, the update manager, the stop function | `Connect`, `Auth`, stop, `Close` | timeouts against late answers, goroutines left behind |
| Watcher (`pkg/telegram/file.go` 285-367) | handlers on the dispatcher, a channel | new message, end | handlers outlive the command |
| Yandex Disk (`pkg/yadisk/`, `cmd/cmd/download_yadisk.go`, `pkg/telegram/link.go`) | the links left, the listing of a folder, one open file and its offset | resolving, listing in pages, direct download, range resume, fresh address, streams of a video | servers that ignore ranges or end early; folders that change while they are read; stale addresses |
| Prompt completion (`prompt_completion.go`, `prompt_model.go`, peers in `helpers.go`) | the line and its cursor, the candidates, the chosen one, the first shown, the span one will replace, the height of the terminal | keys, `completePrompt`, accepting, paging, recalling, resizing; `resolvePeer` | the span belongs to a line that may have changed; quotes inside quotes; names that several peers have |
| Dropbox (`pkg/dropbox/`), OAuth server (`pkg/oauth2server/`) | a write stream; a result channel | open, write, close; callback, shutdown | an upload goroutine; a second callback |
| Extraction, formatting, configuration, commands | – | pure functions, wiring | – |

The parts meet in `downloadFiles`: a command of a session starts
`GetAllFiles`, which reads the history of a dialog in a goroutine; the producer
turns what it finds into jobs; the downloader's feeder reserves the output
paths of a job and hands it to a worker; the worker transfers the file and
shows a progress row, whose events reach the screen through the event channel.
A context that the session cancels ends them all.

`PROJECT.json` lists the hazards at their lines, with the properties that
cover them; those without a property say why.

## The plan

The modules, in the order in which they were written, the most important
behaviour first:

| Module | Subject | Runs | Proofs |
|---|---|---|---|
| `PathClaims` | which path a file gets, over sessions | `paths` | `PathClaimsProofs` |
| `DownloadPool`, implementing `JobLedger` | one run of the downloader | `pool`, `pool_scan` | `DownloadPoolProofs` |
| `FileTransfer` | the content of one file | `transfer`, `transfer_retry` | `CommandProofs` |
| `OneShot` | the session of a single command | `oneshot` | `CommandProofs` |
| `YadiskTransfer`, with `YadiskInvariants` | the links of Yandex Disk | `yadisk` | `YadiskProofs` |
| `PromptSession` | the interactive prompt, from its start to its end | `prompt` | `PromptProofs` |
| `PromptHistory` | memory, file and recall of the history, over sessions | `history` | `PromptHistoryProofs` |
| `ProgressRows` | rows, those who wait for them and what shows them | `rows` | `ProgressRowsProofs` |
| `DialogCache` | database and memory of dialogs, refresh and updates, the watcher | `dialogs` | `DialogCacheProofs` |
| `PromptCompletion`, `PromptEditor` | what is offered for a line, and what becomes of it | `editor` | `PromptProofs` |

Modules named `MC…` hold the constants of the instances that need definitions.
`CommandProofs` is about the two ends of a download command, its session and the
files it leaves, and `PromptProofs` about the session of the prompt and its line. For
two modules to be extended together, the names that every module has are
`TransferInit`, `TransferNext` and so on in `FileTransfer`, `EditorInit` and so on
in `PromptEditor`, where `m.running` is `commandRunning`.
Left of the plan: the OAuth server, the upload stream of Dropbox and the
manager of updates (see the end).

`FileTransfer` and `PathClaims` meet in one fact: different files have
different paths (`ExclusivePaths`), so content can be modelled file by file.
`DownloadPool` leaves what a worker does with a file to both. The modules are
kept apart because their product has no behaviour of its own beyond that.
`PromptSession` leaves to `PromptHistory` what `Flush` records, and to
`PromptEditor` how a line comes about; `OneShot` and `PromptSession` see of
`ProgressRows` only that events are emitted.

## PathClaims

The subject is the sequence of sessions over one output directory.

| Definition | Code |
|---|---|
| `SetOutputDir` | `SetOutputDir`: load the manifest, claim its paths; an unreadable manifest (`"load"`) leaves both empty |
| `Receive`, `ReserveKnown`, `ReserveNew`, `Send`, `FeederEnds` | the feeder goroutine; one turn of the loop of `reserveOutputPaths` per step, with `OutputPath` for its if-chain, `HasAmbiguousExistingFile` and `ClaimIdentifiedPath` for the functions of those names |
| `SaveRemoveOld`, `SaveRename`, `SaveFails` | `saveFileManifest`, called by `Stop` while workers still run |
| `Joined`, `Crash` | the end of a session, and the death of the process at any step |
| `BeginResume` … `Fail` | what a worker does to the disk: who wrote to a path and how much |

Paths are elements of a set; `Identified` is `pathWithIdentity`, given as a
table so that names that happen to look like identified names can be put in.
`names` is a history of the names a save has committed. `Losses` says which
calamities an instance has: the process may die (`"run"`), die or fail between
removal and renaming (`"gap"`), or find the manifest unreadable (`"load"`).
A claim that `ClaimsOf` leaves open is the iteration order of a Go map: two
identities in one manifest with one path. The proofs show it does not occur.

Sizes in PathClaims stop at the announced size; a file that a retry has made
longer (see below) is FileTransfer's subject. `Free` and the manifest are by
identity; identities made of a hash of the file's other attributes are those
outside `Stable`. `Skip` stands for all ways to be done without writing: an
existing file, a complete one found by a resume, and every file of a dry run.

When the manifest names a complete file, only its own identity
writes to it. When it does not (a crash before the first save, a lost manifest, a
legacy file), its size on disk is all that tells it from the file that asks for
its path (`hasAmbiguousExistingFile`), and one of the same size, of unknown
size, or without a stable identity takes the path; with `--rewrite` it truncates
what is there. `NoClobber` has this exception (`Indistinct` and `Unnamed`);
`MCPathAlike.cfg` gives both files one size and shows that the exception is real.
With these sizes, too, `NoClobber` and `ExclusivePaths` hold. In `paths` the sizes
differ, so there the exception never applies and the claim is the strict one.

Runs: `paths` (two files with one name, one of them also in a hashtag
directory; all flags; crashes; a legacy file of either size): 814 841 states.
Two files are enough for every branch of `OutputPath`; two directories make
the loop of `reserveOutputPaths` interruptible; a third file adds only a third
name, and is in `MCPathClash.cfg`.

## DownloadPool and JobLedger

`DownloadPool` has one variable per goroutine and per thing shared. The channels
have no buffer, so a send is the receiver's step (`ProducerTakes`,
`FeederTakes`, `Take`). `cancelled` may turn true at any step; after that every
select may go either way. `stop` walks through the phases of `Stop`. What
happens inside a worker's file is `prepare`, `fresh` or `resume`, with the row it
may have open. `exit` is what the errgroup remembers, `errs` what `recordError`
has joined.

`JobLedger` is the promise: each file found is settled once; only a cancelled
run loses files; the statistics reported are final. The refinement maps `open` to
the number of files in somebody's hand (`InHand`).

Run `pool`: two workers, three files, 110 920 states. Two workers are needed
for one to fail while another is between two files; three files put one in the
hand of every goroutine of the pipeline. `pool_scan` shows a disagreement.

Fairness: goroutines that can run do run (weak fairness of the producer, the
feeder, `Stop` and each worker); a history query and a download whose context
is cancelled return, because the library takes the context. There is no fairness
for finding files, for the end of the history or for an uncancelled download:
no timeout of this program ends them, so the part of `RunEnds` about a run that
nobody cancels has the end of the history and of each download as its premise;
the part about a cancelled run has not.

## FileTransfer

One file, its output paths and several workers. The disk holds sequences of
chunks, so that a file which starts twice, has a hole or ends early can be told
from a good one. `handle` is each open file with its offset; a removed file
that is still open is an orphan (POSIX semantics of unlink). `Check` and
`Create` are the two steps of `addFileToSaver`. `DownloadAgain` is the retry of
`downloadFile`: the stream starts over, the saver goes on where it was. A
failure may strike after any chunk, also within a write to several files.

`mixed` is a history of the paths on which a retry or two workers have written
twice over. `PrefixOnDisk` and `CountedWhole` are about the other paths.

A fresh download that ends without an error is counted, whatever it has brought:
`downloadFile` does not look at the size, so `Downloaded` may come after any
chunk. Only a resume measures what it has (`Resumed`, `LongEnough`). `CountedWhole`
says therefore of a resume that the file is whole, and of a fresh download that
each path it wrote has what its last stream brought, once and in order;
that this is the whole file (`NeverShort`) is up to the library, and
`MCTransferShort.cfg` shows what follows if a stream ends early without an
error. `DownloadedIntact`, for streams that bring everything, is without the exception of the
mixed paths; it is what the tests ask for, and fails.

Run `transfer`: two workers, one or two paths, two chunks, two attempts,
248 218 states. Two chunks are the least with a proper prefix; `Copies` lets
two workers meet on one path and leaves two paths to one worker. The retry loop is
bounded by `Retries`, so that a worker always ends is clear from the code and
not a property.

## OneShot

One session of `runOneShotTUI`, from the start of its screen to the end of
`Close`, for a command that needs a connection and for one that does not.

| Definition | Code |
|---|---|
| `StartupBegins`, `SetUp`, `Connected`, `ConnectFails`, `ConnectRowFails` | the startup's goroutine: the claim, `startOneShotRuntime`, `waitForConnectInit` |
| `Dialed` … `LoggedOut` | the goroutine that `Connect` starts: `runClient`, `Auth`, the wait, `logout` |
| `Ask`, `SignedIn`, `Unanswered`; `AuthMsg`, `Enter` | `Code` of `prompt_auth.go` on one side, the screen on the other |
| `CommandBegins` … `Barrier` | `submitCommand`, up to the event after all output |
| `Read` and the actions named `…Msg`, `Key` | the waiting commands of the screen and the branches of `Update` |
| `Shut`, `DrainEvent`, `LifetimeEnds`, `Close` | `runOneShotTUI` after its program |

Bubble Tea is external. It runs each command of the screen in a goroutine and
hands over the messages one at a time, in an order that nobody has promised,
so each message pending is a state of its sender (`startup = "returned"`,
`asker = "holding"`, an event in `reader`) and its arrival is an action. `quit`
is a message as well. When the program has ended, messages are dropped and
what was given to it last may or may not start.

The client is built with updates enabled. One event stands for all that a step
emits, and `Capacity` is 1: a channel that is full after every event is the
worst the real one (256 events) can be. Waiting for progress rows is the
subject of `ProgressRows`. `CommandEnds` gives any result: what the command does is
the subject of the other modules.

Run `oneshot`: two events of output, 115 550 states. Two are the least for an
event to wait in the channel behind one that the screen holds. The run has
`CHECK_DEADLOCK FALSE`: a session that has returned stops, and one whose
screen asks for a code waits for the user.

Fairness: goroutines run, Bubble Tea delivers and starts what it was given as long
as its program runs, the client library and the command return when their
contexts end. Nothing is assumed of the user, of the network, or of a command that
nobody interrupts. `Returns` therefore begins with an interruption (`Ending`),
and has one exception, `Lost`, which `OneShotHang.cfg` shows to be real.
`Joined` asks that a connection be over which `Connect` has returned;
`OneShotOrphan.cfg` shows the other case.

## YadiskTransfer

`download yadisk` from the first link to the summary, one link and one file at
a time as in the code.

| Definition | Code |
|---|---|
| `Offered`, `TakeLink`, `LoopCancelled`, `LoopEnds` | `GetYandexDiskLinks` with its limit, the select loop of `downloadYandexDiskLinks` |
| `Meta`, `ListPage`, `Walk`, `FileURL`, `Resolved` | `ResolvePublicResourceDownloads`, `listDirectoryItems`, `collectDirectoryFiles` |
| `Answers`, `Answer`, `MediaFallback`, `Addresses` | what may come back when an address is asked for: the object, its archive, a preview, nothing |
| `Open`, `Copy`, `Range206Or200`, `RangeEnds`, `RangeFails`, `Refresh` | `downloadViaDirect`, `resumeDownload`, and the second attempt with a fresh address |
| `GetVideoStreams`, `Segment`, `StreamEnds` | `downloadViaHLS` |
| `Change` | the owner of a folder adds or removes an entry at any place of the listing between two pages |

The disk holds, for each target, the bytes written with the object each of them
is from, so that a gap, a repetition or a mixture can be told from a whole file.
The service is external: any request may fail, a body may break off, an answer
may leave its length out, a range may be ignored. A segment of a stream is copied
without regard to its length and a playlist is read up to 1 MiB, so a body that
ends early or a playlist that is cut goes unnoticed: `Segment` may bring
nothing, and `StreamEnds` comes after any segment. `blind` is a history of the
targets for which nothing told the length, which are those of answers without
one and of all streams. `DiskSound` says that between two transfers a target has
bytes of one object only, in their order and none twice, and all of them
unless it is blind. `DiskWhole`, without that exception, fails
(`MCYadiskCut.cfg`): half a video passes for the whole, and later runs skip it.

Run `yadisk`: a folder with a nested one, a system file, a video, an image, a
file of unknown size and a second link with the same target as one of them;
pages of one entry, two range parts, one change by the owner, all options:
278 944 states. `PageSize` 1 makes every entry a page of its own; two parts are
the least for the bound on parts to matter. `AllListed` claims nothing after an
entry was removed (`shrunk`): the offset of the next page then skips another
entry, which the design accepts. Fairness: requests end, because the client's
timeout bounds each; the producer of links ends when its messages do.

## PromptSession

The interactive prompt: `runPromptTUI`, the screen, the startup behind it, the
request for a code, and commands one after the other. It is a sibling of
`OneShot` and treats Bubble Tea alike; what is new is that the screen goes on
after a command.

| Definition | Code |
|---|---|
| `StartupBegins` … `ConnectFails`, `Ask`, `Answered` | `startPromptRuntime`, the authenticator |
| `Submit`, `Acquire`, `TooLate`, `Output`, `Executed`, `Flush`, `Barrier` | `submitLine`; the goroutine of `submitCommand`: the gate, `executePromptRoot`, and its deferred calls in the order in which they run |
| `Read`, `EventMsg`, `BarrierMsg`, `CommandMsg`, `Finalize`, `Rearm` | the branches of `Update`; result and barrier in either order |
| `Key`, `ContextMsg`, `QuitMsg`, `Abort` | Ctrl+C at each state, a signal, the end of Bubble Tea |
| `Shut`, `CommandJoined`, `DrainEvent`, `Return` | `cancelAndWaitForActiveCommand`, `waitForPromptStartup` |

`Executed` gives the gate free before `Flush` and `Barrier`, as the order of the
deferred calls has it; that the next command nevertheless finds the last one's
output on the screen is `OutputBeforePrompt`, and rests on the screen's waiting
for result and barrier, not on the gate.

Run `prompt`: two commands, two events of output each, a channel of one event:
169 084 states. Two commands are the least to overlap, one place in the
channel the worst for whoever emits. Fairness is that of `OneShot`. `Returns`
has the same exception `Lost`, a command built but never started.

## PromptHistory

The file, the store of a session and the list of the screen. `Load`, `Enter`,
`AppendLine` and the three steps of `rewrite` are the code's; `WriteFails` is
an error of any of these, `Down` the end of the process at any step. A write
that fails may leave a part of a line (`Torn`), which swallows the next one
appended. Lines over 64 KiB can be written and not read again, because
`bufio.Scanner` gives up (`Long`). Arguments are kept as far as the filter of
secrets looks at them: `Expects` is its loop, `CarriesSecret` says independently
what a secret is.

Run `history`: three sessions, five lines entered, limits 2 and 3, one fault,
three arguments: 87 392 states. Five lines over a limit of two force several
rewrites; three sessions let one load what another has torn. Histories of the
model: `logged`, the lines taken; `clean`, that nothing has failed since the
load. What fails is excepted by `clean`, not what dies: `NothingLost` allows a
death to cost the line under way, and more only between removal and renaming,
the gap this file shares with the manifest.

## ProgressRows

The trackers of a command used by several goroutines at once, `Wait`, `Stop`,
the status row with its goroutine, and the two things behind the sink: the
screen with its bounded channel, and the plain terminal with a live row and an
animation. Each use of a tracker has a program counter of its own (`user`);
`create`, `update` and `end` are the times when it holds the tracker's mutex and waits
for room in the channel. `changed` counts the channels that
`signalChangedLocked` has closed, and `seen` is the one `Wait` selects on: a
wait misses nothing if and only if `seen` is the current one.

Run `rows`: a row with and one without a total, one of them ended by two
goroutines, one update, a channel of one event, either sink: 166 255 states.
Fairness: goroutines run, the screen reads, and whoever has made a tracker ends
it; the last is what `RowsClosed` of `DownloadPool` shows for the downloader.
`WaitedFor` is about a wait that is not cut off by its context.

## DialogCache

Records and index in the database and the map in memory, each changed in a step
of its own. The refresh (`List` … `ReplaceMemory`) is the goroutine of
`GetAllDialogs` and its caller; `OnMessage`, `OnEntity`, `RefreshKnown` and
`Upsert` are the handlers of updates, one goroutine for each channel and one
for the rest; `Watch` and `WatchEnds` are the watcher, whose handlers replace
those for new messages. Telegram is the dates of the last messages: its list is
by date and is read from the youngest on, so a dialog that gets a message while
the list is read is never reached. `Down` ends the process between any two
steps; messages under way are handled again or were seen.

Run `dialogs`: a user and a channel, two messages, two refreshes, a crash:
664 312 states. A channel and a user have different goroutines, which is what a race
needs; two refreshes let one follow a bootstrap. The three are also proved. `CachedKept`
is about dialogs whose last message came and was handled while no refresh was
under way (`last`), `SnapshotIsIndex` excepts states after a handler wrote in
the middle of a refresh (`raced`). Those races are real. The design asks that
index and snapshot be replaced atomically (`dialog-cache-design.md` 42-44), but the
code replaces them one after the other and does not hold back the handlers:
a dialog upserted between the two is in the index and not in memory, which a
restart mends (`DialogCacheRace.cfg`); one upserted while the list is read, and
not in it, is dropped from index and memory both when `Swap` and
`ReplaceMemory` run, and a restart does not bring it back, only its next message
or the next refresh. `Watch` happens at most once in a process; in the code each
command that watches registers its handlers anew, over those of the last one.

The run has no liveness: nothing in the cache waits. What does wait is a
handler of a watcher that has ended (`"offer"`): no document says that updates
go on then, so the model has the step and no property.

## PromptCompletion and PromptEditor

`PromptCompletion` has the pure functions, over lines whose characters are
classes: some letters and digits, a space, a quote and `0x`. `SplitTokens` says which
characters are inside quotes by counting the quotes before them, where the code
has a loop with a state; `PeerCandidates` ranks and disambiguates those
of the peers that fit the command (`PromptPeerFilters`), whose names alone are
counted. `ResolvePeer` is how the command that is run later finds the peer again,
in this order: as a number, with or without `0x`, if a peer with that id is known
(`Known`, external: peers in the cache or not); by an alias; by the beginning of one;
the last two among peers of all kinds.
`PromptEditor` has the keys. Every edit sets a new line and a new cursor
(`UpdateEditor`), the candidates are those of that line, and `AcceptCompletion`
writes one of them over the span that was computed before.

Run `editor`: every line of up to four characters, three commands (without a
peer, for any peer, for a channel), seven peers (a space in a name, a quote at
either end, names that are numbers, a user name and a name that another has, the
latter of another kind), three heights of the terminal: 164 400 states. Longer lines are
those that acceptance and recall make, among them one with `0x`. Heights 3, 11
and 12 are a layout without candidates, the least with a row of them, and one
with two.

`NamesOnePeer` excepts names that can be mistaken (`Mistakable`): a name
that begins with a quote, which is taken off; one that reads as the number of another
known peer (`cafe`, `12345678`), since numbers are tried first; and one that is
the user name of another peer, or the name of a peer of a kind that the
command does not take, since only names of the offered kinds are counted while all
aliases of all peers are searched. Each of the exceptions is real, and without any one of
them the run fails; `MCPromptMistaken.cfg` has none of them.
`AcceptedIsWord` leaves out a word with a quote in its middle or text behind a
closing quote; the code leaves a quote over there. On a terminal of fewer than eleven
rows candidates are not shown and Enter still accepts one. The executor
splits lines by a library; the completer's own tokens stand in for it in
`Words`. Scrolling, quitting and the wording of candidates are left out.

## What the properties are

* `ExclusivePaths`, `OneAuthor`, `NamesStable`, `NoClobber`, `DryRunInert`:
  no two files share a path; no file mixes two authors; saved names stay;
  a complete file is written only for its own identity, or for one that nothing
  on disk tells from it; dry runs leave no trace.
* `NoSendOnClosed`, `RowsClosed`, `LedgerSpec`, `RunEnds`:
  no goroutine panics on the channel of jobs, no row is left open, no file is
  lost or counted twice, and a run and its `Stop` come to their ends.
* `PrefixOnDisk`, `EarlierDataKept`, `CountedWhole`: what is on disk is the
  beginning of the file; no later session loses it; what is counted is whole after
  a resume, and what the stream brought after a fresh download.
* `Joined`, `OutputComplete`, `ResultFaithful`, `Returns` (one-shot): the
  shutdown cuts nothing off that is at work; a command is over when all of its
  output is on the screen; the errors that reach the exit code are those that
  occurred; every interruption ends the session, and the wait for a code.
* `DiskSound`, `AllListed`, `Ends`: between two transfers every target has
  bytes of one object in order, and all of them unless nothing told the length; no file is missed that was in the folder all the time;
  the command ends, and its rows with it.
* `OutputBeforePrompt`, `OwnResults`, `Joined`, `Returns` (prompt): a free
  prompt has all output above it; commands do not overlap and results are not
  mixed up; what is at work is joined; Ctrl+C gives the prompt back and every
  end of the session is reached.
* `RecallMatches`, `NoSecrets`, `NothingLost`: memory, screen and file are the
  newest lines taken; no secret is kept anywhere; a session finds what the last
  one took.
* `LastWord`, `WaitedFor`, `Settles`: a row's end is its last event; `Wait`
  returns after the ends it waits for, and does return; animations stop.
* `RecordsFirst`, `CachedKept`, `SnapshotIsIndex`: no start finds an entry
  without its record; a dialog once cached is not dropped by a refresh; memory
  says what the index says.
* `Current`, `InView`, `NamesOnePeer`, `AcceptedIsWord`: candidates belong to the
  line they are shown for; the chosen one is visible; what is inserted is one
  word, and names the peer that was chosen, unless the name can be mistaken.

The type invariants of `YadiskTransfer`, `ProgressRows`, `PromptSession` and the
editor are among what the runs check; those of all modules but the editor are
proved for every instance.

Definitions whose names end in `_Slip` are not part of the models. Each is the
definition after it with a plausible mistake; put in its place, it must make a
property fail.

## Disagreements with the code

Two are among the runs, one about the history of a dialog and one about its files:

1. `pool_scan`: an error of the history query is logged and ends the stream;
   the command succeeds.
2. `transfer_retry`: a retry after a partial write leaves the beginning of the
   file in it twice, and counts it as downloaded.

TLC shows the others with further configurations, for instance
`tlc -config MCPathGap.cfg MCPathClaims`:

3. `MCPathGap.cfg` (`NamesStable`): `saveFileManifest` removes the old manifest
   before it renames the new one; what dies or fails in between loses all names.
4. `MCPathClash.cfg` (`OneAuthor`): `claimIdentifiedPath` does not look at the
   disk, so an ambiguous file at the identified name is appended to.
5. `MCPoolCancel.cfg` with `DownloadPool` (`CancellationReturned`): a cancelled
   run in which every worker chooses the closed channel returns no error though
   files were dropped.
6. `MCTransferTwice.cfg` (`DownloadedIntact`): the second of two workers on the
   same file resumes what the first is still writing.
7. `OneShotHang.cfg` (`AlwaysReturns`): if the program ends between the building
   of the command and its start, the shutdown waits for the command for ever.
8. `OneShotOrphan.cfg` (`AllJoined`): a cancelled `Connect` leaves its goroutine
   behind, and the database is closed under it.
9. `MCYadiskStreams.cfg` (`StreamsTried`): a link to a video whose download is
   forbidden fails while it is resolved, before the code that would try its
   streams; only a video inside a folder gets that far.
10. `PromptHistoryRetry.cfg` (`AcceptedStored`): a line whose write failed is
    taken for a repetition when it is entered again, and never stored.
11. `DialogCacheReport.cfg` (`ReportedReplaced`): `dialog refresh` reports a
    number of dialogs although the list failed and nothing was replaced.
12. `MCPathAlike.cfg` (`NeverClobbered`): after a crash has lost the names, a file of
    the same name and size takes the path of a complete one, and `--rewrite`
    truncates it.
13. `MCTransferShort.cfg` (`NeverShort`): a fresh download whose stream ends early
    without an error is counted as downloaded; a resume would have noticed.
14. `MCYadiskCut.cfg` (`DiskWhole`): a stream with a segment or a playlist that is
    cut short is reported as downloaded.
15. `MCPromptMistaken.cfg` (`NoneMistaken`): an accepted candidate names another
    peer, several, or none.
16. `DialogCacheRace.cfg` (`SnapshotAlways`): a dialog upserted between the halves of a
    replacement is in the index and missing in memory.

## What is proved

For all values of the constants, under the `ASSUME`s of the modules (types of
the constants, finitely many workers, markers such as `None` that are not
members of the sets they mark):

* **PathClaimsProofs.** `ExclusivePaths` is not inductive. It follows from
  `ClaimsAgree`: the paths of every job, of the file in hand and of the manifest
  are claimed by the right identity, and a stored manifest never gives one path
  to two identities, so loading it can establish the rest. `Agreement` proves it
  together with `TypeOK`; `PathsExclusive`, `DryRunsAreInert` (with `DryInv`)
  and `NamesAreStable` (with an invariant that relates committed names to
  the stored manifest, and the assumption that neither `"gap"` nor `"load"`
  happens) use it. Who wrote a file is another question: the owner of a path in
  this session need not be that of the last. `Authorship` ties writing to names:
  whoever has written to a path, or may, has it among the names it asks for or as
  its identified name, and a file that its owner may append to is its own
  or is not short. It needs `NoClash` (no identified name is another file's name or
  belongs to a legacy file) and no unreadable manifest; for stable identities `OneAuthorEach`
  follows. `NothingIsClobbered` has the same two hypotheses: the owner of the path
  that writes to a complete file is its identity, or has not been told from it by
  size, and then no manifest names the file. A lost manifest (`"gap"`) is allowed. Without
  the first TLC finds a counterexample to `OneAuthor` (`MCPathClash.cfg`), without the
  second one to `NoClobber`: an old manifest that can be read again names an owner of
  before.
* **DownloadPoolProofs.** `Orderly` adds to the types in what order goroutines
  end: `Stop` past its first phase means the feeder has gone, a closed channel
  means the same, past the join all workers have gone, and a row belongs to a
  worker that streams. From it follow `NeverSendsOnClosed`, `RowsAreClosed`,
  and `ImplementsLedger`, the refinement: every step of the run is a step of
  the ledger or none, by counting the workers that hold a file.
* **CommandProofs**, of `FileTransfer`. `PrefixOnDisk` says nothing of who will write next, so
  it is not inductive. `Coherent` adds, in two layers. `Shaped`: only busy workers
  have files open, a resume has one path only, a path is opened after it has been
  looked at once, and what is open exists. Then, for the paths outside `mixed`:
  one writer at most (`OneWriter`), whose offset and next chunk are where the
  content ends (`WriterAtEnd`); and the files of earlier sessions are neither
  created nor opened except for appending (`BeforeSafe`). `PrefixesOnDisk`,
  `EarlierDataIsKept` and `CountsWholeFiles` follow; the lemmas about `WriteAt`,
  `Append` and `IsPart` carry the content. `Coherent` is also true in every state
  of the run's instance.
* **CommandProofs**, of `OneShot`. `Sound` has three parts besides the types, which TLC has
  also found true of the run's instance and of one with `Capacity` 2. `Ordered`: what
  follows the shutdown, and what a connection that was made says of its client; it
  gives `WorkIsJoined`. `Settled`: how the screen's `startup`, `running` and
  errors agree with the work behind them, up to what a quit means; it gives
  `ResultsAreFaithful`. `Flushed`: what was emitted is shown, held or in the
  channel, and behind a barrier no output follows; it gives
  `OutputIsComplete`. Counting in the channel rests on `OutsAppend` and `OutsTail`.
* **YadiskProofs**, with the invariants of `YadiskInvariants`. `DiskSound` is about
  the times between two transfers. `Content` adds what holds during one: what has
  arrived at the target is the beginning, up to `written`, of the object that the address
  in use names: a range that is honoured goes on where that ends, one that is
  ignored starts over, and so does the attempt with a fresh address. Of a stream, what has arrived is of the segments so
  far, in order. Every other target holds one object in order, and is whole or `blind`. It rests on what the program has at
  hand at each place (`Shape`), and gives `TargetsAreWhole`. `AllListed` is about the end
  of a walk. `Found` says where a file is that is not in the result yet: among the
  entries noted, in the pages read, on a page still to come, or somewhere below a
  directory of which one of these is true. An addition moves entries to later pages, which
  is why it never loses one (`ChangeFound`); a removal moves them to earlier
  ones, which is why `shrunk` is excepted. It gives `FoldersAreFound`. That a folder is under
  another is a constant relation, `Below`, closed as the assumption says. The
  filter of files and the extraction of links are recursive functions; that such a
  function exists is built up one element at a time (`Built`), and `Carried` takes
  a property along it.
* **DialogCacheProofs.** `RecordsFirst` is about the index and the memory; what
  breaks it is written earlier, by a refresh or a handler that is half way.
  `Written` says that whatever is about to be named (the part of the listing
  stored so far, the peer of a handler past its first step) has its record;
  `AtRest`, that a process that is down has neither; with both
  `RecordsFirst` is inductive (`RecordsComeFirst`). `Kept` says of a dialog whose last
  message found no refresh under way that the listing has it or will still come to it: the listing
  goes by date, and the date has not changed since; so no replacement drops it (`CachedStays`). `Alike` says by what index and memory may differ without a
  race: by the peer that one goroutine is about to put into memory, or, between the
  halves of a replacement, by the whole listing; never by both
  (`SnapshotFollows`).
* **PromptHistoryProofs.** Between two commands `RecallMatches` says all there
  is to say; `Consistent` says what holds while a line is being written, namely
  that file and screen lack exactly that line. `NewestAppend` carries it: to
  drop what is old before a line is added or after makes no difference.
  `Follows` says what the file has of the lines taken at every step of a write
  that does not fail, a rewrite and a crash in it included; it gives
  `NothingIsLost`. `SecretsStayOut` has two halves: that the filter's loop
  finds every secret, by induction over the arguments of a line, and that no other way leads a
  line into file, store or screen.
* **ProgressRowsProofs.** `Tracker` follows one tracker through its mutex: at
  most one use holds it, and only the use that set `terminal` emits the end and
  counts the row down. That is not enough for `Wait`, which reads `p.active`
  alone, so `Balance` says what it counts: the rows that are made and whose
  end is not both emitted and counted (`Open`), by cardinality. `Screen` is
  `LastWord` with what each sink leaves unused. Neither depends on where
  `EnablePS`, `Wait` and `Stop` are; that part is `Awaited`, and most steps are
  `Apart` from it. `Tally` counts the signals: one for each row that is over and
  counted down, one of `Stop`; with `Balance` it bounds the counters, which is the
  part of `TypesHold` that is not plain.
* **PromptProofs**, of `PromptSession`. `Turns` says that only the last command may be at
  work, and only while the screen waits for it; it makes the counts of results
  and lines agree. `Flow` follows one command: what it has emitted is shown, in
  the hand of the reader, or in the channel; its barrier is the last of it, and
  once the screen has seen the barrier nothing of the command is left anywhere.
  A barrier in the channel means that the command has returned, which is why a
  command at work can add to the channel without disturbing this.
* **PromptProofs**, of `PromptEditor` and `PromptCompletion`. `Current` is inductive with the types
  (`EditorInv`): every step that changes line or cursor computes the candidates
  anew, drops them, or is possible only when there are none. So what holds of
  `CompletePrompt` for every line (`Completed`) holds of what is offered: each candidate is
  a command, or a peer with something that stands for it alone (`ValueStands`): its
  id (`IdStands`), or a name that no other peer that fits the command has, and that cannot be
  mistaken (`NameStands`). A name is found as it is
  because nothing in it is stripped, halved or joined (`NamesAreClean`). The words of a line
  have their places in it (`TokenTyped`), which keeps the cursor inside the line that
  `AcceptCompletion` puts together. `FlattenJoins` says that `FlattenSeq` joins its parts
  one by one; the rest about sequences follows from it. `ChosenInWindow` and
  `PartsFill` are the arithmetic of window and layout, for every height.

Only model-checked: `AcceptedIsWord`, which compares the words of two lines, one made
out of the other: it needs the parity of the quotes before every character of
both; and all liveness, which the prover cannot do under fairness. The library's induction theorems take a predicate
as a parameter and cannot be used; where a proof needs induction, it is stated about
sets of numbers (`Induction`, `AllNaturals`), from the least member that a set of numbers has.
The inductive invariants were found true by TLC, on instances like those of the
runs, before they were proved. The `violation` runs are instances by nature.

## What is not modelled

* The OAuth server and the Dropbox file system: one exchange with the browser,
  and an adapter that passes calls on.
* The manager of updates and its 15 s timeout, NTP, flood waits, the storage of
  update state: calls into the Telegram library.
* Extraction of files from messages, a pure conversion whose results are constants
  here; the filters and the limit of the watcher.
* Formatting, the line splitting of `EventWriter`, scrolling, the debug log,
  configuration, the wiring of commands: layout and wording.
* The Telegram, HTTP and database libraries. Where the models use one (the
  history query, a download, the file system) the action says what the code in
  `src/` can see of it.
