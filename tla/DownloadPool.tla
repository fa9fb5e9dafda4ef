---------------------------- MODULE DownloadPool ----------------------------
(***************************************************************************)
(* One run of downloadFiles (cmd/cmd/helpers.go): the goroutine that reads *)
(* a dialog's history, the producer that makes download jobs of its files, *)
(* the Downloader's feeder and its pool of workers, and Stop, which waits  *)
(* for all of them (internal/downloader/downloader.go).                    *)
(*                                                                         *)
(* history --fileChan--> producer --queue--> feeder --files--> workers     *)
(*                                                                         *)
(* The three channels have no buffer: a send and the receive that matches  *)
(* it are one step.  Every goroutine selects between its channel and the   *)
(* command's context; once the context is cancelled, either may win.  What *)
(* a worker does with a file is in PathClaims and FileTransfer.            *)
(***************************************************************************)
EXTENDS Naturals, FiniteSets

CONSTANTS
  Workers,   \* the workers of the pool (WithNumWorkers)
  MaxFiles,  \* bound: how many files the history offers
  None

ASSUME PoolAssumption ==
  /\ IsFiniteSet(Workers)
  /\ MaxFiles \in Nat
  /\ None \notin [{"downloaded", "skipped", "failed"} -> Nat]

VARIABLES
  cancelled,    \* the command's context is cancelled
  history,      \* GetAllFiles: "more", or how it ended, which closes fileChan
  offer,        \* GetAllFiles is sending a file
  found,        \* how many files it has found
  producer,     \* "receive", "send" or "gone", which closes queue
  feeder,       \* "receive", "send" or "gone"
  worker,       \* worker[w]: "idle", "prepare", "fresh", "resume" or "gone"
  rows,         \* the workers whose progress row is not terminal
  stop,         \* how far Stop has come
  filesClosed,
  exit,         \* what errgroup remembers: the errors workers returned
  stats,        \* the counters downloaded, skipped and failed
  errs,         \* downloadErr: the causes joined in it
  report        \* the statistics that onComplete received, or None before

source == <<history, offer, found>>
pool == <<worker, rows, exit, stats>>
stopping == <<stop, filesClosed, report>>
vars == <<cancelled, source, producer, feeder, pool, stopping, errs>>

Outcome == {"downloaded", "skipped", "failed"}
Cause == {"cancel", "network", "io"}
Streaming == {"fresh", "resume"}
Busy == {"prepare"} \cup Streaming

TypeOK ==
  /\ cancelled \in BOOLEAN
  /\ history \in {"more", "ended", "failed", "cancelled"}
  /\ offer \in BOOLEAN
  /\ found \in Nat
  /\ producer \in {"receive", "send", "gone"}
  /\ feeder \in {"receive", "send", "gone"}
  /\ worker \in [Workers -> {"idle", "gone"} \cup Busy]
  /\ rows \subseteq Workers
  /\ stop \in {"queue", "save", "close", "join", "complete", "tracker", "returned"}
  /\ filesClosed \in BOOLEAN
  /\ exit \subseteq Cause /\ errs \subseteq Cause
  /\ stats \in [Outcome -> Nat]
  /\ report \in [Outcome -> Nat] \cup {None}

(* SetOutputDir may already have recorded that it cannot load the manifest.*)
Init ==
  /\ cancelled = FALSE
  /\ history = "more" /\ offer = FALSE /\ found = 0
  /\ producer = "receive" /\ feeder = "receive"
  /\ worker = [w \in Workers |-> "idle"]
  /\ rows = {} /\ exit = {}
  /\ stats = [o \in Outcome |-> 0]
  /\ stop = "queue" /\ filesClosed = FALSE /\ report = None
  /\ errs \in {{}, {"io"}}

-----------------------------------------------------------------------------
(* The user interrupts the command, or the program shuts down.             *)
Cancel ==
  /\ ~cancelled /\ cancelled' = TRUE
  /\ UNCHANGED <<source, producer, feeder, pool, stopping, errs>>

-----------------------------------------------------------------------------
(* GetAllFiles.  An error of the history query is logged and ends the      *)
(* stream exactly as the end of the history or --limit does.               *)

FileFound ==
  /\ history = "more" /\ ~offer /\ found < MaxFiles
  /\ offer' = TRUE /\ found' = found + 1
  /\ UNCHANGED <<cancelled, history, producer, feeder, pool, stopping, errs>>

HistoryEnds ==
  /\ history = "more" /\ ~offer
  /\ history' \in {"ended", "failed"}
  /\ UNCHANGED <<cancelled, offer, found, producer, feeder, pool, stopping, errs>>

HistoryCancelled ==
  /\ history = "more" /\ cancelled
  /\ history' = "cancelled" /\ offer' = FALSE
  /\ UNCHANGED <<cancelled, found, producer, feeder, pool, stopping, errs>>

-----------------------------------------------------------------------------
(* The producer of downloadFiles.                                          *)

ProducerTakes ==
  /\ producer = "receive" /\ offer
  /\ offer' = FALSE /\ producer' = "send"
  /\ UNCHANGED <<cancelled, history, found, feeder, pool, stopping, errs>>

ProducerEnds ==
  /\ \/ producer = "receive" /\ history # "more"
     \/ producer \in {"receive", "send"} /\ cancelled
  /\ producer' = "gone"
  /\ UNCHANGED <<cancelled, source, feeder, pool, stopping, errs>>

-----------------------------------------------------------------------------
(* AddDownloadQueue's goroutine.  (A definition whose name ends in _Slip   *)
(* is not part of the model: it is the definition after it with a mistake  *)
(* in it, used to see that the properties notice the mistake.)             *)

FeederTakes ==
  /\ producer = "send" /\ feeder = "receive"
  /\ producer' = "receive" /\ feeder' = "send"
  /\ UNCHANGED <<cancelled, source, pool, stopping, errs>>

FeederEnds_Slip ==
  /\ feeder # "gone" /\ (producer = "gone" \/ cancelled)
  /\ feeder' = "gone"
  /\ UNCHANGED <<cancelled, source, producer, pool, stopping, errs>>

FeederStuck_Slip ==
  /\ feeder = "receive" /\ (producer = "gone" \/ cancelled)
  /\ feeder' = "gone"
  /\ UNCHANGED <<cancelled, source, producer, pool, stopping, errs>>

FeederEnds ==
  /\ \/ feeder = "receive" /\ producer = "gone"
     \/ feeder \in {"receive", "send"} /\ cancelled
  /\ feeder' = "gone"
  /\ UNCHANGED <<cancelled, source, producer, pool, stopping, errs>>

-----------------------------------------------------------------------------
(* A worker and the file it has taken.                                     *)

Moves(w, pc) == worker' = [worker EXCEPT ![w] = pc]

Take(w) ==
  /\ worker[w] = "idle" /\ feeder = "send"
  /\ Moves(w, "prepare") /\ feeder' = "receive"
  /\ UNCHANGED <<cancelled, source, producer, rows, exit, stats, stopping, errs>>

NoMoreJobs(w) ==
  /\ worker[w] = "idle" /\ filesClosed
  /\ Moves(w, "gone")
  /\ UNCHANGED <<cancelled, source, producer, feeder, rows, exit, stats, stopping, errs>>

WorkerCancelled(w) ==
  /\ worker[w] = "idle" /\ cancelled
  /\ Moves(w, "gone") /\ exit' = exit \cup {"cancel"}
  /\ UNCHANGED <<cancelled, source, producer, feeder, rows, stats, stopping, errs>>

Begin(w, kind) ==
  /\ worker[w] = "prepare"
  /\ Moves(w, kind) /\ rows' = rows \cup {w}
  /\ UNCHANGED <<cancelled, source, producer, feeder, exit, stats, stopping, errs>>

(* A write error, or cancellation during a write, makes the row terminal,  *)
(* and so does every failed attempt of a resume.                           *)
RowFails(w) ==
  /\ worker[w] \in Streaming /\ w \in rows
  /\ rows' = rows \ {w}
  /\ UNCHANGED <<cancelled, source, producer, feeder, worker, exit, stats, stopping, errs>>

(* The next attempt of a resume has a row of its own.                      *)
ResumeAgain(w) ==
  /\ worker[w] = "resume" /\ w \notin rows /\ ~cancelled
  /\ rows' = rows \cup {w}
  /\ UNCHANGED <<cancelled, source, producer, feeder, worker, exit, stats, stopping, errs>>

Count(o) == [stats EXCEPT ![o] = @ + 1]

Settle_Slip(w, o) ==
  /\ Moves(w, "idle") /\ stats' = Count(o)
  /\ UNCHANGED rows
  /\ UNCHANGED <<cancelled, source, producer, feeder, exit, stopping>>

Settle(w, o) ==
  /\ Moves(w, "idle") /\ stats' = Count(o)
  /\ rows' = rows \ {w}
  /\ UNCHANGED <<cancelled, source, producer, feeder, exit, stopping>>

Skip(w) ==
  /\ worker[w] = "prepare"
  /\ Settle(w, "skipped") /\ UNCHANGED errs

Downloaded(w) ==
  /\ worker[w] \in Streaming
  /\ Settle(w, "downloaded") /\ UNCHANGED errs

(* worker counts the failure and records the error of downloadFile: an     *)
(* error of the file system while it prepares the file, an interrupted or  *)
(* failed download, and then maybe a failed clean-up of the partial file.  *)
Failed(w) ==
  /\ worker[w] \in Busy
  /\ \E causes \in {{"io"}, {"network"}, {"cancel"}, {"network", "io"}, {"cancel", "io"}} :
       /\ "network" \in causes => worker[w] \in Streaming /\ ~cancelled
       /\ "cancel" \in causes => cancelled
       /\ errs' = errs \cup causes
  /\ Settle(w, "failed")

-----------------------------------------------------------------------------
(* Stop.                                                                   *)

Step(from, to) == stop = from /\ stop' = to

QueueDone_Slip ==
  /\ feeder # "send"
  /\ Step("queue", "save")
  /\ UNCHANGED <<cancelled, source, producer, feeder, pool, filesClosed, report, errs>>

QueueDone ==
  /\ feeder = "gone"
  /\ Step("queue", "save")
  /\ UNCHANGED <<cancelled, source, producer, feeder, pool, filesClosed, report, errs>>

SaveManifest ==
  /\ Step("save", "close")
  /\ errs' \in {errs, errs \cup {"io"}}
  /\ UNCHANGED <<cancelled, source, producer, feeder, pool, filesClosed, report>>

CloseFiles ==
  /\ Step("close", "join")
  /\ filesClosed' = TRUE
  /\ UNCHANGED <<cancelled, source, producer, feeder, pool, report, errs>>

Joined == \A w \in Workers : worker[w] = "gone"

Join ==
  /\ Joined
  /\ Step("join", "complete")
  /\ errs' = errs \cup exit
  /\ UNCHANGED <<cancelled, source, producer, feeder, pool, filesClosed, report>>

(* onComplete: scanProgress.Finish shows the statistics and ends the scan's*)
(* row, so that only the rows of files can keep WaitAndStop waiting.       *)
OnComplete ==
  /\ Step("complete", "tracker")
  /\ report' = stats
  /\ UNCHANGED <<cancelled, source, producer, feeder, pool, filesClosed, errs>>

WaitAndStop ==
  /\ rows = {} \/ cancelled
  /\ Step("tracker", "returned")
  /\ UNCHANGED <<cancelled, source, producer, feeder, pool, filesClosed, report, errs>>

-----------------------------------------------------------------------------
AllGone ==
  /\ history # "more" /\ producer = "gone" /\ feeder = "gone" /\ Joined
  /\ stop = "returned"

Finished == AllGone /\ UNCHANGED vars

Producer == ProducerTakes \/ ProducerEnds
Feeder == FeederTakes \/ FeederEnds
StopMoves ==
  QueueDone \/ SaveManifest \/ CloseFiles \/ Join \/ OnComplete \/ WaitAndStop

Prepared(w) ==
  /\ worker[w] = "prepare"
  /\ Skip(w) \/ Failed(w) \/ \E kind \in Streaming : Begin(w, kind)

Ends(w) == worker[w] \in Streaming /\ (Downloaded(w) \/ Failed(w))

WorkerMoves(w) ==
  \/ Take(w) \/ NoMoreJobs(w) \/ WorkerCancelled(w) \/ Prepared(w)
  \/ RowFails(w) \/ ResumeAgain(w) \/ Ends(w)

Next ==
  \/ Cancel \/ FileFound \/ HistoryEnds \/ HistoryCancelled
  \/ Producer \/ Feeder \/ StopMoves
  \/ \E w \in Workers : WorkerMoves(w)
  \/ Finished

Spec == Init /\ [][Next]_vars

(* Goroutines that can run do run, and a query or a download whose context *)
(* is cancelled returns.  Nothing else makes a query or a download end: no *)
(* timeout of this program does.                                           *)
Fairness ==
  /\ WF_vars(HistoryCancelled) /\ WF_vars(Producer) /\ WF_vars(Feeder)
  /\ WF_vars(StopMoves)
  /\ \A w \in Workers :
       /\ WF_vars(Take(w) \/ NoMoreJobs(w) \/ WorkerCancelled(w) \/ Prepared(w))
       /\ WF_vars(cancelled /\ Ends(w))

FairSpec == Spec /\ Fairness

-----------------------------------------------------------------------------
(* The file that each goroutine holds is open; see JobLedger.              *)
One(b) == IF b THEN 1 ELSE 0
Holding == {w \in Workers : worker[w] \in Busy}
InHand ==
  One(offer) + One(producer = "send") + One(feeder = "send") + Cardinality(Holding)

Settled == stats["downloaded"] + stats["skipped"] + stats["failed"]

Ledger == INSTANCE JobLedger WITH open <- InHand

(* The run implements JobLedger: no file falls between two goroutines or   *)
(* is counted twice, only a cancelled run loses files, and nothing is      *)
(* counted after the callback onComplete has received the statistics.      *)
LedgerSpec == Ledger!Spec

(* Stop never closes the channel that the feeder may still send on, which  *)
(* would panic.                                                            *)
NoSendOnClosed == filesClosed => feeder = "gone"

(* When Stop waits for the tracker, every file's row is terminal: the wait *)
(* cannot hang, and no bar is left open behind the summary.                *)
RowsClosed == stop \in {"tracker", "returned"} => rows = {}

(* A cancelled run ends: Stop returns, blocked feeder or not, and no       *)
(* goroutine stays behind.  A run that nobody cancels ends once its history*)
(* has ended, unless a download hangs for ever.                            *)
RunEnds ==
  /\ cancelled ~> AllGone
  /\ (/\ <>(history # "more")
      /\ \A w \in Workers : []<>(worker[w] \notin Streaming)
      => <>(stop = "returned"))

(* The comment on GetAllFiles promises an error channel; a scan that the   *)
(* network cut short should make the command fail.                         *)
ScanFailureReturned == stop = "returned" /\ history = "failed" => errs # {}

(* A cancelled command that has dropped files reports the cancellation,    *)
(* from which the prompt prints "Interrupted".                             *)
CancellationReturned ==
  stop = "returned" /\ cancelled /\ Settled < found => "cancel" \in errs
=============================================================================
