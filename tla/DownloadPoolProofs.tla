------------------------- MODULE DownloadPoolProofs -------------------------
(***************************************************************************)
(* Proofs about DownloadPool, for any number of workers and files: the     *)
(* inductive invariant Orderly, the invariants that follow from it, and    *)
(* that the run of goroutines implements JobLedger.                        *)
(***************************************************************************)
EXTENDS DownloadPool, FiniteSetTheorems, TLAPS

(* The goroutines of an uncancelled run end in the order of the pipeline,  *)
(* Stop waits for each of them, and a row belongs to a running download.   *)
Order ==
  /\ offer => history = "more"
  /\ ~cancelled /\ producer = "gone" => history # "more"
  /\ ~cancelled /\ feeder = "gone" => producer = "gone"
  /\ stop # "queue" => feeder = "gone"
  /\ filesClosed => stop \notin {"queue", "save", "close"}
  /\ stop \in {"complete", "tracker", "returned"} => Joined
  /\ stop \in {"tracker", "returned"} <=> report # None

Rows == \A w \in rows : worker[w] \in Streaming

Orderly == TypeOK /\ Order /\ Rows

-----------------------------------------------------------------------------
(* What one step of a worker may touch: its own program counter and row.   *)
LEMMA WorkerStep ==
  ASSUME NEW w \in Workers, TypeOK, Rows, WorkerMoves(w)
  PROVE  /\ TypeOK' /\ Rows'
         /\ UNCHANGED <<cancelled, source, producer, stopping>>
         /\ feeder' \in {feeder, "receive"}
         /\ feeder = "gone" => feeder' = "gone"
         /\ worker[w] # "gone"
<1>1. CASE Take(w)
  <2>1. TypeOK'
    BY <1>1 DEF TypeOK, Take, Moves, Outcome, Cause, Streaming, Busy, source, stopping
  <2>2. Rows'
    BY <1>1 DEF TypeOK, Rows, Take, Moves, Streaming, Busy
  <2>3. UNCHANGED <<cancelled, source, producer, stopping>>
    BY <1>1 DEF Take, Moves
  <2> QED
    BY <1>1, <2>1, <2>2, <2>3 DEF Take, Moves, Streaming, Busy
<1>2. CASE NoMoreJobs(w)
  <2>1. TypeOK'
    BY <1>2 DEF TypeOK, NoMoreJobs, Moves, Outcome, Cause, Streaming, Busy, source, stopping
  <2>2. Rows'
    BY <1>2 DEF TypeOK, Rows, NoMoreJobs, Moves, Streaming, Busy
  <2>3. UNCHANGED <<cancelled, source, producer, stopping>>
    BY <1>2 DEF NoMoreJobs, Moves
  <2> QED
    BY <1>2, <2>1, <2>2, <2>3 DEF NoMoreJobs, Moves, Streaming, Busy
<1>3. CASE WorkerCancelled(w)
  <2>1. TypeOK'
    BY <1>3 DEF TypeOK, WorkerCancelled, Moves, Outcome, Cause, Streaming, Busy, source, stopping
  <2>2. Rows'
    BY <1>3 DEF TypeOK, Rows, WorkerCancelled, Moves, Streaming, Busy
  <2>3. UNCHANGED <<cancelled, source, producer, stopping>>
    BY <1>3 DEF WorkerCancelled, Moves
  <2> QED
    BY <1>3, <2>1, <2>2, <2>3 DEF WorkerCancelled, Moves, Streaming, Busy
<1>4. CASE \E kind \in Streaming : Begin(w, kind)
  <2>1. TypeOK'
    BY <1>4 DEF TypeOK, Begin, Moves, Outcome, Cause, Streaming, Busy, source, stopping
  <2>2. Rows'
    BY <1>4 DEF TypeOK, Rows, Begin, Moves, Streaming, Busy
  <2>3. UNCHANGED <<cancelled, source, producer, stopping>>
    BY <1>4 DEF Begin, Moves
  <2> QED
    BY <1>4, <2>1, <2>2, <2>3 DEF Begin, Moves, Streaming, Busy
<1>5. CASE Skip(w)
  <2>1. TypeOK'
    BY <1>5 DEF TypeOK, Skip, Settle, Moves, Count, Outcome, Cause, Streaming, Busy, source, stopping
  <2>2. Rows'
    BY <1>5 DEF TypeOK, Rows, Skip, Settle, Moves, Count, Streaming, Busy
  <2>3. UNCHANGED <<cancelled, source, producer, stopping>>
    BY <1>5 DEF Skip, Settle, Moves, Count
  <2> QED
    BY <1>5, <2>1, <2>2, <2>3 DEF Skip, Settle, Moves, Count, Streaming, Busy
<1>6. CASE Failed(w)
  <2>1. TypeOK'
    BY <1>6 DEF TypeOK, Failed, Settle, Moves, Count, Outcome, Cause, Streaming, Busy, source, stopping
  <2>2. Rows'
    BY <1>6 DEF TypeOK, Rows, Failed, Settle, Moves, Count, Streaming, Busy
  <2>3. UNCHANGED <<cancelled, source, producer, stopping>>
    BY <1>6 DEF Failed, Settle, Moves, Count
  <2> QED
    BY <1>6, <2>1, <2>2, <2>3 DEF Failed, Settle, Moves, Count, Streaming, Busy
<1>7. CASE Downloaded(w)
  <2>1. TypeOK'
    BY <1>7 DEF TypeOK, Downloaded, Settle, Moves, Count, Outcome, Cause, Streaming, Busy, source, stopping
  <2>2. Rows'
    BY <1>7 DEF TypeOK, Rows, Downloaded, Settle, Moves, Count, Streaming, Busy
  <2>3. UNCHANGED <<cancelled, source, producer, stopping>>
    BY <1>7 DEF Downloaded, Settle, Moves, Count
  <2> QED
    BY <1>7, <2>1, <2>2, <2>3 DEF Downloaded, Settle, Moves, Count, Streaming, Busy
<1>8. CASE RowFails(w)
  <2>1. TypeOK'
    BY <1>8 DEF TypeOK, RowFails, Outcome, Cause, Streaming, Busy, source, stopping
  <2>2. Rows'
    BY <1>8 DEF TypeOK, Rows, RowFails, Streaming, Busy
  <2>3. UNCHANGED <<cancelled, source, producer, stopping>>
    BY <1>8 DEF RowFails
  <2> QED
    BY <1>8, <2>1, <2>2, <2>3 DEF RowFails, Streaming, Busy
<1>9. CASE ResumeAgain(w)
  <2>1. TypeOK'
    BY <1>9 DEF TypeOK, ResumeAgain, Outcome, Cause, Streaming, Busy, source, stopping
  <2>2. Rows'
    BY <1>9 DEF TypeOK, Rows, ResumeAgain, Streaming, Busy
  <2>3. UNCHANGED <<cancelled, source, producer, stopping>>
    BY <1>9 DEF ResumeAgain
  <2> QED
    BY <1>9, <2>1, <2>2, <2>3 DEF ResumeAgain, Streaming, Busy
<1> QED
  BY <1>1, <1>2, <1>3, <1>4, <1>5, <1>6, <1>7, <1>8, <1>9 DEF WorkerMoves, Prepared, Ends

(* The initial states satisfy the inductive invariant.                     *)
LEMMA OrderlyInit == Init => Orderly
<1> SUFFICES ASSUME Init PROVE Orderly
  OBVIOUS
<1>1. TypeOK
  BY DEF Init, TypeOK, Outcome, Cause
<1>2. Order
  BY DEF Init, Order
<1>3. Rows
  BY DEF Init, Rows
<1> QED
  BY <1>1, <1>2, <1>3 DEF Orderly

(* Every step preserves it.                                                *)
LEMMA OrderlyStep == Orderly /\ [Next]_vars => Orderly'
<1> SUFFICES ASSUME Orderly, [Next]_vars PROVE Orderly'
  OBVIOUS
<1>0. TypeOK /\ Order /\ Rows
  BY DEF Orderly
<1>1. CASE Cancel
  <2>1. TypeOK'
    BY <1>0, <1>1 DEF TypeOK, Cancel, Cause, source, pool, stopping
  <2>2. Order'
    BY <1>0, <1>1 DEF TypeOK, Order, Joined, Cancel, source, pool, stopping
  <2>3. Rows'
    BY <1>0, <1>1 DEF Rows, Cancel, pool
  <2> QED
    BY <2>1, <2>2, <2>3 DEF Orderly
<1>2. CASE FileFound
  <2>1. TypeOK'
    BY <1>0, <1>2 DEF TypeOK, FileFound, Cause, source, pool, stopping
  <2>2. Order'
    BY <1>0, <1>2 DEF TypeOK, Order, Joined, FileFound, source, pool, stopping
  <2>3. Rows'
    BY <1>0, <1>2 DEF Rows, FileFound, pool
  <2> QED
    BY <2>1, <2>2, <2>3 DEF Orderly
<1>3. CASE HistoryEnds
  <2>1. TypeOK'
    BY <1>0, <1>3 DEF TypeOK, HistoryEnds, Cause, source, pool, stopping
  <2>2. Order'
    BY <1>0, <1>3 DEF TypeOK, Order, Joined, HistoryEnds, source, pool, stopping
  <2>3. Rows'
    BY <1>0, <1>3 DEF Rows, HistoryEnds, pool
  <2> QED
    BY <2>1, <2>2, <2>3 DEF Orderly
<1>4. CASE HistoryCancelled
  <2>1. TypeOK'
    BY <1>0, <1>4 DEF TypeOK, HistoryCancelled, Cause, source, pool, stopping
  <2>2. Order'
    BY <1>0, <1>4 DEF TypeOK, Order, Joined, HistoryCancelled, source, pool, stopping
  <2>3. Rows'
    BY <1>0, <1>4 DEF Rows, HistoryCancelled, pool
  <2> QED
    BY <2>1, <2>2, <2>3 DEF Orderly
<1>5. CASE ProducerTakes
  <2>1. TypeOK'
    BY <1>0, <1>5 DEF TypeOK, ProducerTakes, Cause, source, pool, stopping
  <2>2. Order'
    BY <1>0, <1>5 DEF TypeOK, Order, Joined, ProducerTakes, source, pool, stopping
  <2>3. Rows'
    BY <1>0, <1>5 DEF Rows, ProducerTakes, pool
  <2> QED
    BY <2>1, <2>2, <2>3 DEF Orderly
<1>6. CASE ProducerEnds
  <2>1. TypeOK'
    BY <1>0, <1>6 DEF TypeOK, ProducerEnds, Cause, source, pool, stopping
  <2>2. Order'
    BY <1>0, <1>6 DEF TypeOK, Order, Joined, ProducerEnds, source, pool, stopping
  <2>3. Rows'
    BY <1>0, <1>6 DEF Rows, ProducerEnds, pool
  <2> QED
    BY <2>1, <2>2, <2>3 DEF Orderly
<1>7. CASE FeederTakes
  <2>1. TypeOK'
    BY <1>0, <1>7 DEF TypeOK, FeederTakes, Cause, source, pool, stopping
  <2>2. Order'
    BY <1>0, <1>7 DEF TypeOK, Order, Joined, FeederTakes, source, pool, stopping
  <2>3. Rows'
    BY <1>0, <1>7 DEF Rows, FeederTakes, pool
  <2> QED
    BY <2>1, <2>2, <2>3 DEF Orderly
<1>8. CASE FeederEnds
  <2>1. TypeOK'
    BY <1>0, <1>8 DEF TypeOK, FeederEnds, Cause, source, pool, stopping
  <2>2. Order'
    BY <1>0, <1>8 DEF TypeOK, Order, Joined, FeederEnds, source, pool, stopping
  <2>3. Rows'
    BY <1>0, <1>8 DEF Rows, FeederEnds, pool
  <2> QED
    BY <2>1, <2>2, <2>3 DEF Orderly
<1>9. CASE QueueDone
  <2>1. TypeOK'
    BY <1>0, <1>9 DEF TypeOK, QueueDone, Step, Cause, source, pool, stopping
  <2>2. Order'
    BY <1>0, <1>9 DEF TypeOK, Order, Joined, QueueDone, Step, source, pool, stopping
  <2>3. Rows'
    BY <1>0, <1>9 DEF Rows, QueueDone, pool
  <2> QED
    BY <2>1, <2>2, <2>3 DEF Orderly
<1>10. CASE SaveManifest
  <2>1. TypeOK'
    BY <1>0, <1>10 DEF TypeOK, SaveManifest, Step, Cause, source, pool, stopping
  <2>2. Order'
    BY <1>0, <1>10 DEF TypeOK, Order, Joined, SaveManifest, Step, source, pool, stopping
  <2>3. Rows'
    BY <1>0, <1>10 DEF Rows, SaveManifest, pool
  <2> QED
    BY <2>1, <2>2, <2>3 DEF Orderly
<1>11. CASE CloseFiles
  <2>1. TypeOK'
    BY <1>0, <1>11 DEF TypeOK, CloseFiles, Step, Cause, source, pool, stopping
  <2>2. Order'
    BY <1>0, <1>11 DEF TypeOK, Order, Joined, CloseFiles, Step, source, pool, stopping
  <2>3. Rows'
    BY <1>0, <1>11 DEF Rows, CloseFiles, pool
  <2> QED
    BY <2>1, <2>2, <2>3 DEF Orderly
<1>12. CASE Join
  <2>1. TypeOK'
    BY <1>0, <1>12 DEF TypeOK, Join, Step, Cause, source, pool, stopping
  <2>2. Order'
    BY <1>0, <1>12 DEF TypeOK, Order, Joined, Join, Step, source, pool, stopping
  <2>3. Rows'
    BY <1>0, <1>12 DEF Rows, Join, pool
  <2> QED
    BY <2>1, <2>2, <2>3 DEF Orderly
<1>13. CASE OnComplete
  <2>1. TypeOK'
    BY <1>0, <1>13 DEF TypeOK, OnComplete, Step, Cause, source, pool, stopping
  <2>2. stats # None
    BY <1>0, PoolAssumption DEF TypeOK, Outcome
  <2>3. Order'
    BY <1>0, <1>13, <2>2 DEF TypeOK, Order, Joined, OnComplete, Step, source, pool, stopping
  <2>4. Rows'
    BY <1>0, <1>13 DEF Rows, OnComplete, pool
  <2> QED
    BY <2>1, <2>3, <2>4 DEF Orderly
<1>14. CASE WaitAndStop
  <2>1. TypeOK'
    BY <1>0, <1>14 DEF TypeOK, WaitAndStop, Step, Cause, source, pool, stopping
  <2>2. Order'
    BY <1>0, <1>14 DEF TypeOK, Order, Joined, WaitAndStop, Step, source, pool, stopping
  <2>3. Rows'
    BY <1>0, <1>14 DEF Rows, WaitAndStop, pool
  <2> QED
    BY <2>1, <2>2, <2>3 DEF Orderly
<1>15. ASSUME NEW w \in Workers, WorkerMoves(w) PROVE Orderly'
  <2>1. /\ TypeOK' /\ Rows'
        /\ UNCHANGED <<cancelled, source, producer, stopping>>
        /\ feeder' \in {feeder, "receive"}
        /\ feeder = "gone" => feeder' = "gone"
        /\ worker[w] # "gone"
    BY <1>0, <1>15, WorkerStep
  <2>2. ~Joined
    BY <2>1 DEF Joined
  <2>3. Order'
    BY <1>0, <2>1, <2>2 DEF Order, TypeOK, source, stopping
  <2> QED
    BY <2>1, <2>3 DEF Orderly
<1>16. CASE Finished \/ UNCHANGED vars
  <2>1. UNCHANGED vars
    BY <1>16 DEF Finished
  <2>2. TypeOK'
    BY <1>0, <2>1 DEF TypeOK, vars, source, pool, stopping
  <2>3. Order'
    BY <1>0, <2>1 DEF Order, Joined, vars, source, pool, stopping
  <2>4. Rows'
    BY <1>0, <2>1 DEF Rows, vars, pool
  <2> QED
    BY <2>2, <2>3, <2>4 DEF Orderly
<1> QED
  BY <1>1, <1>2, <1>3, <1>4, <1>5, <1>6, <1>7, <1>8, <1>9, <1>10, <1>11, <1>12,
     <1>13, <1>14, <1>15, <1>16 DEF Next, Producer, Feeder, StopMoves

(* A run keeps the order in which its goroutines end.                      *)
THEOREM RunsAreOrderly == Spec => []Orderly
<1> QED
  BY OrderlyInit, OrderlyStep, PTL DEF Spec

(* TypeOK: every variable of downloadFiles and Stop keeps its type.        *)
THEOREM PoolTypeCorrect == Spec => []TypeOK
<1>1. Orderly => TypeOK
  BY DEF Orderly
<1> QED
  BY RunsAreOrderly, <1>1, PTL

(* NoSendOnClosed: Stop closes files only when the feeder is gone.         *)
THEOREM NeverSendsOnClosed == Spec => []NoSendOnClosed
<1>1. Orderly => NoSendOnClosed
  BY DEF Orderly, Order, NoSendOnClosed
<1> QED
  BY RunsAreOrderly, <1>1, PTL

(* RowsClosed: WaitAndStop finds every file's row terminal.                *)
THEOREM RowsAreClosed == Spec => []RowsClosed
<1>1. Orderly => RowsClosed
  BY DEF Orderly, TypeOK, Order, Rows, RowsClosed, Joined, Streaming
<1> QED
  BY RunsAreOrderly, <1>1, PTL

-----------------------------------------------------------------------------
(* The refinement.  Of the sets of workers that hold files, only the       *)
(* cardinalities matter.                                                   *)
LEMMA HoldingFinite == ASSUME TypeOK PROVE IsFiniteSet(Holding) /\ InHand \in Nat
<1>1. IsFiniteSet(Holding)
  BY PoolAssumption, FS_Subset DEF Holding
<1>2. Cardinality(Holding) \in Nat
  BY <1>1, FS_CardinalityType
<1> QED
  BY <1>1, <1>2 DEF InHand, One

(* A worker that takes a file adds one to the files that are held ...      *)
LEMMA HoldOneMore ==
  ASSUME TypeOK, NEW w \in Workers, NEW pc \in Busy,
         worker[w] \notin Busy, Moves(w, pc)
  PROVE  Cardinality(Holding') = Cardinality(Holding) + 1
<1>1. IsFiniteSet(Holding)
  BY HoldingFinite
<1>2. w \notin Holding
  BY DEF Holding
<1>3. Holding' = Holding \cup {w}
  BY DEF Holding, Moves, TypeOK
<1> QED
  BY <1>1, <1>2, <1>3, FS_AddElement

(* ... and one that settles its file takes one away.                       *)
LEMMA HoldOneLess ==
  ASSUME TypeOK, NEW w \in Workers, worker[w] \in Busy, Moves(w, "idle")
  PROVE  /\ Cardinality(Holding) > 0
         /\ Cardinality(Holding') = Cardinality(Holding) - 1
<1>1. IsFiniteSet(Holding) /\ w \in Holding
  BY HoldingFinite DEF Holding
<1>2. Holding' = Holding \ {w}
  BY DEF Holding, Moves, TypeOK, Busy, Streaming
<1>3. Cardinality(Holding') = Cardinality(Holding) - 1
  BY <1>1, <1>2, FS_RemoveElement
<1>4. IsFiniteSet(Holding') /\ Cardinality(Holding') \in Nat
  BY <1>1, <1>2, FS_Subset, FS_CardinalityType
<1>5. Cardinality(Holding) \in Nat
  BY <1>1, FS_CardinalityType
<1> QED
  BY <1>3, <1>4, <1>5

(* Settle of a worker is Settle of the ledger.                             *)
LEMMA SettleImplements ==
  ASSUME Orderly, NEW w \in Workers, worker[w] \in Busy,
         NEW o \in Outcome, Settle(w, o)
  PROVE  Ledger!Settle(o)
<1>1. report = None
  BY DEF Orderly, TypeOK, Order, Joined, Busy, Streaming
<1>2. /\ Cardinality(Holding) > 0
      /\ Cardinality(Holding') = Cardinality(Holding) - 1
  BY HoldOneLess DEF Orderly, Settle
<1>3. Cardinality(Holding) \in Nat
  BY HoldingFinite, FS_CardinalityType DEF Orderly
<1>4. UNCHANGED <<offer, producer, feeder, cancelled, found, report>>
  BY DEF Settle, source, stopping
<1>5. InHand > 0 /\ InHand' = InHand - 1
  BY <1>2, <1>3, <1>4 DEF InHand, One
<1>6. stats' = [stats EXCEPT ![o] = @ + 1]
  BY DEF Settle, Count
<1> QED
  BY <1>1, <1>4, <1>5, <1>6 DEF Ledger!Settle

(* Any other step of a worker leaves the ledger as it is.                  *)
LEMMA WorkerImplements ==
  ASSUME Orderly, NEW w \in Workers, WorkerMoves(w)
  PROVE  (\E o \in Outcome : Ledger!Settle(o)) \/ UNCHANGED Ledger!vars
<1>0. TypeOK
  BY DEF Orderly
<1>1. CASE Take(w)
  <2>1. Cardinality(Holding') = Cardinality(Holding) + 1
    BY <1>0, <1>1, HoldOneMore DEF Take, Busy, Streaming
  <2>2. Cardinality(Holding) \in Nat
    BY <1>0, HoldingFinite, FS_CardinalityType
  <2>3. /\ feeder = "send" /\ feeder' = "receive"
        /\ UNCHANGED <<cancelled, offer, found, producer, stats, report>>
    BY <1>1 DEF Take, source, stopping
  <2> QED
    BY <2>1, <2>2, <2>3 DEF InHand, One, Ledger!vars
<1>2. CASE NoMoreJobs(w) \/ WorkerCancelled(w)
           \/ (\E kind \in Streaming : Begin(w, kind)) \/ RowFails(w) \/ ResumeAgain(w)
  <2>1. Holding' = Holding
    BY <1>0, <1>2 DEF Holding, TypeOK, NoMoreJobs, WorkerCancelled, Begin, Moves,
         RowFails, ResumeAgain, Busy, Streaming
  <2>2. UNCHANGED <<cancelled, offer, found, producer, feeder, stats, report>>
    BY <1>2 DEF NoMoreJobs, WorkerCancelled, Begin, RowFails, ResumeAgain, source,
         stopping
  <2> QED
    BY <2>1, <2>2 DEF InHand, One, Ledger!vars
<1>3. CASE Skip(w) \/ Downloaded(w) \/ Failed(w)
  <2>1. PICK o \in Outcome : Settle(w, o)
    BY <1>3 DEF Skip, Downloaded, Failed, Outcome
  <2>2. worker[w] \in Busy
    BY <1>3 DEF Skip, Downloaded, Failed, Busy
  <2> QED
    BY <2>1, <2>2, SettleImplements
<1> QED
  BY <1>1, <1>2, <1>3 DEF WorkerMoves, Prepared, Ends

(* Every step of the run is a step of the ledger, or none.                 *)
LEMMA LedgerStep == Orderly /\ [Next]_vars => [Ledger!Next]_(Ledger!vars)
<1> SUFFICES ASSUME Orderly, [Next]_vars PROVE [Ledger!Next]_(Ledger!vars)
  OBVIOUS
<1>0. TypeOK /\ Order /\ InHand \in Nat /\ Cardinality(Holding) \in Nat
  BY HoldingFinite, FS_CardinalityType DEF Orderly
<1>1. CASE Cancel
  <2>1. UNCHANGED <<offer, found, producer, feeder, worker, stats, report>>
    BY <1>1 DEF Cancel, source, pool, stopping
  <2>2. Ledger!Cancel
    BY <1>1, <2>1 DEF Cancel, Ledger!Cancel, InHand, One, Holding
  <2> QED
    BY <2>2 DEF Ledger!Next
<1>2. CASE FileFound
  <2>1. UNCHANGED <<cancelled, producer, feeder, worker, stats, report>>
    BY <1>2 DEF FileFound, pool, stopping
  <2>2. report = None \/ cancelled
    BY <1>0, <1>2 DEF FileFound, TypeOK, Order
  <2>3. InHand' = InHand + 1
    BY <1>0, <1>2, <2>1 DEF FileFound, InHand, One, Holding
  <2>4. Ledger!Find
    BY <1>2, <2>1, <2>2, <2>3 DEF FileFound, Ledger!Find
  <2> QED
    BY <2>4 DEF Ledger!Next
<1>3. CASE HistoryCancelled
  <2>1. /\ cancelled /\ ~offer'
        /\ UNCHANGED <<cancelled, found, producer, feeder, worker, stats, report>>
    BY <1>3 DEF HistoryCancelled, pool, stopping
  <2>2. CASE offer
    <3>1. InHand > 0 /\ InHand' = InHand - 1
      BY <1>0, <2>1, <2>2 DEF InHand, One, Holding
    <3>2. Ledger!Lose
      BY <2>1, <3>1 DEF Ledger!Lose
    <3> QED
      BY <3>2 DEF Ledger!Next
  <2>3. CASE ~offer
    BY <2>1, <2>3 DEF InHand, One, Holding, Ledger!vars
  <2> QED
    BY <2>2, <2>3
<1>4. CASE ProducerEnds
  <2>1. /\ producer = "send" => cancelled
        /\ producer' = "gone"
        /\ UNCHANGED <<cancelled, offer, found, feeder, worker, stats, report>>
    BY <1>4 DEF ProducerEnds, source, pool, stopping
  <2>2. CASE producer = "send"
    <3>1. InHand > 0 /\ InHand' = InHand - 1
      BY <1>0, <2>1, <2>2 DEF InHand, One, Holding
    <3>2. Ledger!Lose
      BY <2>1, <2>2, <3>1 DEF Ledger!Lose
    <3> QED
      BY <3>2 DEF Ledger!Next
  <2>3. CASE producer # "send"
    BY <2>1, <2>3 DEF InHand, One, Holding, Ledger!vars
  <2> QED
    BY <2>2, <2>3
<1>5. CASE FeederEnds
  <2>1. /\ feeder = "send" => cancelled
        /\ feeder' = "gone"
        /\ UNCHANGED <<cancelled, offer, found, producer, worker, stats, report>>
    BY <1>5 DEF FeederEnds, source, pool, stopping
  <2>2. CASE feeder = "send"
    <3>1. InHand > 0 /\ InHand' = InHand - 1
      BY <1>0, <2>1, <2>2 DEF InHand, One, Holding
    <3>2. Ledger!Lose
      BY <2>1, <2>2, <3>1 DEF Ledger!Lose
    <3> QED
      BY <3>2 DEF Ledger!Next
  <2>3. CASE feeder # "send"
    BY <2>1, <2>3 DEF InHand, One, Holding, Ledger!vars
  <2> QED
    BY <2>2, <2>3
<1>6. CASE ProducerTakes \/ FeederTakes
  <2>1. UNCHANGED <<cancelled, found, worker, stats, report>>
    BY <1>6 DEF ProducerTakes, FeederTakes, source, pool, stopping
  <2>2. InHand' = InHand
    BY <1>0, <1>6, <2>1 DEF ProducerTakes, FeederTakes, source, InHand, One, Holding
  <2> QED
    BY <2>1, <2>2 DEF Ledger!vars
<1>7. CASE OnComplete
  <2>1. /\ report = None /\ report' = stats
        /\ UNCHANGED <<cancelled, offer, found, producer, feeder, worker, stats>>
    BY <1>0, <1>7 DEF OnComplete, Order, Step, source, pool
  <2>2. cancelled \/ InHand = 0
    <3>1. SUFFICES ASSUME ~cancelled PROVE InHand = 0
      OBVIOUS
    <3>2. ~offer /\ producer = "gone" /\ feeder = "gone" /\ Joined
      BY <1>0, <1>7, <3>1 DEF OnComplete, Order, Step
    <3>3. Holding = {}
      BY <3>2 DEF Joined, Holding, Busy, Streaming
    <3> QED
      BY <3>2, <3>3, FS_EmptySet DEF InHand, One
  <2>3. Ledger!Report
    BY <2>1, <2>2 DEF Ledger!Report, InHand, One, Holding
  <2> QED
    BY <2>3 DEF Ledger!Next
<1>8. CASE HistoryEnds \/ QueueDone \/ SaveManifest \/ CloseFiles \/ Join \/ WaitAndStop
  <2>1. UNCHANGED <<cancelled, offer, found, producer, feeder, worker, stats, report>>
    BY <1>8 DEF HistoryEnds, QueueDone, SaveManifest, CloseFiles, Join, WaitAndStop,
         source, pool, stopping
  <2> QED
    BY <2>1 DEF InHand, One, Holding, Ledger!vars
<1>9. CASE Finished \/ UNCHANGED vars
  <2>1. UNCHANGED <<cancelled, offer, found, producer, feeder, worker, stats, report>>
    BY <1>9 DEF Finished, vars, source, pool, stopping
  <2> QED
    BY <2>1 DEF InHand, One, Holding, Ledger!vars
<1>10. ASSUME NEW w \in Workers, WorkerMoves(w) PROVE [Ledger!Next]_(Ledger!vars)
  BY <1>10, WorkerImplements DEF Ledger!Next, Ledger!Outcome, Outcome
<1> QED
  BY <1>1, <1>2, <1>3, <1>4, <1>5, <1>6, <1>7, <1>8, <1>9, <1>10
     DEF Next, Producer, Feeder, StopMoves

(* LedgerSpec: the goroutines of downloadFiles implement JobLedger.        *)
THEOREM ImplementsLedger == Spec => LedgerSpec
<1>1. Init => Ledger!Init
  <2> SUFFICES ASSUME Init PROVE Ledger!Init
    OBVIOUS
  <2>1. Holding = {}
    BY DEF Init, Holding, Busy, Streaming
  <2> QED
    BY <2>1, FS_EmptySet DEF Init, InHand, One, Ledger!Init, Ledger!Outcome, Outcome
<1> QED
  BY <1>1, RunsAreOrderly, LedgerStep, PTL DEF Spec, LedgerSpec, Ledger!Spec
=============================================================================
