--------------------------- MODULE DialogCacheProofs ---------------------------
(***************************************************************************)
(* Proofs about DialogCache, for any users and channels and any number of  *)
(* messages, refreshes and crashes: whatever the index or the memory names *)
(* has its record, so that every start can load the database; a dialog     *)
(* cached in peace stays; and memory follows the index.                    *)
(*                                                                         *)
(* RecordsFirst alone is not inductive: what goes into the index or into   *)
(* memory is what a goroutine or a refresh has written before, which is    *)
(* what Written says, and a database that a start empties has nobody at    *)
(* work, which is what AtRest says.  CachedKept follows from Kept, which   *)
(* says that the listing under way has found a calm dialog or will, and    *)
(* SnapshotIsIndex from Alike, which says by what the two may differ.      *)
(***************************************************************************)
EXTENDS DialogCache, TLAPS

(* The record has been written before a goroutine gets to the index or the *)
(* memory, and before a refresh counts it as stored.                       *)
Written ==
  /\ \A w \in Workers : worker[w].step \in {"put", "memory"} => worker[w].peer \in records
  /\ stored \subseteq records
  /\ refresh = "memory" => listed \subseteq records

(* Updates are handled only while the program runs; a program that is down *)
(* has nothing under way; one that is up has a database of its schema.     *)
AtRest ==
  /\ phase # "running" => \A w \in Workers : worker[w] = Idle
  /\ Quiet => stored = {}
  /\ phase = "down" => refresh = "off" /\ memory = {}
  /\ phase # "down" => schema

IndInv == TypeOK /\ Written /\ AtRest /\ RecordsFirst

-----------------------------------------------------------------------------
(* Type correctness.                                                       *)

(* Goroutines that have nothing to do.                                     *)
LEMMA AllIdle ==
  LET idle == [w \in Workers |-> Idle]
  IN  /\ idle \in [Workers -> [step : Steps, peer : Peers \cup {None}]]
      /\ \A w \in Workers : idle[w] = Idle /\ idle[w].step = "idle"
BY DEF Idle, Steps

LEMMA InitTyped == Init => TypeOK
<1> SUFFICES ASSUME Init PROVE TypeOK
  OBVIOUS
<1>1. index \subseteq Peers
  BY DEF Init
<1>2. worker \in [Workers -> [step : Steps, peer : Peers \cup {None}]]
      /\ \A w \in Workers : worker[w].step = "idle"
  BY AllIdle DEF Init
<1>3. date \in [Peers -> Nat] /\ last \in [Peers -> {"none", "calm", "cached"}]
  BY DEF Init
<1>4. schema \in BOOLEAN /\ watching \in BOOLEAN /\ raced \in BOOLEAN
  BY Zenon DEF Init
<1>5. /\ pending = {} /\ messages = 0 /\ records = {} /\ memory = {} /\ phase = "down"
      /\ refresh = "off" /\ cursor = 0 /\ listed = {} /\ stored = {}
      /\ handlers = "cache" /\ refreshes = 0 /\ crashes = 0
  BY DEF Init
<1> QED
  BY <1>1, <1>2, <1>3, <1>4, <1>5, PeersAssumption DEF TypeOK

LEMMA NextTyped == ASSUME TypeOK, [Next]_vars PROVE TypeOK'
<1> USE PeersAssumption
<1>1. CASE UNCHANGED vars
  BY <1>1 DEF TypeOK, vars, telegram, database, listing, watcher, counts
<1>2. CASE Next
  <2>0. raced' \in BOOLEAN
    BY <1>2, Zenon DEF Next, TypeOK
  <2> USE <2>0
  <2>1. CASE Message
    BY <2>1 DEF Message, TypeOK, database, listing, watcher, counts, Quiet
  <2>2. CASE Left
    BY <2>2 DEF Left, TypeOK, database, listing, watcher, counts
  <2>3. CASE Open
    BY <2>3 DEF Open, TypeOK, telegram, listing, watcher, counts
  <2>4. CASE Auth
    BY <2>4 DEF Auth, Begin, TypeOK, telegram, database, listing, watcher
  <2>5. CASE Refresh
    BY <2>5 DEF Refresh, Begin, TypeOK, telegram, database, watcher
  <2>6. CASE List
    BY <2>6 DEF List, TypeOK, telegram, database, watcher, counts
  <2>7. CASE ListEnds
    BY <2>7 DEF ListEnds, TypeOK, telegram, database, watcher, counts
  <2>8. CASE ListFails
    BY <2>8 DEF ListFails, Ends, TypeOK, telegram, database, watcher, counts
  <2>9. CASE AddListed
    BY <2>9 DEF AddListed, TypeOK, telegram, watcher, counts
  <2>10. CASE Swap
    BY <2>10 DEF Swap, TypeOK, telegram, watcher, counts
  <2>11. CASE ReplaceFails
    BY <2>11 DEF ReplaceFails, Ends, TypeOK, telegram, database, watcher, counts
  <2>12. CASE ReplaceMemory
    BY <2>12 DEF ReplaceMemory, Ends, TypeOK, telegram, database, watcher, counts
  <2>13. CASE Tell
    BY <2>13 DEF Tell, TypeOK, telegram, database, watcher, counts
  <2>14. ASSUME NEW p \in Peers, OnMessage(p) PROVE TypeOK'
    BY <2>14 DEF OnMessage, Free, Take, Of, Workers, Common, Peers, Steps, TypeOK, listing, watcher, counts
  <2>15. ASSUME NEW p \in Peers, OnEntity(p) PROVE TypeOK'
    BY <2>15 DEF OnEntity, Free, Take, Workers, Common, Peers, Steps, TypeOK, telegram, listing, watcher, counts
  <2>16. ASSUME NEW w \in Workers, RefreshKnown(w) PROVE TypeOK'
    BY <2>16 DEF RefreshKnown, Goes, Done, Idle, Steps, TypeOK, telegram, database, listing, watcher, counts
  <2>17. ASSUME NEW w \in Workers, AddRecord(w) PROVE TypeOK'
    BY <2>17 DEF AddRecord, Goes, Steps, TypeOK, telegram, listing, watcher, counts
  <2>18. ASSUME NEW w \in Workers, PutIndex(w) PROVE TypeOK'
    BY <2>18 DEF PutIndex, Goes, Steps, TypeOK, telegram, listing, watcher, counts
  <2>19. ASSUME NEW w \in Workers, UpsertFails(w) PROVE TypeOK'
    BY <2>19 DEF UpsertFails, Done, Idle, Steps, TypeOK, telegram, database, listing, watcher, counts
  <2>20. ASSUME NEW w \in Workers, SetMemory(w) PROVE TypeOK'
    BY <2>20 DEF SetMemory, Done, Idle, Steps, TypeOK, database, listing, watcher, counts
  <2>21. ASSUME NEW w \in Workers, Offered(w) PROVE TypeOK'
    BY <2>21 DEF Offered, Done, Idle, Steps, TypeOK, telegram, database, listing, watcher, counts
  <2>22. CASE Watch
    BY <2>22 DEF Watch, TypeOK, telegram, database, listing, counts
  <2>23. CASE WatchEnds
    BY <2>23 DEF WatchEnds, TypeOK, telegram, database, listing, counts
  <2>24. CASE Down
    <3>1. worker' \in [Workers -> [step : Steps, peer : Peers \cup {None}]]
          /\ \A w \in Workers : worker'[w].step = "idle"
      BY <2>24, AllIdle DEF Down
    <3>2. /\ schema' \in BOOLEAN /\ watching' \in BOOLEAN
      BY <2>24, Zenon DEF Down, TypeOK, database
    <3>3. crashes' \in 0..MaxCrashes
      BY <2>24 DEF Down, TypeOK
    <3>4. pending' \subseteq Peers /\ records' \subseteq Peers /\ index' \subseteq Peers
      BY <2>24 DEF Down, TypeOK, database
    <3>5. /\ memory' = {} /\ phase' = "down" /\ refresh' = "off" /\ cursor' = 0
          /\ listed' = {} /\ stored' = {} /\ handlers' = "cache" /\ UNCHANGED <<date, last, messages, refreshes>>
      BY <2>24 DEF Down
    <3> QED
      BY <3>1, <3>2, <3>3, <3>4, <3>5 DEF TypeOK
  <2> QED
    BY <1>2, <2>1, <2>2, <2>3, <2>4, <2>5, <2>6, <2>7, <2>8, <2>9, <2>10, <2>11, <2>12, <2>13,
       <2>14, <2>15, <2>16, <2>17, <2>18, <2>19, <2>20, <2>21, <2>22, <2>23, <2>24
       DEF Next, Step, Handlers, Upsert, Replace
<1> QED
  BY <1>1, <1>2

(* Every variable has its kind of value, over any run.                     *)
THEOREM TypeCorrect == Spec => []TypeOK
<1>1. Init => TypeOK
  BY InitTyped
<1>2. TypeOK /\ [Next]_vars => TypeOK'
  BY NextTyped
<1> QED
  BY <1>1, <1>2, PTL DEF Spec

-----------------------------------------------------------------------------
(* The records, and what is at work.                                       *)

LEMMA InitHolds == Init => IndInv
<1> SUFFICES ASSUME Init PROVE IndInv
  OBVIOUS
<1>1. \A w \in Workers : worker[w] = Idle /\ worker[w].step = "idle"
  BY AllIdle DEF Init
<1>2. Written /\ AtRest /\ RecordsFirst
  BY <1>1 DEF Init, Written, AtRest, Quiet, RecordsFirst
<1> QED
  BY <1>2, InitTyped DEF IndInv

(* Only the program that runs has a goroutine at work.                     *)
LEMMA Busy ==
  ASSUME AtRest, NEW w \in Workers, worker[w].step # "idle"
  PROVE  phase = "running" /\ schema
BY DEF AtRest, Idle

LEMMA NextKeeps == ASSUME IndInv, [Next]_vars PROVE (Written /\ AtRest /\ RecordsFirst)'
<1> USE PeersAssumption DEF IndInv
<1> DEFINE Held == (Written /\ AtRest /\ RecordsFirst)'
<1>1. CASE UNCHANGED vars
  BY <1>1 DEF Written, AtRest, Quiet, RecordsFirst, vars, telegram, database, listing, watcher, counts
<1>2. CASE Next
  <2>1. CASE Message \/ Left \/ Watch \/ WatchEnds
    BY <2>1 DEF Message, Left, Watch, WatchEnds, Written, AtRest, Quiet, RecordsFirst,
                telegram, database, listing, watcher, counts
  <2>2. CASE Open
    <3>1. \A w \in Workers : worker'[w].step \notin {"put", "memory"} /\ worker'[w] = Idle
      BY <2>2 DEF Open, AtRest, Idle
    <3>2. stored' = {} /\ refresh' = "off" /\ schema'
      BY <2>2 DEF Open, AtRest, Quiet, listing
    <3>3. index' \subseteq records'
      BY <2>2 DEF Open, RecordsFirst
    <3>4. phase' = "auth" /\ memory' = index'
      BY <2>2, <3>3 DEF Open
    <3> QED
      BY <3>1, <3>2, <3>3, <3>4 DEF Written, AtRest, Quiet, RecordsFirst
  <2>3. CASE Auth
    BY <2>3 DEF Auth, Begin, Written, AtRest, Quiet, RecordsFirst, telegram, database, listing, watcher
  <2>4. CASE Refresh
    BY <2>4 DEF Refresh, Begin, Written, AtRest, Quiet, RecordsFirst, telegram, database, watcher
  <2>5. CASE Tell
    BY <2>5 DEF Tell, Written, AtRest, Quiet, RecordsFirst, telegram, database, watcher, counts
  <2>6. CASE List \/ ListEnds
    BY <2>6 DEF List, ListEnds, Written, AtRest, Quiet, RecordsFirst, telegram, database, watcher, counts
  <2>7. ASSUME NEW failed \in BOOLEAN, NEW dialogs, Ends(failed, dialogs),
               dialogs \subseteq records, refresh # "off",
               UNCHANGED <<telegram, database, worker, watcher, counts>>
        PROVE Held
    <3>1. phase # "down" /\ schema
      BY <2>7 DEF AtRest
    <3>2. memory' \subseteq records /\ stored' = {} /\ refresh' \in {"off", "told"}
      BY <2>7 DEF Ends
    <3>3. \/ phase' = phase
          \/ phase = "bootstrap" /\ phase' = "down" /\ refresh' = "off" /\ memory' = {}
      BY <2>7 DEF Ends
    <3>4. UNCHANGED <<schema, records, index, worker>>
      BY <2>7 DEF database
    <3> QED
      BY <3>1, <3>2, <3>3, <3>4 DEF Written, AtRest, Quiet, RecordsFirst
  <2>8. CASE ListFails \/ ReplaceFails \/ ReplaceMemory
    <3>1. memory \subseteq records /\ (refresh = "memory" => listed \subseteq records)
      BY <2>8 DEF ListFails, ReplaceFails, ReplaceMemory, Written, AtRest, Quiet, RecordsFirst
    <3> QED
      BY <2>7, <2>8, <3>1 DEF ListFails, ReplaceFails, ReplaceMemory
  <2>9. CASE AddListed
    BY <2>9 DEF AddListed, Written, AtRest, Quiet, RecordsFirst, telegram, watcher, counts
  <2>10. CASE Swap
    BY <2>10 DEF Swap, Written, AtRest, Quiet, RecordsFirst, telegram, watcher, counts
  <2>11. ASSUME NEW p \in Peers, OnMessage(p) \/ OnEntity(p) PROVE Held
    <3>1. records \subseteq records' /\ UNCHANGED <<schema, index, memory, phase, refresh, stored, listed>>
      BY <2>11 DEF OnMessage, OnEntity, listing
    <3>2. phase = "running" /\ \A w \in Workers :
            worker'[w].step \in {"put", "memory"} => worker'[w] = worker[w]
      <4>1. Of(p) \in Workers /\ Common \in Workers
        BY DEF Of, Workers
      <4>2. CASE OnMessage(p)
        BY <4>1, <4>2 DEF OnMessage, Free, Take, TypeOK
      <4>3. CASE OnEntity(p)
        BY <4>1, <4>3 DEF OnEntity, Free, Take, TypeOK
      <4> QED
        BY <2>11, <4>2, <4>3
    <3> QED
      BY <3>1, <3>2 DEF Written, AtRest, Quiet, RecordsFirst
  <2>12. ASSUME NEW w \in Workers, RefreshKnown(w) \/ UpsertFails(w) \/ Offered(w) PROVE Held
    <3>1. UNCHANGED <<database, memory, phase, listing>>
      BY <2>12 DEF RefreshKnown, UpsertFails, Offered
    <3>2. phase = "running"
      BY <2>12, Busy DEF RefreshKnown, UpsertFails, Offered
    <3>3. \A v \in Workers : worker'[v].step \in {"put", "memory"} => worker'[v] = worker[v]
      BY <2>12 DEF RefreshKnown, UpsertFails, Offered, Goes, Done, Idle, TypeOK
    <3> QED
      BY <3>1, <3>2, <3>3 DEF Written, AtRest, Quiet, RecordsFirst, database, listing
  <2>13. ASSUME NEW w \in Workers, Upsert(w), ~UpsertFails(w) PROVE Held
    <3>1. phase = "running" /\ schema
      BY <2>13, Busy DEF Upsert, AddRecord, PutIndex, SetMemory
    <3>2. UNCHANGED <<schema, phase, refresh, stored, listed>>
      BY <2>13 DEF Upsert, AddRecord, PutIndex, SetMemory, listing, database
    <3>3. records' = records \/ records' = records \cup {worker[w].peer}
      BY <2>13 DEF Upsert, AddRecord, PutIndex, SetMemory, database
    <3>4. \A v \in Workers : worker'[v].step \in {"put", "memory"} => worker'[v].peer \in records'
      <4>1. CASE AddRecord(w)
        BY <4>1 DEF AddRecord, Goes, Written, TypeOK
      <4>2. CASE PutIndex(w)
        BY <4>2 DEF PutIndex, Goes, Written, TypeOK
      <4>3. CASE SetMemory(w)
        BY <4>3 DEF SetMemory, Done, Idle, Written, TypeOK, database
      <4> QED
        BY <2>13, <4>1, <4>2, <4>3 DEF Upsert
    <3>5. index' \cup memory' \subseteq records'
      BY <2>13, <3>1, <3>3 DEF Upsert, AddRecord, PutIndex, SetMemory, Written, RecordsFirst, database
    <3> QED
      BY <3>1, <3>2, <3>3, <3>4, <3>5 DEF Written, AtRest, Quiet, RecordsFirst
  <2>14. CASE Down
    <3>1. \A w \in Workers : worker'[w] = Idle /\ worker'[w].step = "idle"
      BY <2>14, AllIdle DEF Down
    <3> QED
      BY <2>14, <3>1 DEF Down, Written, AtRest, Quiet, RecordsFirst, database
  <2> QED
    BY <1>2, <2>1, <2>2, <2>3, <2>4, <2>5, <2>6, <2>8, <2>9, <2>10, <2>11, <2>12, <2>13, <2>14
       DEF Next, Step, Handlers, Upsert, Replace
<1> QED
  BY <1>1, <1>2

THEOREM Inductive == Spec => []IndInv
<1>1. Init => IndInv
  BY InitHolds
<1>2. IndInv /\ [Next]_vars => IndInv'
  BY NextKeeps, NextTyped DEF IndInv
<1> QED
  BY <1>1, <1>2, PTL DEF Spec

(* Whatever the index or the memory names has its record, at every moment  *)
(* and over any crash, so that no start finds a database it cannot load.   *)
THEOREM RecordsComeFirst == Spec => []RecordsFirst
<1>1. IndInv => RecordsFirst
  BY DEF IndInv
<1> QED
  BY <1>1, Inductive, PTL

-----------------------------------------------------------------------------
(* What has been cached stays.  A dialog that was calm before a refresh    *)
(* began has not moved since: the listing finds it, or is not there yet.   *)
Dated ==
  /\ \A p \in Peers : date[p] <= messages
  /\ \A p, q \in Peers : date[p] > 0 /\ date[p] = date[q] => p = q

Up == phase \in {"auth", "bootstrap", "running"}
AtMemory(w) == worker[w].step = "memory"

(* The goroutine that has put a dialog into the index finds it there as    *)
(* long as no other message of the dialog waits: a message that came while *)
(* a refresh was under way, which may drop the dialog, waits for it.       *)
Held(p) ==
  last[p] # "none" =>
    /\ date[p] > 0
    /\ refresh = "list" => p \in listed \/ Ahead(p)
    /\ refresh \in {"add", "memory"} => p \in listed
    /\ AtMemory(Of(p)) /\ worker[Of(p)].peer = p /\ p \notin pending => p \in index
    /\ last[p] = "cached" => schema /\ p \in index /\ (Up => p \in memory)

Kept == Dated /\ \A p \in Peers : Held(p)

LEMMA OfWorker == \A p \in Peers : Of(p) \in Workers
  BY DEF Of, Workers

(* A step that does not touch a dialog, and ends a refresh or leaves it    *)
(* where it is.                                                            *)
Untouched(p) ==
  /\ date'[p] = date[p] /\ last'[p] = last[p]
  /\ schema => schema'
  /\ p \in index => p \in index'
  /\ refresh' \in {"off", "told"} \/ UNCHANGED <<refresh, listed, cursor>>
  /\ Up' => Up /\ (p \in memory => p \in memory')
  /\ AtMemory(Of(p))' =>
       /\ worker'[Of(p)] = worker[Of(p)]
       /\ p \in pending => p \in pending'

LEMMA StillHeld ==
  ASSUME NEW p \in Peers, Held(p), Untouched(p)
  PROVE  Held(p)'
  BY DEF Held, Untouched, Ahead, AtMemory

(* A step of one goroutine that does not leave it at the memory.           *)
LEMMA Elsewhere ==
  ASSUME TypeOK, NEW w \in Workers, worker'[w].step # "memory",
         NEW x, worker' = [worker EXCEPT ![w] = x]
  PROVE  \A v \in Workers : AtMemory(v)' => worker'[v] = worker[v]
  BY DEF TypeOK, AtMemory

LEMMA TelegramKeeps ==
  ASSUME IndInv, Kept, Message \/ Left
  PROVE  Kept'
<1>. USE DEF IndInv
<1>1. UNCHANGED <<schema, records, index, memory, phase, worker, refresh, cursor, listed, stored>>
  BY DEF Message, Left, database, listing
<1>2. CASE Message
  <2>1. PICK p \in Peers :
          /\ date' = [date EXCEPT ![p] = messages + 1] /\ pending' = pending \cup {p}
          /\ last' = [last EXCEPT ![p] = IF Quiet THEN "calm" ELSE "none"]
          /\ messages' = messages + 1
    BY <1>2 DEF Message
  <2>2. Dated'
    BY <2>1 DEF Kept, Dated, TypeOK
  <2>3. ASSUME NEW q \in Peers, q # p PROVE Held(q)'
    <3>1. Untouched(q)
      BY <1>1, <2>1, <2>3 DEF Untouched, Up, AtMemory, TypeOK
    <3>. QED
      BY <3>1, StillHeld DEF Kept
  <2>4. Held(p)'
    <3>1. date'[p] > 0 /\ p \in pending' /\ last'[p] # "cached"
          /\ (last'[p] # "none" => refresh' \in {"off", "told"})
      BY <1>1, <2>1 DEF TypeOK, Quiet
    <3>. QED
      BY <3>1 DEF Held
  <2>. QED
    BY <2>2, <2>3, <2>4 DEF Kept
<1>3. CASE Left
  <2>1. PICK p \in Peers :
          /\ date' = [date EXCEPT ![p] = 0] /\ pending' = pending \ {p}
          /\ last' = [last EXCEPT ![p] = "none"] /\ messages' = messages
    BY <1>3 DEF Left
  <2>2. Dated'
    BY <2>1 DEF Kept, Dated, TypeOK
  <2>3. ASSUME NEW q \in Peers, q # p PROVE Held(q)'
    <3>1. Untouched(q)
      BY <1>1, <2>1, <2>3 DEF Untouched, Up, AtMemory, TypeOK
    <3>. QED
      BY <3>1, StillHeld DEF Kept
  <2>4. Held(p)'
    BY <2>1 DEF Held, TypeOK
  <2>. QED
    BY <2>2, <2>3, <2>4 DEF Kept
<1>. QED
  BY <1>2, <1>3

(* The start, and the beginning of a refresh.                              *)
LEMMA StartKeeps ==
  ASSUME IndInv, Kept, Open \/ Auth \/ Refresh \/ Tell
  PROVE  Kept'
<1>. USE DEF IndInv
<1>1. UNCHANGED <<telegram, worker>> /\ Dated'
  BY DEF Open, Auth, Refresh, Tell, Kept, Dated, telegram
<1>2. CASE Open
  <2>1. refresh' = "off" /\ schema' /\ \A w \in Workers : ~AtMemory(w)'
    BY <1>1, <1>2 DEF Open, AtRest, listing, Idle, AtMemory
  <2>2. schema => index' = index /\ (Up' => memory' = index')
    BY <1>2 DEF Open, Up
  <2>3. ASSUME NEW p \in Peers PROVE Held(p)'
    BY <1>1, <2>1, <2>2, OfWorker DEF Kept, Held, telegram
  <2>. QED
    BY <1>1, <2>3 DEF Kept
<1>3. CASE (Auth \/ Refresh) /\ Begin
  <2>1. /\ refresh' = "list" /\ cursor' = messages + 1 /\ UNCHANGED <<database, memory>>
        /\ Up
    BY <1>3 DEF Auth, Refresh, Begin, Up
  <2>2. ASSUME NEW p \in Peers PROVE Held(p)'
    <3>1. Held(p) /\ date[p] \in Nat /\ date[p] <= messages /\ messages \in Nat
      BY DEF Kept, Dated, TypeOK
    <3>. QED
      BY <1>1, <2>1, <3>1 DEF Held, Ahead, telegram, database, AtMemory
  <2>. QED
    BY <1>1, <2>2 DEF Kept
<1>4. CASE Tell \/ (Auth /\ UNCHANGED listing)
  <2>1. ASSUME NEW p \in Peers PROVE Untouched(p)
    BY <1>1, <1>4 DEF Tell, Auth, Untouched, Up, telegram, database, listing, AtMemory
  <2>. QED
    BY <1>1, <2>1, StillHeld DEF Kept
<1>. QED
  BY <1>2, <1>3, <1>4 DEF Auth, Refresh

(* The listing goes by date, so that what it has not found it has not      *)
(* reached.                                                                *)
LEMMA ListingKeeps ==
  ASSUME IndInv, Kept, List \/ ListEnds
  PROVE  Kept'
<1>. USE DEF IndInv
<1>1. UNCHANGED <<telegram, database, memory, phase, worker>> /\ Dated'
  BY DEF List, ListEnds, Kept, Dated, telegram
<1>2. CASE List
  <2>1. PICK p \in Peers :
          /\ Ahead(p) /\ \A q \in Peers : Ahead(q) => date[q] <= date[p]
          /\ cursor' = date[p] /\ listed' = listed \cup {p}
    BY <1>2 DEF List
  <2>2. refresh = "list" /\ refresh' = "list"
    BY <1>2 DEF List
  <2>3. ASSUME NEW q \in Peers PROVE Held(q)'
    <3>1. Ahead(q) => q \in listed' \/ Ahead(q)'
      <4>1. CASE q = p
        BY <2>1, <4>1
      <4>2. CASE q # p /\ Ahead(q)
        <5>1. date[q] \in Nat /\ date[p] \in Nat /\ date[q] <= date[p] /\ date[q] # date[p]
          BY <2>1, <4>2 DEF Kept, Dated, TypeOK, Ahead
        <5>. QED
          BY <1>1, <2>1, <4>2, <5>1 DEF Ahead, telegram
      <4>. QED
        BY <4>1, <4>2
    <3>. QED
      BY <1>1, <2>1, <2>2, <3>1 DEF Kept, Held, telegram, database, AtMemory, Up
  <2>. QED
    BY <1>1, <2>3 DEF Kept
<1>3. CASE ListEnds
  <2>1. ASSUME NEW q \in Peers PROVE Held(q)'
    BY <1>1, <1>3, <2>1 DEF ListEnds, Kept, Held, telegram, database, AtMemory, Up
  <2>. QED
    BY <1>1, <2>1 DEF Kept
<1>. QED
  BY <1>2, <1>3

(* The listing replaces the index, and then the memory.                    *)
LEMMA ReplaceKeeps ==
  ASSUME IndInv, Kept, AddListed \/ Swap \/ ListFails \/ ReplaceFails \/ ReplaceMemory
  PROVE  Kept'
<1>. USE DEF IndInv
<1>1. UNCHANGED <<telegram, worker, schema>> /\ Dated'
  BY DEF AddListed, Swap, ListFails, ReplaceFails, ReplaceMemory, Kept, Dated, telegram, database
<1>2. CASE AddListed
  <2>1. ASSUME NEW p \in Peers PROVE Untouched(p)
    BY <1>1, <1>2 DEF AddListed, Untouched, Up, telegram, AtMemory
  <2>. QED
    BY <1>1, <2>1, StillHeld DEF Kept
<1>3. CASE Swap
  <2>1. /\ refresh = "add" /\ refresh' = "memory" /\ index' = listed
        /\ UNCHANGED <<listed, memory, phase>>
    BY <1>3 DEF Swap
  <2>2. ASSUME NEW p \in Peers PROVE Held(p)'
    BY <1>1, <2>1 DEF Kept, Held, telegram, Up
  <2>. QED
    BY <1>1, <2>2 DEF Kept
<1>4. ASSUME NEW failed \in BOOLEAN, NEW dialogs, Ends(failed, dialogs), UNCHANGED index,
             \A p \in Peers : last[p] = "cached" /\ p \in memory => p \in dialogs
      PROVE  Kept'
  <2>1. refresh' \in {"off", "told"} /\ (Up' => phase' = phase /\ memory' = dialogs)
    BY <1>4 DEF Ends, Up
  <2>2. ASSUME NEW p \in Peers PROVE Held(p)'
    BY <1>1, <1>4, <2>1 DEF Kept, Held, telegram, Up, AtMemory
  <2>. QED
    BY <1>1, <2>2 DEF Kept
<1>5. CASE ListFails \/ ReplaceFails
  BY <1>4, <1>5 DEF ListFails, ReplaceFails, database
<1>6. CASE ReplaceMemory
  <2>1. \A p \in Peers : last[p] = "cached" => p \in listed
    BY <1>6 DEF ReplaceMemory, Kept, Held
  <2>. QED
    BY <1>4, <1>6, <2>1 DEF ReplaceMemory, database
<1>. QED
  BY <1>2, <1>3, <1>5, <1>6

(* The goroutines of updates.                                              *)
LEMMA TakenKeeps ==
  ASSUME IndInv, Kept, NEW p \in Peers, OnMessage(p) \/ OnEntity(p)
  PROVE  Kept'
<1>. USE DEF IndInv
<1>1. UNCHANGED <<date, last, messages, schema, index, memory, phase, listing>> /\ Dated'
  BY DEF OnMessage, OnEntity, Kept, Dated, telegram
<1>2. Of(p) \in Workers /\ Common \in Workers
  BY OfWorker DEF Workers
<1>3. CASE OnMessage(p)
  <2>1. \A v \in Workers : AtMemory(v)' => worker'[v] = worker[v] /\ v # Of(p)
    BY <1>2, <1>3 DEF OnMessage, Free, Take, Idle, TypeOK, AtMemory
  <2>2. ASSUME NEW q \in Peers PROVE Untouched(q)
    <3>1. q \in pending => q \in pending' \/ q = p
      BY <1>3 DEF OnMessage
    <3>. QED
      BY <1>1, <2>1, <3>1, OfWorker DEF Untouched, Up, listing
  <2>. QED
    BY <1>1, <2>2, StillHeld DEF Kept
<1>4. CASE OnEntity(p)
  <2>1. \A v \in Workers : AtMemory(v)' => worker'[v] = worker[v]
    BY <1>2, <1>4 DEF OnEntity, Free, Take, Idle, TypeOK, AtMemory
  <2>2. ASSUME NEW q \in Peers PROVE Untouched(q)
    BY <1>1, <1>4, <2>1, OfWorker DEF OnEntity, Untouched, Up, listing, telegram
  <2>. QED
    BY <1>1, <2>2, StillHeld DEF Kept
<1>. QED
  BY <1>3, <1>4

LEMMA WorkKeeps ==
  ASSUME IndInv, Kept, NEW w \in Workers,
         RefreshKnown(w) \/ Offered(w) \/ AddRecord(w) \/ UpsertFails(w)
  PROVE  Kept'
<1>. USE DEF IndInv
<1>1. UNCHANGED <<telegram, schema, index, memory, phase, listing>> /\ Dated'
  BY DEF RefreshKnown, Offered, AddRecord, UpsertFails, Kept, Dated, telegram, database
<1>2. \A v \in Workers : AtMemory(v)' => worker'[v] = worker[v]
  BY DEF RefreshKnown, Offered, AddRecord, UpsertFails, Goes, Done, Idle, TypeOK, AtMemory
<1>3. ASSUME NEW q \in Peers PROVE Untouched(q)
  BY <1>1, <1>2, OfWorker DEF Untouched, Up, listing, telegram
<1>. QED
  BY <1>1, <1>3, StillHeld DEF Kept

LEMMA PutKeeps ==
  ASSUME IndInv, Kept, NEW w \in Workers, PutIndex(w)
  PROVE  Kept'
<1>. USE DEF IndInv
<1>1. /\ UNCHANGED <<telegram, schema, memory, phase, listing>> /\ Dated'
      /\ index' = index \cup {worker[w].peer}
  BY DEF PutIndex, Kept, Dated, telegram
<1>2. /\ \A v \in Workers : AtMemory(v)' => v = w \/ worker'[v] = worker[v]
      /\ worker'[w].peer = worker[w].peer
  BY DEF PutIndex, Goes, TypeOK, AtMemory
<1>3. ASSUME NEW q \in Peers PROVE Held(q)'
  BY <1>1, <1>2, OfWorker DEF Kept, Held, Ahead, Up, AtMemory, listing, telegram
<1>. QED
  BY <1>1, <1>3 DEF Kept

LEMMA SetKeeps ==
  ASSUME IndInv, Kept, NEW w \in Workers, SetMemory(w)
  PROVE  Kept'
<1>. USE DEF IndInv
<1>0. schema /\ AtMemory(w)
  BY Busy DEF SetMemory, AtMemory
<1>1. PICK p \in Peers : p = worker[w].peer
  BY DEF SetMemory, TypeOK
<1>2. /\ UNCHANGED <<date, pending, messages, database, phase, listing>> /\ Dated'
      /\ memory' = memory \cup {p}
  BY <1>1 DEF SetMemory, Kept, Dated
<1>3. \A v \in Workers : AtMemory(v)' => worker'[v] = worker[v]
  BY DEF SetMemory, Done, Idle, TypeOK, AtMemory
<1>4. /\ \A q \in Peers \ {p} : last'[q] = last[q]
      /\ last'[p] = "cached" =>
           last[p] = "cached" \/ (last[p] # "none" /\ w = Of(p) /\ p \notin pending)
      /\ last'[p] # "none" => last[p] # "none"
  BY <1>1 DEF SetMemory, TypeOK
<1>5. ASSUME NEW q \in Peers, q # p PROVE Held(q)'
  <2>1. Untouched(q)
    BY <1>2, <1>3, <1>4, <1>5, OfWorker DEF Untouched, Up, listing, database
  <2>. QED
    BY <2>1, StillHeld DEF Kept
<1>6. Held(p)'
  <2>1. last'[p] = "cached" => p \in index
    BY <1>0, <1>1, <1>4 DEF Kept, Held
  <2>. QED
    BY <1>0, <1>1, <1>2, <1>3, <1>4, <2>1, OfWorker
       DEF Kept, Held, Ahead, Up, AtMemory, listing, database
<1>. QED
  BY <1>2, <1>5, <1>6 DEF Kept

LEMMA OthersKeep ==
  ASSUME IndInv, Kept, Watch \/ WatchEnds \/ Down \/ UNCHANGED vars
  PROVE  Kept'
<1>. USE DEF IndInv
<1>1. UNCHANGED <<date, last, messages, database>> /\ Dated'
  BY DEF Watch, WatchEnds, Down, vars, telegram, Kept, Dated
<1>2. CASE Watch \/ WatchEnds \/ UNCHANGED vars
  <2>1. ASSUME NEW q \in Peers PROVE Untouched(q)
    BY <1>1, <1>2
       DEF Watch, WatchEnds, vars, Untouched, Up, AtMemory, telegram, database, listing
  <2>. QED
    BY <1>1, <2>1, StillHeld DEF Kept
<1>3. CASE Down
  <2>1. /\ \A w \in Workers : ~AtMemory(w)'
        /\ refresh' = "off" /\ ~Up'
    BY <1>3, AllIdle DEF Down, Up, AtMemory
  <2>2. ASSUME NEW q \in Peers PROVE Untouched(q)
    BY <1>1, <2>1, OfWorker DEF Untouched, database
  <2>. QED
    BY <1>1, <2>2, StillHeld DEF Kept
<1>. QED
  BY <1>2, <1>3

LEMMA NextKept == IndInv /\ Kept /\ [Next]_vars => Kept'
<1>. SUFFICES ASSUME IndInv, Kept, [Next]_vars PROVE Kept'
  OBVIOUS
<1>1. CASE Message \/ Left
  BY <1>1, TelegramKeeps
<1>2. CASE Open \/ Auth \/ Refresh \/ Tell
  BY <1>2, StartKeeps
<1>3. CASE List \/ ListEnds
  BY <1>3, ListingKeeps
<1>4. CASE ListFails \/ Replace
  BY <1>4, ReplaceKeeps DEF Replace
<1>5. CASE Handlers
  BY <1>5, TakenKeeps, WorkKeeps, PutKeeps, SetKeeps DEF Handlers, Upsert
<1>6. CASE Watch \/ WatchEnds \/ Down \/ UNCHANGED vars
  BY <1>6, OthersKeep
<1>. QED
  BY <1>1, <1>2, <1>3, <1>4, <1>5, <1>6 DEF Next, Step

(* A dialog whose last message came and was handled while no refresh was   *)
(* under way stays in the index and in memory until it is left, over every *)
(* refresh that fails, is cancelled or completes later, and every restart. *)
THEOREM CachedStays == Spec => []CachedKept
<1>1. Init => Kept
  BY PeersAssumption DEF Init, Kept, Dated, Held
<1>2. Kept => CachedKept
  BY DEF Kept, Held, CachedKept, Up
<1>. QED
  BY <1>1, <1>2, NextKept, Inductive, PTL DEF Spec

-----------------------------------------------------------------------------
(* The memory and the index.  Without a race the index is ahead by what a  *)
(* goroutine is about to put into memory, or, between the two halves of a  *)
(* replacement, by the whole listing; both at once are a race.             *)
Follows ==
  IF refresh = "memory" THEN index = listed
  ELSE /\ memory \subseteq index
       /\ \A p \in index \ memory :
            \E w \in Workers : AtMemory(w) /\ worker[w].peer = p
       /\ \A w \in Workers : AtMemory(w) => worker[w].peer \in index

Alike == ~raced => ~Overlap /\ (Up => Follows)

(* A step that changes neither of them.                                    *)
Steady ==
  /\ UNCHANGED <<index, memory>>
  /\ \/ UNCHANGED <<refresh, listed>>
     \/ refresh # "memory" /\ refresh' # "memory"
  /\ Up' => Up
  /\ \A w \in Workers :
       /\ AtMemory(w)' => AtMemory(w)
       /\ AtMemory(w) => worker'[w] = worker[w]

LEMMA SteadyKeeps ==
  ASSUME Up => Follows, Steady
  PROVE  Up' => Follows'
<1>1. \A w \in Workers : AtMemory(w)' <=> AtMemory(w)
  BY DEF Steady, AtMemory
<1>. QED
  BY <1>1 DEF Steady, Follows

LEMMA QuietKeeps ==
  ASSUME IndInv, Up => Follows,
         Message \/ Left \/ Auth \/ Refresh \/ Tell \/ List \/ ListEnds \/ AddListed
           \/ Watch \/ WatchEnds \/ UNCHANGED vars
  PROVE  Up' => Follows'
<1>1. UNCHANGED <<index, memory, worker>>
  BY DEF Message, Left, Auth, Refresh, Tell, List, ListEnds, AddListed, Watch, WatchEnds, vars,
         database
<1>2. \/ UNCHANGED <<refresh, listed>>
      \/ refresh # "memory" /\ refresh' # "memory"
  BY DEF Message, Left, Auth, Refresh, Begin, Tell, List, ListEnds, AddListed, Watch, WatchEnds,
         vars, listing
<1>3. Up' => Up
  BY DEF Message, Left, Auth, Refresh, Tell, List, ListEnds, AddListed, Watch, WatchEnds, vars,
         Up
<1>. QED
  BY <1>1, <1>2, <1>3, SteadyKeeps DEF Steady, AtMemory

LEMMA OpenKeeps ==
  ASSUME IndInv, Open
  PROVE  Up' => Follows'
<1>1. /\ refresh' = "off" /\ (Up' => memory' = index')
      /\ \A w \in Workers : ~AtMemory(w)'
  BY DEF Open, IndInv, AtRest, Idle, listing, Up, AtMemory
<1>. QED
  BY <1>1 DEF Follows

LEMMA RefreshKeeps ==
  ASSUME IndInv, ~Overlap, Up => Follows,
         Swap \/ ListFails \/ ReplaceFails \/ ReplaceMemory
  PROVE  Up' => Follows'
<1>1. CASE Swap
  BY <1>1 DEF Swap, Follows
<1>2. ASSUME NEW failed \in BOOLEAN, NEW dialogs, Ends(failed, dialogs),
             ~Quiet, UNCHANGED <<index, worker>>,
             Up => dialogs = index
      PROVE  Up' => Follows'
  <2>1. /\ refresh' # "memory" /\ (Up' => Up /\ memory' = dialogs)
        /\ \A w \in Workers : ~AtMemory(w) /\ ~AtMemory(w)'
    BY <1>2 DEF Ends, Up, Overlap, AtMemory
  <2>. QED
    BY <1>2, <2>1 DEF Follows
<1>3. CASE ListFails \/ ReplaceFails
  <2>1. /\ refresh \in {"list", "add"} /\ ~Quiet /\ UNCHANGED <<index, worker>>
        /\ \E failed \in BOOLEAN : Ends(failed, memory)
    BY <1>3 DEF ListFails, ReplaceFails, Quiet, database
  <2>2. \A w \in Workers : ~AtMemory(w)
    BY <2>1 DEF Overlap, AtMemory
  <2>3. Up => memory = index
    BY <2>1, <2>2 DEF Follows
  <2>. QED
    BY <1>2, <2>1, <2>3
<1>4. CASE ReplaceMemory
  BY <1>2, <1>4 DEF ReplaceMemory, Quiet, Follows, database
<1>. QED
  BY <1>1, <1>3, <1>4

LEMMA HandlersKeep ==
  ASSUME IndInv, ~Overlap, ~Overlap', Up => Follows, Handlers
  PROVE  Up' => Follows'
<1>. USE DEF IndInv
<1>1. UNCHANGED <<refresh, listed, phase>>
  BY DEF Handlers, Upsert, OnMessage, OnEntity, RefreshKnown, AddRecord, PutIndex,
         UpsertFails, SetMemory, Offered, listing
<1>2. ASSUME NEW p \in Peers, OnMessage(p) \/ OnEntity(p) PROVE Up' => Follows'
  <2>1. Of(p) \in Workers /\ Common \in Workers
    BY OfWorker DEF Workers
  <2>2. UNCHANGED <<index, memory>>
    BY <1>2 DEF OnMessage, OnEntity
  <2>3. \A w \in Workers :
         (AtMemory(w)' => AtMemory(w)) /\ (AtMemory(w) => worker'[w] = worker[w])
    <3>1. CASE OnMessage(p)
      BY <2>1, <3>1 DEF OnMessage, Free, Take, Idle, TypeOK, AtMemory
    <3>2. CASE OnEntity(p)
      BY <2>1, <3>2 DEF OnEntity, Free, Take, Idle, TypeOK, AtMemory
    <3>. QED
      BY <1>2, <3>1, <3>2
  <2>. QED
    BY <1>1, <2>2, <2>3, SteadyKeeps DEF Steady, Up
<1>3. ASSUME NEW w \in Workers,
             RefreshKnown(w) \/ Offered(w) \/ AddRecord(w) \/ UpsertFails(w)
      PROVE  Up' => Follows'
  <2>1. UNCHANGED <<index, memory>>
    BY <1>3 DEF RefreshKnown, Offered, AddRecord, UpsertFails, database
  <2>2. \A v \in Workers :
         (AtMemory(v)' => AtMemory(v)) /\ (AtMemory(v) => worker'[v] = worker[v])
    BY <1>3 DEF RefreshKnown, Offered, AddRecord, UpsertFails, Goes, Done, Idle, TypeOK, AtMemory
  <2>. QED
    BY <1>1, <2>1, <2>2, SteadyKeeps DEF Steady, Up
<1>4. ASSUME NEW w \in Workers, PutIndex(w) PROVE Up' => Follows'
  <2>1. /\ index' = index \cup {worker[w].peer} /\ memory' = memory
        /\ AtMemory(w)' /\ worker'[w].peer = worker[w].peer /\ ~AtMemory(w)
        /\ \A v \in Workers \ {w} : worker'[v] = worker[v]
    BY <1>4 DEF PutIndex, Goes, TypeOK, AtMemory
  <2>2. refresh # "memory"
    BY <1>1, <2>1 DEF Overlap, Quiet, AtMemory
  <2>3. ASSUME NEW v \in Workers, AtMemory(v) PROVE AtMemory(v)' /\ worker'[v] = worker[v]
    BY <2>1, <2>3 DEF AtMemory
  <2>4. ASSUME NEW v \in Workers, AtMemory(v)', v # w PROVE AtMemory(v) /\ worker'[v] = worker[v]
    BY <2>1, <2>4 DEF AtMemory
  <2>. QED
    BY <1>1, <2>1, <2>2, <2>3, <2>4 DEF Follows, Up
<1>5. ASSUME NEW w \in Workers, SetMemory(w) PROVE Up' => Follows'
  <2>1. /\ memory' = memory \cup {worker[w].peer} /\ index' = index
        /\ AtMemory(w) /\ ~AtMemory(w)'
        /\ \A v \in Workers \ {w} : worker'[v] = worker[v]
    BY <1>5 DEF SetMemory, Done, Idle, TypeOK, AtMemory, database
  <2>2. refresh # "memory"
    BY <2>1 DEF Overlap, Quiet, AtMemory
  <2>3. ASSUME NEW v \in Workers, v # w
        PROVE  (AtMemory(v)' <=> AtMemory(v)) /\ worker'[v] = worker[v]
    BY <2>1, <2>3 DEF AtMemory
  <2>. QED
    BY <1>1, <2>1, <2>2, <2>3 DEF Follows, Up
<1>. QED
  BY <1>2, <1>3, <1>4, <1>5 DEF Handlers, Upsert

LEMMA NextAlike == IndInv /\ Alike /\ [Next]_vars => Alike'
<1>. SUFFICES ASSUME IndInv, Alike, [Next]_vars, ~raced' PROVE ~Overlap' /\ (Up' => Follows')
  BY DEF Alike
<1>1. CASE UNCHANGED vars
  <2>1. ~raced /\ ~Overlap /\ (Up => Follows)
    BY <1>1 DEF Alike, vars
  <2>2. ~Overlap'
    BY <1>1, <2>1 DEF Overlap, Quiet, vars, listing
  <2>. QED
    BY <1>1, <2>1, <2>2, QuietKeeps
<1>2. CASE Next
  <2>1. ~raced /\ ~Overlap' /\ Step
    BY <1>2 DEF Next
  <2>2. ~Overlap /\ (Up => Follows)
    BY <2>1 DEF Alike
  <2>3. CASE Down
    BY <2>1, <2>3 DEF Down, Up
  <2>. QED
    BY <2>1, <2>2, <2>3, QuietKeeps, OpenKeeps, RefreshKeeps, HandlersKeep
       DEF Step, Replace
<1>. QED
  BY <1>1, <1>2

(* When nothing is under way, what is in memory is what the index says,    *)
(* whatever failed, was cancelled or restarted before, as long as no       *)
(* handler of updates has written in the middle of a refresh: upsert and   *)
(* replace go to the index first and to the memory after it, and only the  *)
(* two together can leave them apart.                                      *)
THEOREM SnapshotFollows == Spec => []SnapshotIsIndex
<1>1. Init => Alike
  BY AllIdle DEF Init, Alike, Overlap, Quiet, Up
<1>2. Alike => SnapshotIsIndex
  BY DEF Alike, Follows, SnapshotIsIndex, Quiet, Up, AtMemory
<1>. QED
  BY <1>1, <1>2, NextAlike, Inductive, PTL DEF Spec

=============================================================================
