------------------------------ MODULE DialogCache ------------------------------
(***************************************************************************)
(* The cache of dialogs: peer records and an index in the database, and a  *)
(* map in memory (pkg/telegram/cache.go, dialog_cache_store.go), changed   *)
(* by the refresh of `dialog refresh` and of the first start (dialog.go)   *)
(* and by the handlers of updates (dialog_updates.go), which the watcher   *)
(* replaces by its own (file.go).  Each of the three is changed in a step  *)
(* of its own, and nothing is held from one step to the next.              *)
(*                                                                         *)
(* The manager of updates runs one goroutine for each channel and one for  *)
(* all the rest; the messages of a channel come through its own, any other *)
(* update of it through the common one.  What is known of a peer is left   *)
(* out: a peer has a record or not, is in memory or not.                   *)
(***************************************************************************)
EXTENDS Naturals, FiniteSets

CONSTANTS
  Users,       \* the peers without a goroutine of their own
  Channels,    \* those that have one
  None,
  MaxMessages, \* bound: the messages written
  MaxRefresh,  \* bound: the refreshes
  MaxCrashes   \* bound: the ends of the process

ASSUME PeersAssumption ==
  /\ Users \cap Channels = {} /\ None \notin Users \cup Channels
  /\ MaxMessages \in Nat /\ MaxRefresh \in Nat /\ MaxCrashes \in Nat

Peers == Users \cup Channels
Common == None
Workers == {Common} \cup Channels
Of(p) == IF p \in Channels THEN p ELSE Common

VARIABLES
  date,      \* of the last message of each dialog; 0: there is no such dialog
  pending,   \* the peers with a message that is not handled yet
  schema,    \* whether the database has the version of this program
  records, index, memory,  \* the peers that each of them has
  phase,     \* "down", "auth", "bootstrap", "running", and "corrupt" when load fails
  worker,    \* each goroutine of updates: its step and its peer
  refresh,   \* "off", "list", "add", "memory", and "told" when its caller is content
  cursor,    \* offset of the listing: everything that young has been listed
  listed,    \* what the listing has found
  stored,    \* the peers of the listing whose record is written
  handlers,  \* whose the handlers of new messages are: "cache" or "watcher"
  watching,  \* somebody reads the channel of the watcher
  last,      \* ghost: of the last message of each dialog: "calm" when no refresh was
             \* under way, "cached" when it has been handled then, "none" otherwise
  raced,     \* ghost: a handler has written while a refresh was under way
  messages, refreshes, crashes

telegram == <<date, pending, last, messages>>
database == <<schema, records, index>>
listing == <<refresh, cursor, listed, stored>>
watcher == <<handlers, watching>>
counts == <<refreshes, crashes>>
vars == <<telegram, database, memory, phase, worker, listing, watcher, raced, counts>>

Steps == {"idle", "known", "add", "put", "memory", "offer"}
Idle == [step |-> "idle", peer |-> None]

TypeOK ==
  /\ date \in [Peers -> Nat] /\ pending \subseteq Peers /\ messages \in 0..MaxMessages
  /\ last \in [Peers -> {"none", "calm", "cached"}]
  /\ schema \in BOOLEAN /\ index \subseteq Peers /\ records \subseteq Peers /\ memory \subseteq Peers
  /\ phase \in {"down", "auth", "bootstrap", "running", "corrupt"}
  /\ worker \in [Workers -> [step : Steps, peer : Peers \cup {None}]]
  /\ \A w \in Workers : worker[w].peer = None => worker[w].step = "idle"
  /\ refresh \in {"off", "list", "add", "memory", "told"}
  /\ cursor \in Nat /\ listed \subseteq Peers /\ stored \subseteq Peers
  /\ handlers \in {"cache", "watcher"} /\ watching \in BOOLEAN /\ raced \in BOOLEAN
  /\ refreshes \in 0..MaxRefresh /\ crashes \in 0..MaxCrashes

(* A database of the old schema may say anything.                          *)
Init ==
  /\ date = [p \in Peers |-> 0] /\ pending = {} /\ messages = 0
  /\ last = [p \in Peers |-> "none"]
  /\ schema \in BOOLEAN /\ records = {} /\ index \in IF schema THEN {{}} ELSE SUBSET Peers
  /\ memory = {} /\ phase = "down" /\ worker = [w \in Workers |-> Idle]
  /\ refresh = "off" /\ cursor = 0 /\ listed = {} /\ stored = {}
  /\ handlers = "cache" /\ watching = FALSE /\ raced = FALSE /\ refreshes = 0 /\ crashes = 0

-----------------------------------------------------------------------------
(* Telegram: a message in a dialog, old or new, and a dialog left.         *)
Quiet == refresh \in {"off", "told"}

Message ==
  /\ messages < MaxMessages /\ messages' = messages + 1
  /\ \E p \in Peers :
       /\ date' = [date EXCEPT ![p] = messages + 1] /\ pending' = pending \cup {p}
       /\ last' = [last EXCEPT ![p] = IF Quiet THEN "calm" ELSE "none"]
  /\ UNCHANGED <<database, memory, phase, worker, listing, watcher, counts>>

Left ==
  /\ \E p \in Peers :
       /\ date[p] > 0 /\ date' = [date EXCEPT ![p] = 0]
       /\ pending' = pending \ {p} /\ last' = [last EXCEPT ![p] = "none"]
  /\ UNCHANGED <<messages, database, memory, phase, worker, listing, watcher, counts>>

-----------------------------------------------------------------------------
(* NewClient: newDialogCacheStore in one transaction, then load.           *)
Open ==
  /\ phase = "down" /\ schema' = TRUE
  /\ records' = (IF schema THEN records ELSE {}) /\ index' = (IF schema THEN index ELSE {})
  /\ IF index' \subseteq records'
     THEN phase' = "auth" /\ memory' = index'
     ELSE phase' = "corrupt" /\ UNCHANGED memory
  /\ UNCHANGED <<telegram, worker, listing, watcher, counts>>

Begin ==
  /\ refresh = "off" /\ refreshes < MaxRefresh /\ refreshes' = refreshes + 1
  /\ refresh' = "list" /\ cursor' = messages + 1 /\ listed' = {} /\ stored' = {}

(* Auth: the bootstrap of an empty cache comes before the updates.         *)
Auth ==
  /\ phase = "auth"
  /\ \/ memory = {} /\ phase' = "bootstrap" /\ Begin
     \/ memory # {} /\ phase' = "running" /\ UNCHANGED <<listing, refreshes>>
  /\ UNCHANGED <<telegram, database, memory, worker, watcher, crashes>>

Refresh ==
  /\ phase = "running" /\ Begin
  /\ UNCHANGED <<telegram, database, memory, phase, worker, watcher, crashes>>

(* The channel of dialogs is closed: what the caller makes of it.  Nothing *)
(* comes through the channel but the errors that were sent into it; that   *)
(* its own context is cancelled the caller sees for itself.                *)
Ends(failed, dialogs) ==
  /\ refresh' = (IF failed THEN "off" ELSE "told") /\ cursor' = 0 /\ listed' = {} /\ stored' = {}
  /\ IF phase = "bootstrap" /\ failed
     THEN phase' = "down" /\ memory' = {}
     ELSE phase' = phase /\ memory' = dialogs

(* `dialog refresh` prints how many dialogs there are now, Auth goes on.   *)
Tell ==
  /\ refresh = "told" /\ refresh' = "off"
  /\ phase' = (IF phase = "bootstrap" THEN "running" ELSE phase)
  /\ UNCHANGED <<telegram, database, memory, worker, cursor, listed, stored, watcher, counts>>

(* The listing goes by date: the next dialog is the youngest of the older  *)
(* ones.  A dialog that gets a message meanwhile is past it.               *)
Ahead(p) == date[p] > 0 /\ date[p] < cursor

List ==
  /\ refresh = "list"
  /\ \E p \in Peers :
       /\ Ahead(p) /\ \A q \in Peers : Ahead(q) => date[q] <= date[p]
       /\ cursor' = date[p] /\ listed' = listed \cup {p}
  /\ UNCHANGED <<telegram, database, memory, phase, worker, refresh, stored, watcher, counts>>

ListEnds_Slip ==
  /\ refresh = "list" /\ refresh' = "add"
  /\ UNCHANGED <<telegram, database, memory, phase, worker, cursor, listed, stored, watcher, counts>>
ListEnds ==
  /\ refresh = "list" /\ (\A p \in Peers : ~Ahead(p)) /\ refresh' = "add"
  /\ UNCHANGED <<telegram, database, memory, phase, worker, cursor, listed, stored, watcher, counts>>

(* Only a dialog without its entity is told through the channel; an error  *)
(* of the query is logged.                                                 *)
ListFails ==
  /\ refresh = "list" /\ \E failed \in BOOLEAN : Ends(failed, memory)
  /\ UNCHANGED <<telegram, database, worker, watcher, counts>>

(* dialogCacheStore.replace: a record after the other, then the index.     *)
AddListed ==
  /\ refresh = "add"
  /\ \E p \in listed \ stored : records' = records \cup {p} /\ stored' = stored \cup {p}
  /\ UNCHANGED <<telegram, schema, index, memory, phase, worker, refresh, cursor, listed, watcher,
                 counts>>

Swap_Slip ==
  /\ refresh = "add" /\ refresh' = "memory" /\ index' = listed
  /\ UNCHANGED <<telegram, schema, records, memory, phase, worker, cursor, listed, stored, watcher,
                 counts>>
Swap ==
  /\ refresh = "add" /\ listed = stored /\ refresh' = "memory" /\ index' = listed
  /\ UNCHANGED <<telegram, schema, records, memory, phase, worker, cursor, listed, stored, watcher,
                 counts>>

(* An error of the database, or a context found cancelled.                 *)
ReplaceFails ==
  /\ refresh = "add" /\ Ends(TRUE, memory)
  /\ UNCHANGED <<telegram, database, worker, watcher, counts>>

ReplaceMemory_Slip ==
  /\ refresh = "memory" /\ \E failed \in BOOLEAN : Ends(failed, memory \cup listed)
  /\ UNCHANGED <<telegram, database, worker, watcher, counts>>
ReplaceMemory ==
  /\ refresh = "memory" /\ \E failed \in BOOLEAN : Ends(failed, listed)
  /\ UNCHANGED <<telegram, database, worker, watcher, counts>>

-----------------------------------------------------------------------------
(* The handlers of updates.  storage.UpdateHook has written the entities   *)
(* of an update to the records before any of them is called.               *)
Take(w, step, p) == worker' = [worker EXCEPT ![w] = [step |-> step, peer |-> p]]
Goes(w, step) == worker' = [worker EXCEPT ![w].step = step]
Done(w) == worker' = [worker EXCEPT ![w] = Idle]
Free(w) == phase = "running" /\ worker[w] = Idle

(* A message goes to the handler that was registered last.                 *)
OnMessage(p) ==
  /\ Free(Of(p)) /\ p \in pending /\ pending' = pending \ {p} /\ records' = records \cup {p}
  /\ \/ handlers = "cache" /\ Take(Of(p), "add", p)
     \/ handlers = "watcher" /\ Take(Of(p), "offer", p)
     \/ handlers = "watcher" /\ UNCHANGED worker
  /\ UNCHANGED <<date, last, messages, schema, index, memory, phase, listing, watcher, counts>>

(* OnUser, OnChat and OnChannel bring the entity, OnUserName only the name.*)
OnEntity(p) ==
  /\ Free(Common) /\ Take(Common, "known", p)
  /\ \/ records' = records \cup {p}
     \/ p \in Users /\ UNCHANGED records
  /\ UNCHANGED <<telegram, schema, index, memory, phase, listing, watcher, counts>>

RefreshKnown(w) ==
  /\ worker[w].step = "known"
  /\ IF worker[w].peer \in memory THEN Goes(w, "add") ELSE Done(w)
  /\ UNCHANGED <<telegram, database, memory, phase, listing, watcher, counts>>

(* UpsertDialog: the record, the index, the memory.                        *)
AddRecord(w) ==
  /\ worker[w].step = "add" /\ Goes(w, "put") /\ records' = records \cup {worker[w].peer}
  /\ UNCHANGED <<telegram, schema, index, memory, phase, listing, watcher, counts>>

PutIndex(w) ==
  /\ worker[w].step = "put" /\ Goes(w, "memory") /\ index' = index \cup {worker[w].peer}
  /\ UNCHANGED <<telegram, schema, records, memory, phase, listing, watcher, counts>>

UpsertFails(w) ==
  /\ worker[w].step \in {"add", "put"} /\ Done(w)
  /\ UNCHANGED <<telegram, database, memory, phase, listing, watcher, counts>>

SetMemory(w) ==
  LET p == worker[w].peer IN
  /\ worker[w].step = "memory" /\ Done(w) /\ memory' = memory \cup {p}
  /\ last' = [last EXCEPT ![p] = IF @ # "none" /\ w = Of(p) /\ p \notin pending THEN "cached" ELSE @]
  /\ UNCHANGED <<date, pending, messages, database, phase, listing, watcher, counts>>

-----------------------------------------------------------------------------
(* The watcher: its handlers stay when it has ended, and one of them may   *)
(* then wait for ever.                                                     *)
Watch ==
  /\ phase = "running" /\ handlers = "cache" /\ handlers' = "watcher" /\ watching' = TRUE
  /\ UNCHANGED <<telegram, database, memory, phase, worker, listing, counts>>

WatchEnds ==
  /\ watching /\ watching' = FALSE
  /\ UNCHANGED <<telegram, database, memory, phase, worker, listing, handlers, counts>>

Offered(w) ==
  /\ worker[w].step = "offer" /\ watching /\ Done(w)
  /\ UNCHANGED <<telegram, database, memory, phase, listing, watcher, counts>>

(* The process ends, wherever it is.  The manager of updates may have seen *)
(* the messages it was about to handle, or will fetch them again.          *)
Down ==
  /\ phase # "down" /\ crashes < MaxCrashes /\ crashes' = crashes + 1
  /\ phase' = "down" /\ memory' = {} /\ worker' = [w \in Workers |-> Idle]
  /\ refresh' = "off" /\ cursor' = 0 /\ listed' = {} /\ stored' = {}
  /\ watching' = FALSE /\ handlers' = "cache"
  /\ pending' \in {pending, {}}
  /\ UNCHANGED <<date, last, messages, database, refreshes>>

Upsert(w) == AddRecord(w) \/ PutIndex(w) \/ UpsertFails(w) \/ SetMemory(w)
Handlers ==
  \/ \E p \in Peers : OnMessage(p) \/ OnEntity(p)
  \/ \E w \in Workers : RefreshKnown(w) \/ Upsert(w) \/ Offered(w)

Replace == AddListed \/ Swap \/ ReplaceFails \/ ReplaceMemory
Step ==
  \/ Message \/ Left \/ Open \/ Auth \/ Refresh \/ List \/ ListEnds \/ ListFails \/ Replace \/ Tell
  \/ Handlers \/ Watch \/ WatchEnds \/ Down

Overlap == ~Quiet /\ \E w \in Workers : worker[w].step \in {"add", "put", "memory"}

Next == Step /\ raced' = (raced \/ Overlap')

Spec == Init /\ [][Next]_vars

-----------------------------------------------------------------------------
(* Whatever is in the index or in memory has its record, so that no start  *)
(* finds a database it cannot load: records come before the index that     *)
(* names them, in upsert and in replace, and a crash may come between.     *)
RecordsFirst ==
  /\ phase # "corrupt"
  /\ schema => index \cup memory \subseteq records

(* A dialog whose last message came and was handled while no refresh was   *)
(* under way is in the index, and in memory, until it is left: no refresh  *)
(* that fails, is cancelled or completes later drops it, no restart does.  *)
CachedKept ==
  \A p \in Peers : last[p] = "cached" =>
    /\ p \in index
    /\ phase \in {"auth", "bootstrap", "running"} => p \in memory

(* When nothing is under way the snapshot in memory is what the index says,*)
(* over failures, cancellations and restarts, unless a handler has written *)
(* in the middle of a refresh.                                             *)
SnapshotIsIndex ==
  ~raced /\ Quiet /\ phase \in {"auth", "bootstrap", "running"}
    /\ (\A w \in Workers : worker[w].step # "memory")
  => memory = index

(* Without that exception: the design has index and snapshot replaced      *)
(* atomically.                                                             *)
SnapshotAlways ==
  Quiet /\ phase \in {"auth", "bootstrap", "running"}
    /\ (\A w \in Workers : worker[w].step # "memory")
  => memory = index

(* The design says that `dialog refresh` reports the number of cached      *)
(* dialogs "after successful replacement".                                 *)
ReportedReplaced == [][refresh # "told" /\ refresh' = "told" => refresh = "memory"]_vars
=============================================================================
