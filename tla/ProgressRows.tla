----------------------------- MODULE ProgressRows -----------------------------
(***************************************************************************)
(* The progress rows of one command: tuiProgress and its trackers          *)
(* (internal/renderer/tui_progress.go), which several goroutines use at    *)
(* once, and what shows them: the screen of the prompt behind a bounded    *)
(* channel (events.go, cmd/cmd/prompt_model.go), or a plain terminal with  *)
(* one live row and its animation (internal/renderer/progress.go).         *)
(*                                                                         *)
(* A tracker emits with its mutex held, so that a use of a tracker waits   *)
(* for room in the channel and the other uses of it for that one.  The     *)
(* mutex of the progress is never held over an emission.                   *)
(***************************************************************************)
EXTENDS Naturals, Sequences, FiniteSets, SequencesExt

CONSTANTS
  Rows,      \* the trackers of the command's work
  Known,     \* those with a total
  Shared,    \* those that several goroutines use
  Ps,        \* the tracker of EnablePS
  None,
  Users,     \* how many goroutines use such a tracker; the first one makes it
  Capacity,  \* of the channel of events
  MaxUpdates \* bound: the updates of all rows

ASSUME RowsAssumption ==
  /\ Known \subseteq Rows /\ Shared \subseteq Rows /\ Ps \notin Rows /\ None \notin Rows \cup {Ps}
  /\ IsFiniteSet(Rows) /\ Users \in Nat \ {0} /\ Capacity \in Nat \ {0}
  /\ MaxUpdates \in Nat

All == Rows \cup {Ps}

VARIABLES
  ctxDone,
  main,        \* where EnablePS, Wait and Stop are
  seen,        \* the channel p.changed that Wait selects on, as a number
  active, changed, stopped,  \* of tuiProgress
  user,        \* each use of a tracker: "none", "create", "idle", "update" and
               \* "end" with its mutex held, "count" in trackerDone, "left"
  terminal,    \* the trackers with terminal set
  updates,     \* how many there have been
  before,      \* those that the work had when Wait began
  sink, events,
  rows, transcript,  \* the screen: activeRowOrder, and the rows that have ended
  live, animators    \* the plain terminal: active, and its animation

progress == <<active, changed, stopped>>
shown == <<rows, transcript, live, animators>>
vars == <<ctxDone, main, seen, progress, user, terminal, updates, before, sink, events, shown>>

Uses == {"none", "create", "idle", "update", "end", "count", "left"}

TypeOK ==
  /\ ctxDone \in BOOLEAN
  /\ main \in {"enable", "enabling", "work", "look", "wait", "stop", "join", "over"}
  /\ seen \in Nat /\ active \in 0..Cardinality(Rows)
  /\ changed \in 0..(Cardinality(Rows) + 1) /\ stopped \in BOOLEAN
  /\ user \in [All -> [1..Users -> Uses]]
  /\ terminal \subseteq All /\ updates \in 0..MaxUpdates /\ before \subseteq Rows
  /\ sink \in {"screen", "terminal"}
  /\ events \in Seq({"row", "end"} \X All) /\ Len(events) <= Capacity
  /\ rows \in Seq(All) /\ transcript \in Seq(All)
  /\ live \in All \cup {None} /\ animators \subseteq All

Init ==
  /\ ctxDone = FALSE /\ main = "enable" /\ seen = 0
  /\ active = 0 /\ changed = 0 /\ stopped = FALSE
  /\ user = [t \in All |-> [u \in 1..Users |-> IF t \notin Shared /\ u > 1 THEN "left" ELSE "none"]]
  /\ terminal = {} /\ updates = 0 /\ before = {}
  /\ sink \in {"screen", "terminal"} /\ events = <<>>
  /\ rows = <<>> /\ transcript = <<>> /\ live = None /\ animators = {}

Made(t) == user[t][1] \notin {"none", "create"}

-----------------------------------------------------------------------------
(* The terminal sink: it has a live row only for work without a total, and *)
(* starts an animation when there was none before.                         *)
ShowLive(t) ==
  /\ IF live = None /\ t \notin Known
     THEN live' = t /\ animators' = animators \cup {t}
     ELSE UNCHANGED <<live, animators>>
  /\ UNCHANGED <<rows, transcript>>

ShowEnded(t) ==
  /\ transcript' = Append(transcript, t)
  /\ live' = (IF live = t THEN None ELSE live)
  /\ UNCHANGED <<rows, animators>>

Emit(kind, t) ==
  \/ /\ sink = "screen" /\ Len(events) < Capacity
     /\ events' = Append(events, <<kind, t>>) /\ UNCHANGED shown
  \/ /\ sink = "terminal"
     /\ IF kind = "row" THEN ShowLive(t) ELSE ShowEnded(t)
     /\ UNCHANGED events

(* animate, at its next tick                                               *)
Animate(t) ==
  /\ t \in animators /\ live # t /\ animators' = animators \ {t}
  /\ UNCHANGED <<ctxDone, main, seen, progress, user, terminal, updates, before, sink, events,
                 rows, transcript, live>>

(* applyRendererEvent of the screen                                        *)
Apply ==
  /\ events # <<>> /\ events' = Tail(events)
  /\ LET kind == Head(events)[1]
         t == Head(events)[2]
     IN  \/ t \in Range(transcript) /\ UNCHANGED <<rows, transcript>>
         \/ /\ t \notin Range(transcript) /\ kind = "end"
            /\ rows' = RemoveFirst(rows, t)
            /\ transcript' = Append(transcript, t)
         \/ /\ t \notin Range(transcript) /\ kind = "row"
            /\ rows' = (IF t \in Range(rows) THEN rows ELSE Append(rows, t))
            /\ UNCHANGED transcript
  /\ UNCHANGED <<ctxDone, main, seen, progress, user, terminal, updates, before, sink, live,
                 animators>>

-----------------------------------------------------------------------------
(* The row of EnablePS is not counted: it ends only with the progress.     *)
(* (A definition whose name ends in _Slip is not part of the model: it is  *)
(* the definition after it with a mistake in it, used to see that the      *)
(* properties notice the mistake.)                                         *)
Counted_Slip(t) == TRUE
Counted(t) == t # Ps

Use(t, u, from, to) ==
  /\ user[t][u] = from /\ user' = [user EXCEPT ![t][u] = to]
  /\ UNCHANGED <<ctxDone, seen, before, sink>>

Held(t) == \E u \in 1..Users : user[t][u] \in {"create", "update", "end"}

(* newTracker                                                              *)
NewTracker(t) ==
  /\ Use(t, 1, "none", "create")
  /\ active' = (IF Counted(t) THEN active + 1 ELSE active)
  /\ UNCHANGED <<changed, stopped, terminal, updates, events, shown>>

Create(t) ==
  /\ Emit("row", t)
  /\ user[t][1] = "create"
  /\ user' = [user EXCEPT ![t] = [u \in 1..Users |-> IF @[u] = "left" THEN "left" ELSE "idle"]]
  /\ UNCHANGED <<ctxDone, seen, before, sink, progress, terminal, updates>>

(* Increment and UpdateMessage                                             *)
MayUpdate_Slip(t) == TRUE
MayUpdate(t) == t \notin terminal

Update(t, u) ==
  /\ ~Held(t) /\ MayUpdate(t) /\ Use(t, u, "idle", "update")
  /\ updates < MaxUpdates /\ updates' = updates + 1
  /\ UNCHANGED <<main, progress, terminal, events, shown>>

Updated(t, u) ==
  /\ Use(t, u, "update", "idle") /\ Emit("row", t)
  /\ UNCHANGED <<main, progress, terminal, updates>>

(* finish, called by Done and Fail                                         *)
EndsOnce_Slip(t) == TRUE
EndsOnce(t) == t \notin terminal

Finish(t, u) ==
  /\ ~Held(t)
  /\ Use(t, u, "idle", IF EndsOnce(t) THEN "end" ELSE "left")
  /\ terminal' = terminal \cup {t}
  /\ UNCHANGED <<main, progress, updates, events, shown>>

Finished(t, u) ==
  /\ Use(t, u, "end", IF Counted(t) THEN "count" ELSE "left") /\ Emit("end", t)
  /\ UNCHANGED <<main, progress, terminal, updates>>

Signal_Slip == UNCHANGED changed
Signal == changed' = changed + 1

TrackerDone(t, u) ==
  /\ Use(t, u, "count", "left")
  /\ active' = (IF active > 0 THEN active - 1 ELSE active) /\ Signal
  /\ UNCHANGED <<main, stopped, terminal, updates, events, shown>>

(* A goroutine that did not make the tracker may stop using it.            *)
Leave(t, u) ==
  /\ u # 1 /\ Use(t, u, "idle", "left")
  /\ UNCHANGED <<main, progress, terminal, updates, events, shown>>

-----------------------------------------------------------------------------
Main(from, to) ==
  /\ main = from /\ main' = to
  /\ UNCHANGED <<ctxDone, terminal, updates, sink>>

(* EnablePS, or a command that has no such row.                            *)
NoPS ==
  /\ Main("enable", "work") /\ UNCHANGED <<seen, progress, user, before, events, shown>>
EnablePS == main = "enable" /\ main' = "enabling" /\ NewTracker(Ps)
PSEnabled == main = "enabling" /\ main' = "work" /\ Create(Ps)

(* The goroutine of EnablePS ends its row.                                 *)
StatusEnds == (ctxDone \/ stopped) /\ Finish(Ps, 1)

WaitAndStop ==
  /\ Main("work", "look") /\ before' = {t \in Rows : Made(t)}
  /\ UNCHANGED <<seen, progress, user, events, shown>>

Look ==
  /\ \/ (active = 0 \/ stopped) /\ Main("look", "stop") /\ UNCHANGED seen
     \/ ~(active = 0 \/ stopped) /\ Main("look", "wait") /\ seen' = changed
  /\ UNCHANGED <<progress, user, before, events, shown>>

Wake ==
  /\ \/ changed # seen /\ Main("wait", "look")
     \/ ctxDone /\ Main("wait", "stop")
  /\ UNCHANGED <<seen, progress, user, before, events, shown>>

Stop ==
  /\ Main("stop", "join") /\ stopped' = TRUE /\ changed' = changed + 1
  /\ UNCHANGED <<seen, active, user, before, events, shown>>

StatusOver == user[Ps][1] \in {"none", "left"}

Joined ==
  /\ StatusOver /\ Main("join", "over")
  /\ UNCHANGED <<seen, progress, user, before, events, shown>>

Cancel ==
  /\ ~ctxDone /\ ctxDone' = TRUE
  /\ UNCHANGED <<main, seen, progress, user, terminal, updates, before, sink, events, shown>>

-----------------------------------------------------------------------------
Work(t) ==
  \/ /\ main \notin {"enable", "enabling"} /\ NewTracker(t) /\ UNCHANGED main
  \/ Create(t) /\ UNCHANGED main
  \/ \E u \in 1..Users : Update(t, u) \/ Finish(t, u) \/ Leave(t, u)
Emissions ==
  \E t \in All, u \in 1..Users : Updated(t, u) \/ Finished(t, u) \/ TrackerDone(t, u)

MainMoves == EnablePS \/ NoPS \/ PSEnabled \/ Look \/ Wake \/ Stop \/ Joined

Next ==
  \/ (\E t \in Rows : Work(t)) \/ Emissions
  \/ Update(Ps, 1) \/ StatusEnds
  \/ MainMoves \/ WaitAndStop \/ Cancel \/ Apply \/ \E t \in All : Animate(t)

Spec == Init /\ [][Next]_vars

(* Goroutines run, the screen reads, and whoever made a tracker ends it.   *)
Fairness ==
  /\ WF_vars(MainMoves) /\ WF_vars(Apply) /\ WF_vars(StatusEnds /\ UNCHANGED main)
  /\ WF_vars(Emissions) /\ WF_vars(\E t \in All : Animate(t))
  /\ WF_vars(\E t \in Rows : (Create(t) \/ Finish(t, 1)) /\ UNCHANGED main)

FairSpec == Spec /\ Fairness

-----------------------------------------------------------------------------
(* An end is the last word of its row, whoever else is updating it: no     *)
(* event of a row follows it on its way to the screen, and the terminal    *)
(* does not draw the row of ended work again.  On the screen no row is     *)
(* left of what has ended, and none is there twice.                        *)
LastWord ==
  /\ \A i, j \in 1..Len(events) :
       i < j /\ events[i][1] = "end" => events[j][2] # events[i][2]
  /\ \A i \in 1..Len(events) : events[i][2] \notin Range(transcript)
  /\ live \notin Range(transcript)
  /\ IsInjective(transcript)
  /\ IsInjective(rows) /\ Range(rows) \cap Range(transcript) = {}

(* Wait without an interruption returns when every row that was there has  *)
(* its end on the way to the output, although ends may be reported twice   *)
(* and by several goroutines; after Stop no row of the status is left.     *)
EndEmitted(t) == t \in Range(transcript) \/ <<"end", t>> \in Range(events)

WaitedFor ==
  /\ main \in {"stop", "join", "over"} /\ ~ctxDone => \A t \in before : EndEmitted(t)
  /\ main = "over" /\ user[Ps][1] # "none" => EndEmitted(Ps)

(* Wait misses no signal and no row blocks another one for ever: the wait  *)
(* and the stop come to their end, every row ends on the output, and its   *)
(* animation with it.                                                      *)
Settled ==
  /\ \A t \in Rows : Made(t) => t \in Range(transcript)
  /\ animators \cap terminal = {}

Settles == /\ (main = "look") ~> (main = "over")
           /\ []<>Settled
=============================================================================
