----------------------------- MODULE PromptProofs -----------------------------
(***************************************************************************)
(* Proofs about the prompt: first about its session (PromptSession), then  *)
(* about the line and its candidates (PromptEditor, PromptCompletion).     *)
(*                                                                         *)
(* For a channel of any capacity, any number of commands and any output,   *)
(* two commands are never at work at once and the screen shows each one's  *)
(* own result, a free prompt has all output above it, and runPromptTUI     *)
(* leaves nothing at work behind.  Turns says which command is whose turn, *)
(* Shutdowns what the phases of runPromptTUI have waited for, and Flow     *)
(* follows the output and the barrier of one command through the channel.  *)
(*                                                                         *)
(* For any commands, peers, lines and heights, the candidates belong to    *)
(* this line and this cursor, the chosen one is on the screen, and each    *)
(* stands for its peer alone.  Current carries the proofs: whatever holds  *)
(* of CompletePrompt for every line holds of what is offered.              *)
(***************************************************************************)
EXTENDS PromptSession, PromptEditor, FiniteSetTheorems, FunctionTheorems, SequenceTheorems,
        WellFoundedInduction, TLAPS

-----------------------------------------------------------------------------
(* Only the last command may be at work, and while it is the screen waits  *)
(* for it.                                                                 *)
Turns ==
  /\ \A r \in Runs : r > run <=> command[r] = "none"
  /\ \A r \in Runs : command[r] \notin {"none", "delivered"} => running /\ r = run
  /\ running => run # 0
  /\ \A r \in pendingDone : running /\ r = run /\ command[r] = "delivered"
  /\ OwnResults

Shutdowns ==
  /\ phase # "program" => program # "running"
  /\ phase \in {"startup", "returned"} =>
       /\ startup # "unclaimed"
       /\ \A r \in Runs : command[r] \in {"none", "returned", "delivered"}
  /\ lifetimeDone => phase = "returned"
  /\ Joined

(* What a command has in the channel.                                      *)
Outs(s, r) == Cardinality({i \in 1..Len(s) : s[i] = <<"out", r>>})
NoOuts(s, r) == \A i \in 1..Len(s) : s[i] # <<"out", r>>
HasBarrier(s, r) == \E i \in 1..Len(s) : s[i] = <<"barrier", r>>
BarrierLast(s, r) ==
  \A i, j \in 1..Len(s) :
    i < j /\ s[i] = <<"barrier", r>> => s[j] \notin {<<"out", r>>, <<"barrier", r>>}

Held(r) == IF reader = <<"out", r>> THEN 1 ELSE 0
Over(r) == r <= run /\ ~(running /\ r = run)
Seen(r) == r \in barriers \/ Over(r)

Flow(r) ==
  /\ HasBarrier(events, r) \/ reader = <<"barrier", r>> \/ Seen(r) =>
       command[r] \in {"returned", "delivered"}
  /\ reader = <<"barrier", r>> \/ Seen(r) =>
       NoOuts(events, r) /\ ~HasBarrier(events, r) /\ reader # <<"out", r>>
  /\ Seen(r) => reader # <<"barrier", r>>
  /\ BarrierLast(events, r)
  /\ program = "running" => emitted[r] = shown[r] + Held(r) + Outs(events, r)

Flows == \A r \in Runs : Flow(r)

Sound == TypeOK /\ Turns /\ Shutdowns /\ Flows

-----------------------------------------------------------------------------
(* Types.                                                                  *)

(* What a step that emits does to the channel, or one that takes from it.  *)
LEMMA EmitTyped ==
  ASSUME EventsOK, NEW e \in Event, Emit(e)
  PROVE  EventsOK'
  BY PromptAssumption DEF EventsOK, Emit, HasRoom

LEMMA TakeTyped ==
  ASSUME EventsOK, events # <<>>
  PROVE  /\ Head(events) \in Event /\ Tail(events) \in Seq(Event)
         /\ events' = Tail(events) => EventsOK'
  BY PromptAssumption DEF EventsOK

(* What a step leaves alone keeps its type.                                *)
LEMMA Frames ==
  ASSUME TypeOK
  PROVE  /\ UNCHANGED contexts => ContextsOK'
         /\ UNCHANGED screen => ScreenOK'
         /\ UNCHANGED waiters => WaitersOK'
         /\ UNCHANGED <<program, start, reply, work, shown, phase>> => WorkOK'
         /\ UNCHANGED events => EventsOK'
  BY DEF TypeOK, ContextsOK, ScreenOK, WaitersOK, WorkOK, EventsOK,
         contexts, screen, waiters, start, work

LEMMA BeginTyped ==
  ASSUME TypeOK, Begin PROVE TypeOK'
<1>1. CASE StartupBegins
  <2>1. WorkOK'
    BY <1>1 DEF StartupBegins, Startup, TypeOK, WorkOK, work
  <2>2. EventsOK'
    BY <1>1, EmitTyped DEF StartupBegins, TypeOK, Event
  <2>. QED
    BY <1>1, <2>1, <2>2, Frames DEF StartupBegins, Startup, TypeOK
<1>2. CASE SetUp
  <2>1. WorkOK'
    BY <1>2 DEF SetUp, Startup, TypeOK, WorkOK, work, Err
  <2>. QED
    BY <1>2, <2>1, Frames DEF SetUp, Startup, TypeOK
<1>3. CASE Connected
  <2>1. WorkOK'
    BY <1>3 DEF Connected, Startup, TypeOK, WorkOK, work
  <2>2. EventsOK'
    BY <1>3, EmitTyped DEF Connected, TypeOK, Event
  <2>. QED
    BY <1>3, <2>1, <2>2, Frames DEF Connected, Startup, TypeOK
<1>4. CASE ConnectFails
  <2>1. WorkOK'
    BY <1>4 DEF ConnectFails, Startup, TypeOK, WorkOK, work, Err
  <2>. QED
    BY <1>4, <2>1, Frames DEF ConnectFails, Startup, TypeOK
<1>5. CASE Ask
  <2>1. WorkOK' /\ WaitersOK'
    BY <1>5 DEF Ask, TypeOK, WorkOK, WaitersOK, work
  <2>. QED
    BY <1>5, <2>1, Frames DEF Ask, TypeOK
<1>6. CASE Answered
  <2>1. WorkOK'
    BY <1>6 DEF Answered, TypeOK, WorkOK, work
  <2>. QED
    BY <1>6, <2>1, Frames DEF Answered, TypeOK
<1>. QED
  BY <1>1, <1>2, <1>3, <1>4, <1>5, <1>6 DEF Begin

LEMMA WorkTyped ==
  ASSUME TypeOK, NEW r \in Runs, Work(r) PROVE TypeOK'
<1>0. Event = {"out", "barrier"} \X (Runs \cup {0})
  BY DEF Event
<1>1. CASE Acquire(r)
  <2>1. WorkOK'
    BY <1>1 DEF Acquire, Command, TypeOK, WorkOK, start
  <2>. QED
    BY <1>1, <2>1, Frames DEF Acquire, Command, TypeOK
<1>2. CASE TooLate(r)
  <2>1. WorkOK'
    BY <1>2 DEF TooLate, Command, TypeOK, WorkOK, start, Err
  <2>. QED
    BY <1>2, <2>1, Frames DEF TooLate, Command, TypeOK
<1>3. CASE Output(r)
  <2>1. WorkOK'
    BY <1>3, PromptAssumption DEF Output, Command, Line, TypeOK, WorkOK, start
  <2>2. EventsOK'
    BY <1>0, <1>3, EmitTyped DEF Output, Line, TypeOK
  <2>. QED
    BY <1>3, <2>1, <2>2, Frames DEF Output, Command, TypeOK
<1>4. CASE Executed(r)
  <2>1. WorkOK'
    BY <1>4 DEF Executed, Command, TypeOK, WorkOK, start, Err
  <2>. QED
    BY <1>4, <2>1, Frames DEF Executed, Command, TypeOK
<1>5. CASE Flush(r)
  <2>1. WorkOK'
    BY <1>5, PromptAssumption DEF Flush, Command, Line, TypeOK, WorkOK, start
  <2>2. EventsOK'
    BY <1>0, <1>5, EmitTyped, Frames DEF Flush, Line, TypeOK
  <2>. QED
    BY <1>5, <2>1, <2>2, Frames DEF Flush, Command, TypeOK
<1>6. CASE Barrier(r)
  <2>1. WorkOK'
    BY <1>6 DEF Barrier, Command, TypeOK, WorkOK, start
  <2>2. EventsOK'
    BY <1>0, <1>6, EmitTyped DEF Barrier, TypeOK
  <2>. QED
    BY <1>6, <2>1, <2>2, Frames DEF Barrier, Command, TypeOK
<1>. QED
  BY <1>1, <1>2, <1>3, <1>4, <1>5, <1>6 DEF Work

(* finalizeCommand                                                         *)
LEMMA FinalizeTyped ==
  ASSUME TypeOK, NEW r \in Runs, NEW d \in SUBSET Runs, NEW b \in SUBSET Runs,
         Finalize(r, d, b)
  PROVE  ScreenOK'
<1>1. <<r, result[r]>> \in Runs \X Err
  BY DEF TypeOK, WorkOK
<1>2. finished' \in Seq(Runs \X Err)
  <2>1. finished \in Seq(Runs \X Err)
    BY DEF TypeOK, ScreenOK
  <2>2. Append(finished, <<r, result[r]>>) \in Seq(Runs \X Err)
    BY <1>1, <2>1
  <2>. QED
    BY <2>1, <2>2 DEF Finalize
<1>3. running' \in BOOLEAN /\ cancelled' \in BOOLEAN /\ quit' \in BOOLEAN
  BY DEF Finalize, TypeOK, ScreenOK
<1>4. pendingDone' \subseteq Runs /\ barriers' \subseteq Runs /\ completedRuns' \subseteq Runs
  BY DEF Finalize, TypeOK, ScreenOK
<1>. QED
  BY <1>2, <1>3, <1>4 DEF Finalize, TypeOK, ScreenOK

LEMMA ScreenTyped ==
  ASSUME TypeOK, Screen PROVE TypeOK'
<1>1. CASE Read
  <2>1. WaitersOK' /\ EventsOK'
    BY <1>1, TakeTyped DEF Read, TypeOK, WaitersOK
  <2>. QED
    BY <1>1, <2>1, Frames DEF Read, TypeOK
<1>2. CASE EventMsg
  <2>1. WaitersOK'
    BY <1>2 DEF EventMsg, Update, TypeOK, WaitersOK
  <2>2. WorkOK'
    BY <1>2 DEF EventMsg, Update, TypeOK, WorkOK
  <2>3. ContextsOK'
    BY <1>2 DEF EventMsg, Update, TypeOK, ContextsOK
  <2>. QED
    BY <1>2, <2>1, <2>2, <2>3, Frames DEF EventMsg, Update, TypeOK
<1>3. CASE BarrierMsg
  <2>1. ScreenOK' /\ UNCHANGED <<startup, reply, shown, asker, watcher, startupCancelled>>
    <3>1. reader[2] \in Runs
      BY <1>3 DEF BarrierMsg
    <3>2. pendingDone \in SUBSET Runs /\ barriers \cup {reader[2]} \in SUBSET Runs
      BY <3>1 DEF TypeOK, ScreenOK
    <3>3. Finalize(reader[2], pendingDone, barriers \cup {reader[2]})
      BY <1>3 DEF BarrierMsg
    <3>. QED
      BY <3>1, <3>2, <3>3, FinalizeTyped DEF Finalize
  <2>2. WaitersOK'
    BY <1>3, <2>1 DEF BarrierMsg, Rearm, TypeOK, WaitersOK
  <2>3. WorkOK'
    BY <1>3, <2>1 DEF BarrierMsg, Update, TypeOK, WorkOK
  <2>4. ContextsOK' /\ EventsOK'
    BY <1>3, <2>1 DEF BarrierMsg, Update, TypeOK, ContextsOK, EventsOK
  <2>. QED
    BY <2>1, <2>2, <2>3, <2>4 DEF TypeOK
<1>4. CASE StartupMsg
  <2>1. ScreenOK'
    BY <1>4 DEF StartupMsg, TypeOK, ScreenOK
  <2>2. WorkOK'
    BY <1>4 DEF StartupMsg, Update, TypeOK, WorkOK
  <2>3. ContextsOK' /\ EventsOK'
    BY <1>4 DEF StartupMsg, Update, TypeOK, ContextsOK, EventsOK
  <2>. QED
    BY <1>4, <2>1, <2>2, <2>3, Frames DEF StartupMsg, TypeOK
<1>5. CASE AuthMsg
  <2>1. ScreenOK' /\ WaitersOK'
    BY <1>5 DEF AuthMsg, TypeOK, ScreenOK, WaitersOK
  <2>2. WorkOK'
    BY <1>5 DEF AuthMsg, Update, TypeOK, WorkOK
  <2>3. ContextsOK' /\ EventsOK'
    BY <1>5 DEF AuthMsg, Update, TypeOK, ContextsOK, EventsOK
  <2>. QED
    BY <2>1, <2>2, <2>3 DEF TypeOK
<1>6. CASE ContextMsg
  <2>1. ScreenOK' /\ reply' \in {"none", "code", "cancelled"}
    BY <1>6 DEF ContextMsg, CancelStartup, Quit, TypeOK, ScreenOK, WorkOK
  <2>2. WaitersOK'
    BY <1>6 DEF ContextMsg, TypeOK, WaitersOK
  <2>3. WorkOK'
    BY <1>6, <2>1 DEF ContextMsg, Update, TypeOK, WorkOK
  <2>4. ContextsOK'
    BY <1>6 DEF ContextMsg, CancelStartup, Quit, Update, TypeOK, ContextsOK
  <2>. QED
    BY <1>6, <2>1, <2>2, <2>3, <2>4, Frames DEF ContextMsg, Update, TypeOK
<1>7. CASE QuitMsg
  <2>1. WorkOK'
    BY <1>7 DEF QuitMsg, Ends, TypeOK, WorkOK, start, work
  <2>. QED
    BY <1>7, <2>1, Frames DEF QuitMsg, Ends, TypeOK
<1>. QED
  BY <1>1, <1>2, <1>3, <1>4, <1>5, <1>6, <1>7 DEF Screen

LEMMA CommandMsgTyped ==
  ASSUME TypeOK, NEW r \in Runs, CommandMsg(r) PROVE TypeOK'
<1>1. ScreenOK' /\ UNCHANGED <<startup, reply, shown, asker, watcher, startupCancelled>>
  <2>1. pendingDone \cup {r} \in SUBSET Runs /\ barriers \in SUBSET Runs
    BY DEF TypeOK, ScreenOK
  <2>2. Finalize(r, pendingDone \cup {r}, barriers)
    BY DEF CommandMsg
  <2>. QED
    BY <2>1, <2>2, FinalizeTyped DEF Finalize
<1>2. WaitersOK'
  BY <1>1 DEF CommandMsg, TypeOK, WaitersOK
<1>3. WorkOK'
  BY <1>1 DEF CommandMsg, Update, TypeOK, WorkOK
<1>4. ContextsOK' /\ EventsOK'
  BY <1>1 DEF CommandMsg, Update, TypeOK, ContextsOK, EventsOK
<1>. QED
  BY <1>1, <1>2, <1>3, <1>4 DEF TypeOK

LEMMA UserTyped ==
  ASSUME TypeOK, User PROVE TypeOK'
<1>1. CASE Interrupt
  <2>1. ContextsOK'
    BY <1>1 DEF Interrupt, TypeOK, ContextsOK
  <2>. QED
    BY <1>1, <2>1, Frames DEF Interrupt, TypeOK
<1>2. CASE EnterCode
  <2>1. ScreenOK' /\ WaitersOK'
    BY <1>2 DEF EnterCode, TypeOK, ScreenOK, WaitersOK
  <2>2. WorkOK'
    BY <1>2 DEF EnterCode, Update, TypeOK, WorkOK
  <2>3. ContextsOK' /\ EventsOK'
    BY <1>2 DEF EnterCode, Update, TypeOK, ContextsOK, EventsOK
  <2>. QED
    BY <2>1, <2>2, <2>3 DEF TypeOK
<1>3. CASE Submit
  <2>1. ScreenOK'
    <3>1. run' \in 0..MaxRuns
      BY <1>3, PromptAssumption DEF Submit, TypeOK, ScreenOK
    <3>2. running' \in BOOLEAN /\ cancelled' \in BOOLEAN
      BY <1>3 DEF Submit
    <3>. QED
      BY <1>3, <3>1, <3>2 DEF Submit, TypeOK, ScreenOK
  <2>2. WorkOK'
    BY <1>3 DEF Submit, Update, TypeOK, WorkOK
  <2>3. ContextsOK' /\ EventsOK'
    BY <1>3 DEF Submit, Update, TypeOK, ContextsOK, EventsOK
  <2>. QED
    BY <1>3, <2>1, <2>2, <2>3, Frames DEF Submit, TypeOK
<1>4. CASE Key
  <2>1. ScreenOK' /\ reply' \in {"none", "code", "cancelled"}
    BY <1>4 DEF Key, CancelStartup, Quit, TypeOK, ScreenOK, WorkOK
  <2>2. WorkOK'
    BY <1>4, <2>1 DEF Key, Update, TypeOK, WorkOK
  <2>3. ContextsOK'
    BY <1>4 DEF Key, CancelStartup, Quit, Update, TypeOK, ContextsOK
  <2>. QED
    BY <1>4, <2>1, <2>2, <2>3, Frames DEF Key, Update, TypeOK
<1>5. CASE Abort
  <2>1. WorkOK'
    BY <1>5 DEF Abort, Ends, TypeOK, WorkOK, start, work
  <2>. QED
    BY <1>5, <2>1, Frames DEF Abort, Ends, TypeOK
<1>. QED
  BY <1>1, <1>2, <1>3, <1>4, <1>5 DEF User

LEMMA ShutdownTyped ==
  ASSUME TypeOK, Shutdown PROVE TypeOK'
<1>1. CASE Shut
  <2>1. ContextsOK'
    BY <1>1 DEF Shut, TypeOK, ContextsOK
  <2>2. cancelled' \in BOOLEAN
    BY <1>1 DEF Shut, TypeOK, ScreenOK
  <2>3. ScreenOK'
    BY <1>1, <2>2 DEF Shut, TypeOK, ScreenOK
  <2>4. WorkOK'
    BY <1>1 DEF Shut, TypeOK, WorkOK, start, work
  <2>. QED
    BY <1>1, <2>1, <2>3, <2>4, Frames DEF Shut, TypeOK
<1>2. CASE CommandJoined
  <2>1. WorkOK'
    BY <1>2 DEF CommandJoined, TypeOK, WorkOK, work
  <2>. QED
    BY <1>2, <2>1, Frames DEF CommandJoined, TypeOK
<1>3. CASE DrainEvent
  BY <1>3, TakeTyped, Frames DEF DrainEvent, TypeOK
<1>4. CASE Return
  <2>1. ContextsOK'
    BY <1>4 DEF Return, TypeOK, ContextsOK
  <2>2. WorkOK'
    BY <1>4 DEF Return, TypeOK, WorkOK, start, work
  <2>. QED
    BY <1>4, <2>1, <2>2, Frames DEF Return, TypeOK
<1>. QED
  BY <1>1, <1>2, <1>3, <1>4 DEF Shutdown

LEMMA StepTyped ==
  ASSUME TypeOK, [Next]_vars PROVE TypeOK'
<1>1. CASE UNCHANGED vars
  BY <1>1, Frames DEF vars, TypeOK
<1>. QED
  BY <1>1, BeginTyped, WorkTyped, ScreenTyped, CommandMsgTyped, UserTyped, ShutdownTyped
     DEF Next

-----------------------------------------------------------------------------
(* Whose turn it is.                                                       *)

LEMMA RunsAreNumbers ==
  ASSUME TypeOK
  PROVE  /\ \A r \in Runs : r \in Nat \ {0}
         /\ run \in Nat /\ MaxRuns \in Nat /\ Len(finished) \in Nat
  BY PromptAssumption DEF Runs, TypeOK, ScreenOK

(* The results that are shown are of commands that are over.               *)
LEMMA ShownAreOver ==
  ASSUME TypeOK, Turns, NEW i \in 1..Len(finished)
  PROVE  /\ i \in Runs /\ command[i] = "delivered"
         /\ running => i # run
<1>1. i \in 1..run /\ i \in Runs /\ (running => i # run)
  BY RunsAreNumbers DEF Turns, OwnResults, Runs, TypeOK, ScreenOK
<1>. QED
  BY <1>1, RunsAreNumbers DEF Turns

LEMMA TurnsStill ==
  ASSUME Turns, UNCHANGED <<run, running, pendingDone, finished, command, result>>
  PROVE  Turns'
  BY DEF Turns, OwnResults

(* The command whose turn it is goes on.                                   *)
LEMMA CommandTurns ==
  ASSUME TypeOK, Turns, NEW r \in Runs, command[r] \notin {"none", "delivered"},
         NEW c, c # "none", command' = [command EXCEPT ![r] = c],
         \A s \in Runs : s # r => result'[s] = result[s],
         UNCHANGED <<run, running, pendingDone, finished>>
  PROVE  Turns'
<1>1. running /\ r = run /\ r \notin pendingDone
  BY DEF Turns
<1>2. command'[r] = c /\ \A s \in Runs : s # r => command'[s] = command[s]
  BY DEF TypeOK, WorkOK
<1>3. \A s \in Runs : s # r => command[s] \in {"none", "delivered"}
  BY <1>1 DEF Turns
<1>4. \A i \in 1..Len(finished) : finished[i] = <<i, result'[i]>>
  BY <1>1, ShownAreOver DEF Turns, OwnResults
<1>5. OwnResults'
  <2>1. \A p, q \in Runs :
          {command'[p], command'[q]} \subseteq {"built", "running", "closing", "barrier"} => p = q
    BY <1>2, <1>3
  <2>. QED
    BY <1>4, <2>1 DEF Turns, OwnResults
<1>6. \A s \in Runs : s > run <=> command'[s] = "none"
  BY <1>1, <1>2 DEF Turns
<1>7. \A s \in Runs : command'[s] \notin {"none", "delivered"} => running /\ s = run
  BY <1>1, <1>2, <1>3
<1>8. \A s \in pendingDone : running /\ s = run /\ command'[s] = "delivered"
  <2>1. pendingDone \subseteq Runs
    BY DEF TypeOK, ScreenOK
  <2>. QED
    BY <1>1, <1>2, <2>1 DEF Turns
<1>. QED
  BY <1>5, <1>6, <1>7, <1>8 DEF Turns

LEMMA WorkTurns ==
  ASSUME TypeOK, Turns, NEW r \in Runs, Work(r) PROVE Turns'
<1>0. ASSUME NEW s \in Runs, s # r, NEW x, result' = [result EXCEPT ![r] = x]
      PROVE  result'[s] = result[s]
  BY <1>0 DEF TypeOK, WorkOK
<1>1. CASE Acquire(r)
  BY <1>1, CommandTurns DEF Acquire, Command, screen
<1>2. CASE TooLate(r)
  BY <1>0, <1>2, CommandTurns DEF TooLate, Command, screen
<1>3. CASE Output(r)
  BY <1>3, CommandTurns DEF Output, Command, screen
<1>4. CASE Executed(r)
  BY <1>0, <1>4, CommandTurns DEF Executed, Command, screen
<1>5. CASE Flush(r)
  BY <1>5, CommandTurns DEF Flush, Command, screen
<1>6. CASE Barrier(r)
  BY <1>6, CommandTurns DEF Barrier, Command, screen
<1>. QED
  BY <1>1, <1>2, <1>3, <1>4, <1>5, <1>6 DEF Work

LEMMA SubmitTurns ==
  ASSUME TypeOK, Turns, Submit PROVE Turns'
<1>1. /\ ~running /\ run' = run + 1 /\ run' \in Runs /\ running' = TRUE
      /\ UNCHANGED <<pendingDone, finished, result>>
  BY RunsAreNumbers DEF Submit, Update, MaySubmit, Runs
<1>2. command'[run'] = "built" /\ \A s \in Runs : s # run' => command'[s] = command[s]
  BY <1>1 DEF Submit, TypeOK, WorkOK
<1>3. \A s \in Runs : command[s] \in {"none", "delivered"}
  BY <1>1 DEF Turns
<1>4. \A s \in Runs : s > run' <=> command'[s] = "none"
  <2>1. ASSUME NEW s \in Runs, s # run' PROVE s > run' <=> s > run
    BY <1>1, <2>1, RunsAreNumbers
  <2>2. ~(run' > run')
    BY <1>1, RunsAreNumbers
  <2>. QED
    BY <1>2, <2>1, <2>2 DEF Turns
<1>5. pendingDone = {}
  BY <1>1 DEF Turns
<1>6. OwnResults'
  <2>1. \A p, q \in Runs :
          {command'[p], command'[q]} \subseteq {"built", "running", "closing", "barrier"} => p = q
    BY <1>2, <1>3
  <2>2. Len(finished') + 1 = run'
    BY <1>1, RunsAreNumbers DEF Turns, OwnResults
  <2>. QED
    BY <1>1, <2>1, <2>2 DEF Turns, OwnResults
<1>7. run' # 0
  BY <1>1, RunsAreNumbers
<1>. QED
  BY <1>1, <1>2, <1>3, <1>4, <1>5, <1>6, <1>7 DEF Turns

(* finalizeCommand ends the turn, or leaves it as it is.                   *)
LEMMA FinalizeTurns ==
  ASSUME TypeOK, Turns, NEW r \in Runs, NEW d \in SUBSET Runs, NEW b, Finalize(r, d, b),
         \A s \in d : running /\ s = run /\ command'[s] = "delivered",
         \A s \in Runs : command'[s] = "none" <=> command[s] = "none",
         \A s \in Runs : command'[s] \notin {"none", "delivered"} => command'[s] = command[s],
         UNCHANGED result
  PROVE  Turns'
<1>1. UNCHANGED run
  BY DEF Finalize
<1>2. \A s \in Runs : s > run' <=> command'[s] = "none"
  BY <1>1 DEF Turns
<1>3. \A p, q \in Runs :
        {command'[p], command'[q]} \subseteq {"built", "running", "closing", "barrier"} => p = q
  BY DEF Turns
<1>4. CASE Final(r, d, b)
  <2>1. running /\ r = run /\ command'[r] = "delivered"
    BY <1>4 DEF Final
  <2>2. running' = FALSE /\ pendingDone' = {} /\ finished' = Append(finished, <<r, result[r]>>)
    BY <1>4 DEF Finalize
  <2>3. Len(finished) + 1 = run
    BY <2>1, RunsAreNumbers DEF Turns, OwnResults
  <2>4. \A i \in 1..Len(finished') : finished'[i] = <<i, result'[i]>>
    <3>1. finished \in Seq(Runs \X Err) /\ <<r, result[r]>> \in Runs \X Err
      BY DEF TypeOK, ScreenOK, WorkOK
    <3>2. /\ Len(finished') = Len(finished) + 1
          /\ \A i \in 1..Len(finished) : finished'[i] = finished[i]
          /\ finished'[Len(finished) + 1] = <<r, result[r]>>
      BY <2>2, <3>1
    <3>3. \A i \in 1..Len(finished) : finished[i] = <<i, result[i]>>
      BY DEF Turns, OwnResults
    <3>. QED
      BY <2>1, <2>3, <3>2, <3>3, RunsAreNumbers
  <2>5. Len(finished') = run'
    BY <1>1, <2>2, <2>3 DEF TypeOK, ScreenOK, WorkOK
  <2>6. \A s \in Runs : command'[s] \in {"none", "delivered"}
    BY <2>1 DEF Turns
  <2>. QED
    BY <1>2, <1>3, <2>2, <2>4, <2>5, <2>6, RunsAreNumbers, <1>1 DEF Turns, OwnResults
<1>5. CASE ~Final(r, d, b)
  <2>1. pendingDone' = d /\ UNCHANGED <<running, finished>>
    BY <1>5 DEF Finalize
  <2>2. OwnResults'
    BY <1>1, <1>3, <2>1 DEF Turns, OwnResults
  <2>. QED
    BY <1>1, <1>2, <2>1, <2>2 DEF Turns
<1>. QED
  BY <1>4, <1>5

LEMMA BarrierMsgTurns ==
  ASSUME TypeOK, Turns, BarrierMsg PROVE Turns'
<1>1. reader[2] \in Runs /\ Finalize(reader[2], pendingDone, barriers \cup {reader[2]})
      /\ UNCHANGED <<command, result>>
  BY DEF BarrierMsg, Update
<1>2. pendingDone \in SUBSET Runs
      /\ \A s \in pendingDone : running /\ s = run /\ command'[s] = "delivered"
  BY <1>1 DEF Turns, TypeOK, ScreenOK
<1>. QED
  BY <1>1, <1>2, FinalizeTurns

LEMMA CommandMsgTurns ==
  ASSUME TypeOK, Turns, NEW r \in Runs, CommandMsg(r) PROVE Turns'
<1>1. /\ command[r] = "returned" /\ Finalize(r, pendingDone \cup {r}, barriers)
      /\ UNCHANGED result
  BY DEF CommandMsg, Update
<1>2. command'[r] = "delivered" /\ \A s \in Runs : s # r => command'[s] = command[s]
  BY DEF CommandMsg, TypeOK, WorkOK
<1>3. running /\ r = run
  BY <1>1 DEF Turns
<1>4. pendingDone \cup {r} \in SUBSET Runs
      /\ \A s \in pendingDone \cup {r} : running /\ s = run /\ command'[s] = "delivered"
  BY <1>2, <1>3 DEF Turns, TypeOK, ScreenOK
<1>5. /\ \A s \in Runs : command'[s] = "none" <=> command[s] = "none"
      /\ \A s \in Runs : command'[s] \notin {"none", "delivered"} => command'[s] = command[s]
  BY <1>1, <1>2
<1>. QED
  BY <1>1, <1>4, <1>5, FinalizeTurns

LEMMA StepTurns ==
  ASSUME TypeOK, Turns, [Next]_vars PROVE Turns'
<1>1. CASE Begin
  BY <1>1, TurnsStill
     DEF Begin, StartupBegins, SetUp, Connected, ConnectFails, Ask, Answered, Startup,
         screen, work
<1>2. CASE Read \/ EventMsg \/ StartupMsg \/ AuthMsg \/ ContextMsg \/ QuitMsg
  BY <1>2, TurnsStill
     DEF Read, EventMsg, StartupMsg, AuthMsg, ContextMsg, QuitMsg, Update, Ends, screen, work
<1>3. CASE Interrupt \/ EnterCode \/ Key \/ Abort
  BY <1>3, TurnsStill
     DEF Interrupt, EnterCode, Key, Abort, Update, Ends, screen, work
<1>4. CASE Shutdown
  BY <1>4, TurnsStill DEF Shutdown, Shut, CommandJoined, DrainEvent, Return, screen, work
<1>5. CASE UNCHANGED vars
  BY <1>5, TurnsStill DEF vars, screen, work
<1>. QED
  BY <1>1, <1>2, <1>3, <1>4, <1>5, WorkTurns, SubmitTurns, BarrierMsgTurns, CommandMsgTurns
     DEF Next, Screen, User

-----------------------------------------------------------------------------
(* What the shutdown has waited for.                                       *)

LEMMA StepShutdowns ==
  ASSUME TypeOK, Turns, Shutdowns, [Next]_vars PROVE Shutdowns'
<1>. USE DEF Shutdowns, Joined, StartupOver
<1>1. CASE StartupBegins \/ SetUp \/ Connected \/ ConnectFails
  BY <1>1 DEF StartupBegins, SetUp, Connected, ConnectFails, Startup, contexts, work
<1>2. CASE Ask \/ Answered
  BY <1>2 DEF Ask, Answered, contexts, work
<1>3. CASE Read
  BY <1>3 DEF Read, contexts, start, work
<1>4. CASE EventMsg \/ BarrierMsg \/ StartupMsg \/ AuthMsg \/ ContextMsg \/ EnterCode \/ Key
  BY <1>4 DEF EventMsg, BarrierMsg, StartupMsg, AuthMsg, ContextMsg, EnterCode, Key, Update
<1>5. CASE QuitMsg \/ Abort
  BY <1>5 DEF QuitMsg, Abort, Ends, contexts, start, work
<1>6. CASE Interrupt
  BY <1>6 DEF Interrupt, start, work
<1>7. CASE Submit
  BY <1>7 DEF Submit, Update
<1>8. ASSUME NEW r \in Runs, Work(r) PROVE Shutdowns'
  <2>1. command[r] \in {"built", "running", "closing", "barrier"}
    BY <1>8 DEF Work, Acquire, TooLate, Output, Executed, Flush, Barrier, Command
  <2>2. phase \notin {"startup", "returned"}
    BY <2>1
  <2>3. UNCHANGED <<phase, program, lifetimeDone>>
    BY <1>8
       DEF Work, Acquire, TooLate, Output, Executed, Flush, Barrier, Command, contexts
  <2>. QED
    BY <2>2, <2>3
<1>9. ASSUME NEW r \in Runs, CommandMsg(r) PROVE Shutdowns'
  BY <1>9 DEF CommandMsg, Update
<1>10. CASE Shut
  BY <1>10 DEF Shut, start, work
<1>11. CASE CommandJoined
  <2>1. \A r \in Runs : command[r] \in {"none", "returned", "delivered"}
    BY <1>11 DEF CommandJoined, CommandOver, Turns
  <2>. QED
    BY <1>11, <2>1 DEF CommandJoined, contexts, work
<1>12. CASE DrainEvent
  BY <1>12 DEF DrainEvent, contexts, start, work
<1>13. CASE Return
  BY <1>13 DEF Return, start, work
<1>14. CASE UNCHANGED vars
  BY <1>14 DEF vars, contexts, start, work
<1>. QED
  BY <1>1, <1>2, <1>3, <1>4, <1>5, <1>6, <1>7, <1>8, <1>9, <1>10, <1>11, <1>12, <1>13, <1>14
     DEF Next, Begin, Screen, User, Shutdown

-----------------------------------------------------------------------------
(* Counting what a command has in the channel.                             *)

LEMMA OutsType ==
  ASSUME NEW s \in Seq(Event), NEW r
  PROVE  /\ IsFiniteSet({i \in 1..Len(s) : s[i] = <<"out", r>>})
         /\ Outs(s, r) \in Nat
         /\ NoOuts(s, r) => Outs(s, r) = 0
<1>. DEFINE I == {i \in 1..Len(s) : s[i] = <<"out", r>>}
<1>1. IsFiniteSet(1..Len(s))
  BY FS_Interval
<1>2. IsFiniteSet(I) /\ Cardinality(I) \in Nat
  BY <1>1, FS_Subset, FS_CardinalityType
<1>3. NoOuts(s, r) => I = {}
  BY DEF NoOuts
<1>. QED
  BY <1>2, <1>3, FS_EmptySet DEF Outs

LEMMA OutsAppend ==
  ASSUME NEW s \in Seq(Event), NEW e \in Event, NEW r
  PROVE  Outs(Append(s, e), r) = Outs(s, r) + (IF e = <<"out", r>> THEN 1 ELSE 0)
<1>. DEFINE I == {i \in 1..Len(s) : s[i] = <<"out", r>>}
            J == {i \in 1..Len(Append(s, e)) : Append(s, e)[i] = <<"out", r>>}
            n == Len(s) + 1
<1>1. IsFiniteSet(I) /\ Cardinality(I) \in Nat
  BY OutsType, FS_CardinalityType
<1>2. J = IF e = <<"out", r>> THEN I \cup {n} ELSE I
  <2>. DEFINE q == Append(s, e)
  <2>1. /\ Len(q) = n /\ Len(s) \in Nat /\ q[n] = e
        /\ \A i \in 1..Len(s) : q[i] = s[i]
    OBVIOUS
  <2>. HIDE DEF q
  <2>2. \A i : i \in 1..Len(q) <=> i \in 1..Len(s) \/ i = n
    BY <2>1
  <2>3. {i \in 1..Len(q) : q[i] = <<"out", r>>} = IF e = <<"out", r>> THEN I \cup {n} ELSE I
    BY <2>1, <2>2
  <2>. QED
    BY <2>3 DEF q
<1>3. n \notin I
  OBVIOUS
<1>4. Cardinality(I \cup {n}) = Cardinality(I) + 1
  BY <1>1, <1>3, FS_AddElement
<1>5. Outs(s, r) = Cardinality(I) /\ Outs(Append(s, e), r) = Cardinality(J)
  BY DEF Outs
<1>. HIDE DEF I, J, n
<1>. QED
  BY <1>1, <1>2, <1>4, <1>5

LEMMA OutsTail ==
  ASSUME NEW s \in Seq(Event), s # <<>>, NEW r
  PROVE  Outs(s, r) = Outs(Tail(s), r) + (IF Head(s) = <<"out", r>> THEN 1 ELSE 0)
<1>. DEFINE I == {i \in 1..Len(s) : s[i] = <<"out", r>>}
            J == {i \in 1..Len(Tail(s)) : Tail(s)[i] = <<"out", r>>}
            K == {i \in I : i # 1}
            f == [i \in J |-> i + 1]
<1>1. Tail(s) \in Seq(Event)
  OBVIOUS
<1>2. IsFiniteSet(J) /\ Cardinality(J) \in Nat
  BY <1>1, OutsType, FS_CardinalityType
<1>3. /\ Len(Tail(s)) = Len(s) - 1 /\ Len(s) \in Nat \ {0}
      /\ \A i \in 1..Len(Tail(s)) : Tail(s)[i] = s[i + 1]
  OBVIOUS
<1>4. \A i \in J : f[i] \in K
  BY <1>3
<1>5. \A k \in K : k - 1 \in J /\ f[k - 1] = k
  BY <1>3
<1>6. f \in Bijection(J, K)
  <2>1. f \in [J -> K]
    BY <1>4
  <2>2. \A i, j \in J : f[i] = f[j] => i = j
    OBVIOUS
  <2>3. \A k \in K : \E i \in J : f[i] = k
    BY <1>5
  <2>. QED
    BY <2>1, <2>2, <2>3, Fun_IsBij, Zenon
<1>7. IsFiniteSet(K) /\ Cardinality(K) = Cardinality(J)
  BY <1>2, <1>6, FS_Bijection DEF ExistsBijection
<1>8. I = IF Head(s) = <<"out", r>> THEN K \cup {1} ELSE K
  BY <1>3
<1>9. Cardinality(K \cup {1}) = Cardinality(K) + 1
  BY <1>7, FS_AddElement
<1>10. Outs(s, r) = Cardinality(I) /\ Outs(Tail(s), r) = Cardinality(J)
  BY DEF Outs
<1>. HIDE DEF I, J, K, f
<1>. QED
  BY <1>2, <1>7, <1>8, <1>9, <1>10

(* One more event, and one less.                                           *)
LEMMA OneMore ==
  ASSUME NEW s \in Seq(Event), NEW e \in Event, NEW r
  PROVE  /\ HasBarrier(Append(s, e), r) <=> HasBarrier(s, r) \/ e = <<"barrier", r>>
         /\ NoOuts(Append(s, e), r) <=> NoOuts(s, r) /\ e # <<"out", r>>
         /\ BarrierLast(s, r) /\ (HasBarrier(s, r) => e \notin {<<"out", r>>, <<"barrier", r>>})
              => BarrierLast(Append(s, e), r)
<1>. DEFINE q == Append(s, e)
<1>1. /\ Len(q) = Len(s) + 1 /\ Len(s) \in Nat /\ q[Len(s) + 1] = e
      /\ \A i \in 1..Len(s) : q[i] = s[i]
  OBVIOUS
<1>. HIDE DEF q
<1>2. ASSUME NEW x
      PROVE  (\E i \in 1..Len(q) : q[i] = x) <=> (\E i \in 1..Len(s) : s[i] = x) \/ e = x
  <2>1. \A i \in 1..Len(q) : i = Len(s) + 1 \/ i \in 1..Len(s)
    BY <1>1
  <2>2. Len(s) + 1 \in 1..Len(q) /\ \A i \in 1..Len(s) : i \in 1..Len(q)
    BY <1>1
  <2>. QED
    BY <1>1, <2>1, <2>2
<1>3. /\ HasBarrier(q, r) <=> HasBarrier(s, r) \/ e = <<"barrier", r>>
      /\ NoOuts(q, r) <=> NoOuts(s, r) /\ e # <<"out", r>>
  BY <1>2 DEF HasBarrier, NoOuts
<1>4. ASSUME BarrierLast(s, r), HasBarrier(s, r) => e \notin {<<"out", r>>, <<"barrier", r>>},
             NEW i \in 1..Len(q), NEW j \in 1..Len(q), i < j, q[i] = <<"barrier", r>>
      PROVE  q[j] \notin {<<"out", r>>, <<"barrier", r>>}
  <2>1. i \in 1..Len(s) /\ s[i] = <<"barrier", r>>
    BY <1>1, <1>4
  <2>2. CASE j = Len(s) + 1
    BY <1>1, <1>4, <2>1, <2>2 DEF HasBarrier
  <2>3. CASE j # Len(s) + 1
    <3>1. j \in 1..Len(s) /\ q[j] = s[j]
      BY <1>1, <2>3
    <3>. QED
      BY <1>4, <2>1, <3>1 DEF BarrierLast
  <2>. QED
    BY <2>2, <2>3
<1>. QED
  BY <1>3, <1>4 DEF BarrierLast, q

LEMMA OneLess ==
  ASSUME NEW s \in Seq(Event), s # <<>>, NEW r
  PROVE  /\ HasBarrier(s, r) <=> HasBarrier(Tail(s), r) \/ Head(s) = <<"barrier", r>>
         /\ NoOuts(s, r) <=> NoOuts(Tail(s), r) /\ Head(s) # <<"out", r>>
         /\ BarrierLast(s, r) => BarrierLast(Tail(s), r)
         /\ BarrierLast(s, r) /\ Head(s) = <<"barrier", r>> =>
              NoOuts(Tail(s), r) /\ ~HasBarrier(Tail(s), r)
<1>. DEFINE q == Tail(s)
<1>1. /\ Len(q) = Len(s) - 1 /\ Len(s) \in Nat \ {0} /\ Head(s) = s[1]
      /\ \A i \in 1..Len(q) : q[i] = s[i + 1] /\ i + 1 \in 1..Len(s)
  OBVIOUS
<1>. HIDE DEF q
<1>2. \A i \in 1..Len(s) : i = 1 \/ (i - 1 \in 1..Len(q) /\ s[i] = q[i - 1])
  BY <1>1
<1>3. ASSUME NEW x
      PROVE  (\E i \in 1..Len(s) : s[i] = x) <=> (\E i \in 1..Len(q) : q[i] = x) \/ s[1] = x
  <2>1. 1 \in 1..Len(s)
    BY <1>1
  <2>. QED
    BY <1>1, <1>2, <2>1
<1>4. /\ HasBarrier(s, r) <=> HasBarrier(q, r) \/ s[1] = <<"barrier", r>>
      /\ NoOuts(s, r) <=> NoOuts(q, r) /\ s[1] # <<"out", r>>
  BY <1>3 DEF HasBarrier, NoOuts
<1>5. ASSUME BarrierLast(s, r) PROVE BarrierLast(q, r)
  <2>1. ASSUME NEW i \in 1..Len(q), NEW j \in 1..Len(q), i < j, q[i] = <<"barrier", r>>
        PROVE  q[j] \notin {<<"out", r>>, <<"barrier", r>>}
    <3>1. /\ i + 1 \in 1..Len(s) /\ j + 1 \in 1..Len(s) /\ i + 1 < j + 1
          /\ q[i] = s[i + 1] /\ q[j] = s[j + 1]
      BY <1>1, <2>1
    <3>. QED
      BY <1>5, <2>1, <3>1 DEF BarrierLast
  <2>. QED
    BY <2>1 DEF BarrierLast
<1>6. ASSUME BarrierLast(s, r), s[1] = <<"barrier", r>>, NEW j \in 1..Len(q)
      PROVE  q[j] \notin {<<"out", r>>, <<"barrier", r>>}
  <2>1. 1 \in 1..Len(s) /\ j + 1 \in 1..Len(s) /\ 1 < j + 1 /\ q[j] = s[j + 1]
    BY <1>1
  <2>. QED
    BY <1>6, <2>1 DEF BarrierLast
<1>. QED
  BY <1>1, <1>4, <1>5, <1>6 DEF q, NoOuts, HasBarrier

-----------------------------------------------------------------------------
(* The output of each command, and its barrier.                            *)

LEMMA FlowsStill ==
  ASSUME Flows, UNCHANGED <<events, reader, barriers, run, running, command, emitted, shown>>,
         program' = "running" => program = "running"
  PROVE  Flows'
  BY DEF Flows, Flow, Held, Seen, Over

(* An event that is none of the command's.                                 *)
LEMMA OtherEmission ==
  ASSUME TypeOK, NEW r \in Runs, Flow(r), NEW e \in Event, Emit(e),
         e \notin {<<"out", r>>, <<"barrier", r>>},
         UNCHANGED <<reader, barriers, run, running, program>>,
         command'[r] = command[r], emitted'[r] = emitted[r], shown'[r] = shown[r]
  PROVE  Flow(r)'
<1>1. CASE UNCHANGED events
  BY <1>1 DEF Flow, Held, Seen, Over
<1>2. CASE events' = Append(events, e)
  <2>1. events \in Seq(Event)
    BY DEF TypeOK, EventsOK
  <2>2. /\ HasBarrier(events', r) <=> HasBarrier(events, r)
        /\ NoOuts(events', r) <=> NoOuts(events, r)
        /\ BarrierLast(events, r) => BarrierLast(events', r)
        /\ Outs(events', r) = Outs(events, r) + 0
    BY <1>2, <2>1, OneMore, OutsAppend
  <2>3. Outs(events, r) \in Nat
    BY <2>1, OutsType
  <2>4. Outs(events', r) = Outs(events, r)
    BY <2>2, <2>3
  <2>. QED
    BY <2>2, <2>4 DEF Flow, Held, Seen, Over
<1>. QED
  BY <1>1, <1>2 DEF Emit

(* A command at work has no barrier anywhere.                              *)
LEMMA AtWork ==
  ASSUME Flows, NEW r \in Runs, command[r] \notin {"returned", "delivered"}
  PROVE  ~HasBarrier(events, r) /\ reader # <<"barrier", r>> /\ ~Seen(r)
  BY DEF Flows, Flow

LEMMA QuietWork ==
  ASSUME TypeOK, Flows, NEW r \in Runs, command[r] \notin {"returned", "delivered"},
         NEW c, command' = [command EXCEPT ![r] = c],
         UNCHANGED <<events, reader, barriers, run, running, emitted, shown, program>>
  PROVE  Flows'
<1>1. \A s \in Runs : s # r => command'[s] = command[s]
  BY DEF TypeOK, WorkOK
<1>2. ASSUME NEW s \in Runs, s # r PROVE Flow(s)'
  BY <1>1, <1>2 DEF Flows, Flow, Held, Seen, Over
<1>3. Flow(r)'
  BY AtWork DEF Flows, Flow, Held, Seen, Over
<1>. QED
  BY <1>2, <1>3 DEF Flows

LEMMA LineWork ==
  ASSUME TypeOK, Shutdowns, Flows, NEW r \in Runs,
         command[r] \notin {"returned", "delivered"}, Line(r),
         NEW c, command' = [command EXCEPT ![r] = c],
         UNCHANGED <<reader, barriers, run, running, shown, program>>
  PROVE  Flows'
<1>. DEFINE e == <<"out", r>>
<1>0. e \in Event /\ Emit(e) /\ e # <<"barrier", r>>
  BY DEF Event, Line
<1>1. \A s \in Runs : s # r => command'[s] = command[s] /\ emitted'[s] = emitted[s]
  BY DEF TypeOK, WorkOK, Line
<1>2. emitted'[r] = emitted[r] + 1 /\ emitted[r] \in Nat /\ shown[r] \in Nat
  BY PromptAssumption DEF TypeOK, WorkOK, Line
<1>3. ASSUME NEW s \in Runs, s # r PROVE Flow(s)'
  <2>1. e \notin {<<"out", s>>, <<"barrier", s>>}
    BY <1>3
  <2>. QED
    BY <1>0, <1>1, <1>3, <2>1, OtherEmission DEF Flows
<1>4. Flow(r)'
  <2>1. ~HasBarrier(events, r) /\ reader # <<"barrier", r>> /\ ~Seen(r) /\ Flow(r)
    BY AtWork DEF Flows
  <2>2. CASE lifetimeDone /\ UNCHANGED events
    <3>1. program # "running"
      BY <2>2 DEF Shutdowns
    <3>. QED
      BY <2>1, <2>2, <3>1 DEF Flow, Seen, Over
  <2>3. CASE events' = Append(events, e)
    <3>1. events \in Seq(Event)
      BY DEF TypeOK, EventsOK
    <3>2. /\ ~HasBarrier(events', r)
          /\ BarrierLast(events, r) => BarrierLast(events', r)
          /\ Outs(events', r) = Outs(events, r) + 1
      <4>. HIDE DEF e
      <4>1. /\ HasBarrier(Append(events, e), r) <=> HasBarrier(events, r) \/ e = <<"barrier", r>>
            /\ BarrierLast(events, r) /\ (HasBarrier(events, r) => e \notin {<<"out", r>>, <<"barrier", r>>})
                 => BarrierLast(Append(events, e), r)
        BY <1>0, <3>1, OneMore
      <4>2. Outs(Append(events, e), r) = Outs(events, r) + (IF e = <<"out", r>> THEN 1 ELSE 0)
        BY <1>0, <3>1, OutsAppend
      <4>. QED
        BY <1>0, <2>1, <2>3, <4>1, <4>2 DEF e
    <3>3. Outs(events, r) \in Nat /\ Held(r) \in Nat
      BY <3>1, OutsType DEF Held
    <3>4. program = "running" => emitted'[r] = shown[r] + Held(r) + Outs(events', r)
      BY <1>2, <2>1, <3>2, <3>3 DEF Flow
    <3>. QED
      BY <2>1, <3>2, <3>4 DEF Flow, Held, Seen, Over
  <2>. QED
    BY <1>0, <2>2, <2>3 DEF Emit
<1>. QED
  BY <1>3, <1>4 DEF Flows

LEMMA BarrierWork ==
  ASSUME TypeOK, Flows, NEW r \in Runs, Barrier(r)
  PROVE  Flows'
<1>. DEFINE e == <<"barrier", r>>
<1>0. e \in Event /\ Emit(e) /\ e # <<"out", r>> /\ command[r] = "barrier"
  BY DEF Event, Barrier, Command
<1>1. /\ command'[r] = "returned" /\ \A s \in Runs : s # r => command'[s] = command[s]
      /\ UNCHANGED <<reader, barriers, run, running, shown, emitted, program>>
  BY DEF TypeOK, WorkOK, Barrier, Command, waiters, screen
<1>2. ASSUME NEW s \in Runs, s # r PROVE Flow(s)'
  <2>1. e \notin {<<"out", s>>, <<"barrier", s>>}
    BY <1>2
  <2>. QED
    BY <1>0, <1>1, <1>2, <2>1, OtherEmission DEF Flows
<1>3. Flow(r)'
  <2>1. ~HasBarrier(events, r) /\ reader # <<"barrier", r>> /\ ~Seen(r) /\ Flow(r)
    BY <1>0, AtWork DEF Flows
  <2>2. CASE UNCHANGED events
    BY <1>1, <2>1, <2>2 DEF Flow, Held, Seen, Over
  <2>3. CASE events' = Append(events, e)
    <3>1. events \in Seq(Event)
      BY DEF TypeOK, EventsOK
    <3>2. /\ BarrierLast(events, r) => BarrierLast(events', r)
          /\ Outs(events', r) = Outs(events, r)
      <4>. HIDE DEF e
      <4>1. BarrierLast(events, r) /\ (HasBarrier(events, r) => e \notin {<<"out", r>>, <<"barrier", r>>})
              => BarrierLast(Append(events, e), r)
        BY <1>0, <3>1, OneMore
      <4>2. Outs(Append(events, e), r) = Outs(events, r) + 0 /\ Outs(events, r) \in Nat
        BY <1>0, <3>1, OutsAppend, OutsType
      <4>. QED
        BY <2>1, <2>3, <4>1, <4>2
    <3>. QED
      BY <1>1, <2>1, <3>2 DEF Flow, Held, Seen, Over
  <2>. QED
    BY <1>0, <2>2, <2>3 DEF Emit
<1>. QED
  BY <1>2, <1>3 DEF Flows

LEMMA WorkFlows ==
  ASSUME TypeOK, Shutdowns, Flows, NEW r \in Runs, Work(r)
  PROVE  Flows'
<1>1. CASE Acquire(r)
  BY <1>1, QuietWork DEF Acquire, Command, waiters, screen
<1>2. CASE TooLate(r)
  BY <1>2, QuietWork DEF TooLate, Command, waiters, screen
<1>3. CASE Output(r)
  BY <1>3, LineWork DEF Output, Command, waiters, screen
<1>4. CASE Executed(r)
  BY <1>4, QuietWork DEF Executed, Command, waiters, screen
<1>5. CASE Flush(r)
  BY <1>5, LineWork, QuietWork DEF Flush, Command, waiters, screen
<1>6. CASE Barrier(r)
  BY <1>6, BarrierWork
<1>. QED
  BY <1>1, <1>2, <1>3, <1>4, <1>5, <1>6 DEF Work

LEMMA BeginFlows ==
  ASSUME TypeOK, Flows, Begin
  PROVE  Flows'
<1>1. CASE (StartupBegins \/ Connected) /\ Emit(<<"out", 0>>)
  <2>1. <<"out", 0>> \in Event
    BY DEF Event
  <2>2. UNCHANGED <<reader, barriers, run, running, program, command, emitted, shown>>
    BY <1>1 DEF StartupBegins, Connected, Startup, screen, waiters, work
  <2>3. ASSUME NEW r \in Runs PROVE Flow(r)'
    <3>1. <<"out", 0>> \notin {<<"out", r>>, <<"barrier", r>>}
      BY DEF Runs
    <3>. QED
      BY <1>1, <2>1, <2>2, <3>1, OtherEmission DEF Flows
  <2>. QED
    BY <2>3 DEF Flows
<1>2. CASE SetUp \/ ConnectFails
  BY <1>2, FlowsStill DEF SetUp, ConnectFails, Startup, screen, waiters, work
<1>3. CASE Ask \/ Answered
  BY <1>3, FlowsStill DEF Ask, Answered, screen, waiters, work
<1>. QED
  BY <1>1, <1>2, <1>3 DEF Begin, StartupBegins, Connected

LEMMA ReadFlows ==
  ASSUME TypeOK, Flows, Read
  PROVE  Flows'
<1>1. /\ events \in Seq(Event) /\ events # <<>> /\ events' = Tail(events)
      /\ reader = Armed /\ reader' = Head(events)
      /\ UNCHANGED <<barriers, run, running, program, command, emitted, shown>>
  BY DEF Read, TypeOK, EventsOK, screen, work
<1>2. ASSUME NEW r \in Runs PROVE Flow(r)'
  <2>1. /\ HasBarrier(events, r) <=> HasBarrier(events', r) \/ reader' = <<"barrier", r>>
        /\ NoOuts(events, r) <=> NoOuts(events', r) /\ reader' # <<"out", r>>
        /\ BarrierLast(events, r) => BarrierLast(events', r)
        /\ BarrierLast(events, r) /\ reader' = <<"barrier", r>> =>
             NoOuts(events', r) /\ ~HasBarrier(events', r)
    BY <1>1, OneLess
  <2>2. Outs(events, r) = Outs(events', r) + Held(r)'
    BY <1>1, OutsTail DEF Held
  <2>3. Held(r) = 0 /\ Held(r)' \in Nat /\ Outs(events', r) \in Nat
    <3>1. events' \in Seq(Event)
      BY <1>1
    <3>. QED
      BY <1>1, <3>1, OutsType DEF Held, Armed
  <2>4. shown[r] \in Nat
    BY DEF TypeOK, WorkOK
  <2>5. program = "running" => emitted[r] = shown[r] + Held(r)' + Outs(events', r)
    BY <2>2, <2>3, <2>4 DEF Flows, Flow
  <2>. QED
    BY <1>1, <2>1, <2>5 DEF Flows, Flow, Seen, Over
<1>. QED
  BY <1>2 DEF Flows

LEMMA EventMsgFlows ==
  ASSUME TypeOK, Flows, EventMsg
  PROVE  Flows'
<1>1. /\ reader \in {"out"} \X (Runs \cup {0}) /\ reader' = Armed
      /\ UNCHANGED <<events, barriers, run, running, program, command, emitted>>
  BY DEF EventMsg, Update, screen
<1>2. ASSUME NEW r \in Runs PROVE Flow(r)'
  <2>1. Held(r)' = 0 /\ reader' # <<"out", r>> /\ reader' # <<"barrier", r>>
    BY <1>1 DEF Held, Armed
  <2>2. shown'[r] = shown[r] + Held(r)
    <3>1. CASE reader = <<"out", r>>
      <4>1. reader[2] = r /\ r # 0
        BY <3>1 DEF Runs
      <4>. QED
        BY <3>1, <4>1 DEF EventMsg, Held, TypeOK, WorkOK
    <3>2. CASE reader # <<"out", r>>
      <4>1. reader[2] # r
        BY <1>1, <3>2
      <4>. QED
        BY <3>2, <4>1 DEF EventMsg, Held, TypeOK, WorkOK
    <3>. QED
      BY <3>1, <3>2
  <2>3. events \in Seq(Event) /\ shown[r] \in Nat
    BY DEF TypeOK, EventsOK, WorkOK
  <2>4. program = "running" => emitted[r] = shown'[r] + Held(r)' + Outs(events, r)
    <3>1. Outs(events, r) \in Nat /\ Held(r) \in Nat
      BY <2>3, OutsType DEF Held
    <3>. QED
      BY <2>1, <2>2, <2>3, <3>1 DEF Flows, Flow
  <2>. QED
    BY <1>1, <2>1, <2>4 DEF Flows, Flow, Seen, Over
<1>. QED
  BY <1>2 DEF Flows

(* The end of a command makes its turn over, and that it has been seen.    *)
LEMMA FinalizeSeen ==
  ASSUME TypeOK, Turns, NEW r \in Runs, NEW d, NEW b, Finalize(r, d, b),
         \A s \in d : running /\ s = run,
         NEW s \in Runs, Seen(s)'
  PROVE  Seen(s) \/ (s = r /\ r \in b) \/ s \in b
<1>1. CASE Final(r, d, b)
  <2>1. r = run /\ r \in b /\ barriers' = {} /\ run' = run
    BY <1>1 DEF Final, Finalize
  <2>2. s <= run
    BY <2>1 DEF Seen, Over
  <2>. QED
    BY <2>1, <2>2 DEF Seen, Over
<1>2. CASE ~Final(r, d, b)
  BY <1>2 DEF Finalize, Seen, Over
<1>. QED
  BY <1>1, <1>2

LEMMA BarrierMsgFlows ==
  ASSUME TypeOK, Turns, Flows, BarrierMsg
  PROVE  Flows'
<1>. DEFINE r == reader[2]
<1>1. /\ r \in Runs /\ reader = <<"barrier", r>> /\ reader' \in {Armed, Off}
      /\ Finalize(r, pendingDone, barriers \cup {r})
      /\ UNCHANGED <<events, program, command, emitted, shown>>
  BY DEF BarrierMsg, Update, Rearm, Finalize
<1>. HIDE DEF r
<1>2. ASSUME NEW s \in Runs PROVE Flow(s)'
  <2>1. Seen(s)' => Seen(s) \/ s = r
    <3>1. \A p \in pendingDone : running /\ p = run
      BY DEF Turns
    <3>2. Seen(s)' => Seen(s) \/ (s = r /\ r \in barriers \cup {r}) \/ s \in barriers \cup {r}
      BY <1>1, <3>1, FinalizeSeen
    <3>. QED
      BY <3>2 DEF Seen
  <2>2. reader' # <<"out", s>> /\ reader' # <<"barrier", s>> /\ Held(s) = 0 /\ Held(s)' = 0
    BY <1>1 DEF Held, Armed, Off
  <2>3. CASE s = r
    BY <1>1, <2>2, <2>3 DEF Flows, Flow
  <2>4. CASE s # r
    BY <1>1, <2>1, <2>2, <2>4 DEF Flows, Flow
  <2>. QED
    BY <2>3, <2>4
<1>. QED
  BY <1>2 DEF Flows

LEMMA CommandMsgFlows ==
  ASSUME TypeOK, Turns, Flows, NEW r \in Runs, CommandMsg(r)
  PROVE  Flows'
<1>1. /\ command[r] = "returned" /\ Finalize(r, pendingDone \cup {r}, barriers)
      /\ UNCHANGED <<events, reader, program, emitted, shown>>
  BY DEF CommandMsg, Update, Finalize
<1>2. command'[r] = "delivered" /\ \A s \in Runs : s # r => command'[s] = command[s]
  BY DEF CommandMsg, TypeOK, WorkOK
<1>3. ASSUME NEW s \in Runs PROVE Flow(s)'
  <2>1. Seen(s)' => Seen(s)
    <3>1. \A p \in pendingDone \cup {r} : running /\ p = run
      BY <1>1 DEF Turns
    <3>2. Seen(s)' => Seen(s) \/ (s = r /\ r \in barriers) \/ s \in barriers
      BY <1>1, <3>1, FinalizeSeen
    <3>. QED
      BY <3>2 DEF Seen
  <2>2. command[s] \in {"returned", "delivered"} => command'[s] \in {"returned", "delivered"}
    BY <1>2
  <2>. QED
    BY <1>1, <2>1, <2>2 DEF Flows, Flow, Held
<1>. QED
  BY <1>3 DEF Flows

LEMMA SubmitFlows ==
  ASSUME TypeOK, Turns, Flows, Submit
  PROVE  Flows'
<1>1. /\ ~running /\ run' = run + 1 /\ run' \in Runs /\ running' = TRUE
      /\ UNCHANGED <<events, reader, barriers, program, emitted, shown>>
  BY RunsAreNumbers DEF Submit, Update, MaySubmit, Runs, waiters
<1>2. command'[run'] = "built" /\ \A s \in Runs : s # run' => command'[s] = command[s]
  BY <1>1 DEF Submit, TypeOK, WorkOK
<1>3. command[run'] = "none"
  <2>1. run' > run
    BY <1>1, RunsAreNumbers
  <2>. QED
    BY <1>1, <2>1 DEF Turns
<1>4. ASSUME NEW s \in Runs PROVE Seen(s)' => Seen(s)
  BY <1>1, RunsAreNumbers DEF Seen, Over
<1>5. ASSUME NEW s \in Runs, s # run' PROVE Flow(s)'
  BY <1>1, <1>2, <1>4, <1>5 DEF Flows, Flow, Held
<1>6. ASSUME NEW s \in Runs, s = run' PROVE Flow(s)'
  <2>1. ~HasBarrier(events, s) /\ reader # <<"barrier", s>> /\ ~Seen(s)
    <3>1. command[s] \notin {"returned", "delivered"}
      BY <1>3, <1>6
    <3>. QED
      BY <3>1, AtWork
  <2>2. ~Seen(s)'
    BY <1>4, <2>1
  <2>. QED
    BY <1>1, <2>1, <2>2 DEF Flows, Flow, Held
<1>. QED
  BY <1>5, <1>6 DEF Flows

LEMMA DrainFlows ==
  ASSUME TypeOK, Shutdowns, Flows, DrainEvent
  PROVE  Flows'
<1>1. /\ events \in Seq(Event) /\ events # <<>> /\ events' = Tail(events)
      /\ UNCHANGED <<reader, barriers, run, running, program, command, emitted, shown>>
  BY DEF DrainEvent, TypeOK, EventsOK, screen, waiters, work
<1>2. program # "running"
  BY DEF DrainEvent, Shutdowns
<1>3. ASSUME NEW r \in Runs PROVE Flow(r)'
  <2>1. /\ HasBarrier(events', r) => HasBarrier(events, r)
        /\ NoOuts(events, r) => NoOuts(events', r)
        /\ BarrierLast(events, r) => BarrierLast(events', r)
    BY <1>1, OneLess
  <2>. QED
    BY <1>1, <1>2, <2>1 DEF Flows, Flow, Seen, Over
<1>. QED
  BY <1>3 DEF Flows

LEMMA StepFlows ==
  ASSUME TypeOK, Turns, Shutdowns, Flows, [Next]_vars PROVE Flows'
<1>1. CASE StartupMsg \/ AuthMsg \/ ContextMsg \/ QuitMsg
  BY <1>1, FlowsStill DEF StartupMsg, AuthMsg, ContextMsg, QuitMsg, Update, Ends, screen,
                          waiters, work
<1>2. CASE Interrupt \/ EnterCode \/ Key \/ Abort
  BY <1>2, FlowsStill DEF Interrupt, EnterCode, Key, Abort, Update, Ends, screen, waiters,
                          work
<1>3. CASE Shut \/ CommandJoined \/ Return
  BY <1>3, FlowsStill DEF Shut, CommandJoined, Return, screen, waiters, work
<1>4. CASE UNCHANGED vars
  BY <1>4, FlowsStill DEF vars, screen, waiters, work
<1>. QED
  BY <1>1, <1>2, <1>3, <1>4, BeginFlows, WorkFlows, ReadFlows, EventMsgFlows,
     BarrierMsgFlows, CommandMsgFlows, SubmitFlows, DrainFlows
     DEF Next, Screen, User, Shutdown

-----------------------------------------------------------------------------
LEMMA InitSound == Init => Sound
<1>. SUFFICES ASSUME Init PROVE Sound
  OBVIOUS
<1>1. TypeOK
  <2>1. ContextsOK /\ WaitersOK
    BY DEF Init, ContextsOK, WaitersOK
  <2>2. ScreenOK
    <3>1. run \in 0..MaxRuns /\ finished \in Seq(Runs \X Err)
      BY PromptAssumption DEF Init
    <3>. QED
      BY <3>1 DEF Init, ScreenOK
  <2>3. WorkOK /\ EventsOK
    BY PromptAssumption DEF Init, WorkOK, EventsOK, Err
  <2>. QED
    BY <2>1, <2>2, <2>3 DEF TypeOK
<1>2. Turns
  BY PromptAssumption DEF Init, Turns, OwnResults, Runs
<1>3. Shutdowns
  BY DEF Init, Shutdowns, Joined
<1>4. Flows
  <2>1. events = <<>> /\ Len(events) = 0 /\ events \in Seq(Event)
    BY DEF Init
  <2>2. ASSUME NEW r \in Runs PROVE Flow(r)
    <3>1. NoOuts(events, r) /\ ~HasBarrier(events, r) /\ BarrierLast(events, r)
      BY <2>1 DEF NoOuts, HasBarrier, BarrierLast
    <3>2. Outs(events, r) = 0
      BY <2>1, <3>1, OutsType
    <3>3. ~Seen(r) /\ Held(r) = 0 /\ reader = Armed
      BY PromptAssumption DEF Init, Seen, Over, Held, Armed, Runs
    <3>4. emitted[r] = 0 /\ shown[r] = 0
      BY DEF Init
    <3>. QED
      BY <3>1, <3>2, <3>3, <3>4 DEF Flow, Armed
  <2>. QED
    BY <2>2 DEF Flows
<1>. QED
  BY <1>1, <1>2, <1>3, <1>4 DEF Sound

(* The inductive invariant of the prompt: whose turn it is, what the       *)
(* shutdown has waited for, and where the output of each command is.       *)
THEOREM AlwaysSound == Spec => []Sound
<1>1. Sound /\ [Next]_vars => Sound'
  BY StepTyped, StepTurns, StepShutdowns, StepFlows DEF Sound
<1>. QED
  BY <1>1, InitSound, PTL DEF Spec

(* Every variable keeps its type.                                          *)
THEOREM PromptTypeCorrect == Spec => []TypeOK
<1>1. Sound => TypeOK
  BY DEF Sound
<1>. QED
  BY <1>1, AlwaysSound, PTL

(* Two commands of the prompt are never at work at once, although          *)
(* promptCommandGate is free before one has closed, and the screen shows   *)
(* the result of each, once, in the order of the lines.                    *)
THEOREM ResultsInOrder == Spec => []OwnResults
<1>1. Sound => OwnResults
  BY DEF Sound, Turns
<1>. QED
  BY <1>1, AlwaysSound, PTL

(* When runPromptTUI returns, no startup and no command is at work or can  *)
(* begin.                                                                  *)
THEOREM NothingLeftAtWork == Spec => []Joined
<1>1. Sound => Joined
  BY DEF Sound, Shutdowns
<1>. QED
  BY <1>1, AlwaysSound, PTL

(* A free prompt has all the output of the earlier commands above it: the  *)
(* barrier of a command comes behind its output, and finalizeCommand waits *)
(* for it.                                                                 *)
THEOREM PromptBelowOutput == Spec => []OutputBeforePrompt
<1>1. ASSUME Sound, program = "running", ~running, NEW r \in 1..run
      PROVE  /\ shown[r] = emitted[r]
             /\ \A i \in 1..Len(events) : events[i][2] # r
             /\ reader \notin {"out", "barrier"} \X {r}
  <2>1. r \in Runs /\ Seen(r) /\ events \in Seq(Event) /\ shown[r] \in Nat
    <3>1. run \in 0..MaxRuns /\ MaxRuns \in Nat
      BY <1>1, PromptAssumption DEF Sound, TypeOK, ScreenOK
    <3>2. r \in Runs /\ r <= run
      BY <3>1 DEF Runs
    <3>. QED
      BY <1>1, <3>2 DEF Sound, TypeOK, WorkOK, EventsOK, Seen, Over
  <2>2. /\ Flow(r) /\ NoOuts(events, r) /\ ~HasBarrier(events, r)
        /\ reader # <<"out", r>> /\ reader # <<"barrier", r>>
    BY <1>1, <2>1 DEF Sound, Flows, Flow
  <2>3. shown[r] = emitted[r]
    <3>1. Outs(events, r) = 0 /\ Held(r) = 0
      BY <2>1, <2>2, OutsType DEF Held
    <3>. QED
      BY <1>1, <2>1, <2>2, <3>1 DEF Flow
  <2>4. ASSUME NEW i \in 1..Len(events) PROVE events[i][2] # r
    <3>1. events[i] \in {"out", "barrier"} \X (Runs \cup {0})
      BY <2>1 DEF Event
    <3>2. events[i] # <<"out", r>> /\ events[i] # <<"barrier", r>>
      BY <2>2 DEF NoOuts, HasBarrier
    <3>. QED
      BY <3>1, <3>2
  <2>. QED
    BY <2>2, <2>3, <2>4
<1>2. Sound => OutputBeforePrompt
  BY <1>1 DEF OutputBeforePrompt
<1>. QED
  BY <1>2, AlwaysSound, PTL

-----------------------------------------------------------------------------
(* Least and greatest.                                                     *)
LEMMA OfTwo ==
  ASSUME NEW a \in Int, NEW b \in Int
  PROVE  /\ Max({a, b}) = IF a >= b THEN a ELSE b
         /\ Min({a, b}) = IF a <= b THEN a ELSE b
<1>1. \A m : m \in {a, b} /\ (\A y \in {a, b} : m >= y) => m = IF a >= b THEN a ELSE b
  OBVIOUS
<1>2. \E m \in {a, b} : \A y \in {a, b} : m >= y
  <2>1. CASE a >= b
    BY <2>1
  <2>2. CASE ~(a >= b)
    BY <2>2
  <2> QED
    BY <2>1, <2>2
<1>3. \A m : m \in {a, b} /\ (\A y \in {a, b} : m <= y) => m = IF a <= b THEN a ELSE b
  OBVIOUS
<1>4. \E m \in {a, b} : \A y \in {a, b} : m <= y
  <2>1. CASE a <= b
    BY <2>1
  <2>2. CASE ~(a <= b)
    BY <2>2
  <2> QED
    BY <2>1, <2>2
<1>5. Max({a, b}) = IF a >= b THEN a ELSE b
  BY <1>1, <1>2 DEF Max
<1>6. Min({a, b}) = IF a <= b THEN a ELSE b
  BY <1>3, <1>4 DEF Min
<1> QED
  BY <1>5, <1>6

(* A set of numbers has a least member, and one that is bounded a          *)
(* greatest.                                                               *)
LEMMA Least ==
  ASSUME NEW S \in SUBSET Nat, S # {}
  PROVE  Min(S) \in S /\ \A m \in S : Min(S) <= m
<1> DEFINE R == OpToRel(<, Nat)
<1>1. IsWellFoundedOn(R, Nat)
  BY NatLessThanWellFounded
<1>2. \A x, y \in Nat : <<x, y>> \in R <=> x < y
  BY DEF OpToRel
<1> HIDE DEF R
<1>3. PICK n \in S : \A m \in S : ~ (<<m, n>> \in R)
  BY <1>1, WFMin
<1>4. \A m \in S : m \in Nat /\ n \in Nat /\ ~(m < n)
  BY <1>2, <1>3
<1>5. \A m \in S : n <= m
  BY <1>4
<1> QED
  BY <1>5 DEF Min

LEMMA Greatest ==
  ASSUME NEW n \in Nat, NEW S \in SUBSET (0..n), S # {}
  PROVE  Max(S) \in S /\ \A m \in S : m <= Max(S)
<1> DEFINE D == {k \in Nat : n - k \in S}
<1>1. PICK x \in S : TRUE
  OBVIOUS
<1>2. n - x \in D
  <2>1. x \in 0..n /\ n - x \in Nat /\ n - (n - x) = x
    BY <1>1
  <2> QED
    BY <2>1
<1>3. D \in SUBSET Nat /\ D # {}
  BY <1>2
<1>4. PICK k \in D : \A j \in D : k <= j
  BY <1>3, Least
<1>5. n - k \in S /\ k \in Nat
  BY <1>4
<1>6. ASSUME NEW y \in S PROVE n - k >= y
  <2>1. y \in 0..n /\ n - y \in Nat /\ n - (n - y) = y
    OBVIOUS
  <2>2. n - y \in D
    BY <2>1
  <2>3. k <= n - y
    BY <1>4, <2>2
  <2> HIDE DEF D
  <2> QED
    BY <1>5, <2>1, <2>3
<1>7. \E m \in S : \A y \in S : m >= y
  BY <1>5, <1>6
<1>8. Max(S) \in S /\ \A y \in S : Max(S) >= y
  BY <1>7 DEF Max
<1>9. Max(S) \in 0..n /\ \A y \in S : y \in 0..n
  BY <1>8
<1>10. \A a, b \in 0..n : a >= b => b <= a
  OBVIOUS
<1> QED
  BY <1>8, <1>9, <1>10

-----------------------------------------------------------------------------
(* A set of naturals that has 0 and the successor of each of its members   *)
(* has all: induction, about sets.                                         *)
LEMMA AllNaturals ==
  ASSUME NEW S \in SUBSET Nat, 0 \in S, \A n \in S : n + 1 \in S
  PROVE  S = Nat
<1> SUFFICES ASSUME Nat \ S # {} PROVE FALSE
  OBVIOUS
<1>1. PICK n \in Nat \ S : \A m \in Nat \ S : n <= m
  BY Least
<1>2. n # 0 /\ n - 1 \in Nat
  BY <1>1
<1>3. n - 1 \in S
  BY <1>1, <1>2
<1> QED
  BY <1>1, <1>2, <1>3

(* What FlattenSeq has joined after each of the parts.                     *)
Joins(f, parts, n) ==
  f = [i \in 1..n |-> IF i = 1 THEN parts[i] ELSE f[i - 1] \o parts[i]]

(* What is joined so far can be joined with one part more.                 *)
LEMMA OneMoreJoined ==
  ASSUME NEW parts, NEW n \in Nat, NEW f, Joins(f, parts, n)
  PROVE  \E g : Joins(g, parts, n + 1)
<1> DEFINE g == [i \in 1..(n + 1) |-> IF i = 1 THEN parts[i] ELSE f[i - 1] \o parts[i]]
<1>1. \A i \in 1..(n + 1) : g[i] = IF i = 1 THEN parts[i] ELSE f[i - 1] \o parts[i]
  OBVIOUS
<1>2. g = [i \in 1..(n + 1) |-> g[i]]
  OBVIOUS
<1> HIDE DEF g
<1>3. ASSUME NEW i \in 1..n PROVE f[i] = g[i]
  <2>1. f[i] = IF i = 1 THEN parts[i] ELSE f[i - 1] \o parts[i]
    BY DEF Joins
  <2>2. i \in 1..(n + 1)
    OBVIOUS
  <2> QED
    BY <1>1, <2>1, <2>2
<1>4. ASSUME NEW i \in 1..(n + 1)
      PROVE  g[i] = IF i = 1 THEN parts[i] ELSE g[i - 1] \o parts[i]
  <2>1. i # 1 => i - 1 \in 1..n
    OBVIOUS
  <2> QED
    BY <1>1, <1>3, <2>1
<1>5. g = [i \in 1..(n + 1) |-> IF i = 1 THEN parts[i] ELSE g[i - 1] \o parts[i]]
  BY <1>2, <1>4
<1> QED
  BY <1>5 DEF Joins

(* So any number of parts can be joined.                                   *)
LEMMA Joinable ==
  ASSUME NEW parts, NEW n \in Nat
  PROVE  \E f : Joins(f, parts, n)
<1> DEFINE N == {m \in Nat : \E f : Joins(f, parts, m)}
<1>1. 0 \in N
  <2> DEFINE f == [i \in 1..0 |-> parts[i]]
  <2>1. 1..0 = {}
    OBVIOUS
  <2>2. f = [i \in 1..0 |-> IF i = 1 THEN parts[i] ELSE f[i - 1] \o parts[i]]
    BY <2>1
  <2> HIDE DEF f
  <2> QED
    BY <2>2 DEF Joins
<1>2. ASSUME NEW m \in N PROVE m + 1 \in N
  BY OneMoreJoined
<1>3. N \in SUBSET Nat
  OBVIOUS
<1> HIDE DEF N
<1>4. N = Nat
  BY <1>1, <1>2, <1>3, AllNaturals
<1> QED
  BY <1>4 DEF N

(* FlattenSeq joins all of its parts.                                      *)
LEMMA FlattenJoins ==
  ASSUME NEW T, NEW parts \in Seq(T), parts # <<>>
  PROVE  \E f : Joins(f, parts, Len(parts)) /\ FlattenSeq(parts) = f[Len(parts)]
<1> DEFINE Is(f) == f = [i \in 1..Len(parts) |->
                            IF i = 1 THEN parts[i] ELSE f[i - 1] \o parts[i]]
           f0 == CHOOSE f : Is(f)
<1>1. Len(parts) \in Nat \ {0}
  OBVIOUS
<1>2. PICK f : Joins(f, parts, Len(parts))
  BY <1>1, Joinable
<1>3. Is(f)
  BY <1>2 DEF Joins
<1>4. Is(f0)
  <2> HIDE DEF Is
  <2> QED
    BY <1>3
<1>5. FlattenSeq(parts) = f0[Len(parts)]
  BY <1>1 DEF FlattenSeq
<1>6. Joins(f0, parts, Len(parts))
  <2> HIDE DEF f0
  <2> QED
    BY <1>4 DEF Joins
<1> QED
  BY <1>5, <1>6

(* Parts of one kind give a whole of that kind.                            *)
LEMMA FlattenTyped ==
  ASSUME NEW T, NEW parts \in Seq(Seq(T))
  PROVE  FlattenSeq(parts) \in Seq(T)
<1>1. CASE parts = <<>>
  BY <1>1 DEF FlattenSeq
<1>2. CASE parts # <<>>
  <2>1. PICK f : Joins(f, parts, Len(parts)) /\ FlattenSeq(parts) = f[Len(parts)]
    BY <1>2, FlattenJoins
  <2> DEFINE N == {n \in Nat : n + 1 <= Len(parts) => f[n + 1] \in Seq(T)}
  <2>2. Len(parts) \in Nat \ {0} /\ \A i \in 1..Len(parts) : parts[i] \in Seq(T)
    BY <1>2
  <2>3. \A i \in 1..Len(parts) : f[i] = IF i = 1 THEN parts[i] ELSE f[i - 1] \o parts[i]
    BY <2>1 DEF Joins
  <2>4. 0 \in N
    BY <2>2, <2>3
  <2>5. ASSUME NEW n \in N PROVE n + 1 \in N
    <3>1. ASSUME (n + 1) + 1 <= Len(parts) PROVE f[(n + 1) + 1] \in Seq(T)
      <4>1. n + 1 \in 1..Len(parts) /\ (n + 1) + 1 \in 1..Len(parts)
        BY <2>2, <3>1
      <4>2. f[n + 1] \in Seq(T)
        BY <4>1
      <4>3. ((n + 1) + 1) - 1 = n + 1 /\ (n + 1) + 1 # 1
        BY <4>1
      <4>4. f[(n + 1) + 1] = f[n + 1] \o parts[(n + 1) + 1]
        BY <2>3, <4>1, <4>3
      <4>5. parts[(n + 1) + 1] \in Seq(T)
        BY <2>2, <4>1
      <4> QED
        BY <4>2, <4>4, <4>5
    <3> QED
      BY <3>1
  <2>6. N \in SUBSET Nat
    OBVIOUS
  <2> HIDE DEF N
  <2>7. N = Nat
    BY <2>4, <2>5, <2>6, AllNaturals
  <2>8. Len(parts) - 1 \in N
    BY <2>2, <2>7
  <2>9. f[Len(parts)] \in Seq(T)
    BY <2>2, <2>8 DEF N
  <2> QED
    BY <2>1, <2>9
<1> QED
  BY <1>1, <1>2

(* What is kept of a sequence is of its kind.                              *)
LEMMA KeptTyped ==
  ASSUME NEW T, NEW U, NEW s \in Seq(T), NEW kept, \A i \in kept : s[i] \in U
  PROVE  Keeping(s, kept) \in Seq(U)
<1> DEFINE parts == [i \in DOMAIN s |-> IF i \in kept THEN <<s[i]>> ELSE <<>>]
<1>1. DOMAIN s = 1..Len(s) /\ Len(s) \in Nat
  OBVIOUS
<1>2. \A i \in 1..Len(s) : (IF i \in kept THEN <<s[i]>> ELSE <<>>) \in Seq(U)
  OBVIOUS
<1>3. parts \in Seq(Seq(U))
  BY <1>1, <1>2
<1> HIDE DEF parts
<1>4. FlattenSeq(parts) \in Seq(U)
  BY <1>3, FlattenTyped
<1> QED
  BY <1>4 DEF Keeping, parts

(* The parts of length one, joined, are the sequence.                      *)

LEMMA KeepingTyped ==
  ASSUME NEW T, NEW s \in Seq(T), NEW kept
  PROVE  Keeping(s, kept) \in Seq(T)
<1> DEFINE in == kept \cap DOMAIN s
<1>1. \A i \in in : s[i] \in T
  OBVIOUS
<1>2. Keeping(s, kept) = Keeping(s, in)
  <2>1. [i \in DOMAIN s |-> IF i \in kept THEN <<s[i]>> ELSE <<>>]
          = [i \in DOMAIN s |-> IF i \in in THEN <<s[i]>> ELSE <<>>]
    OBVIOUS
  <2> QED
    BY <2>1 DEF Keeping
<1> HIDE DEF in
<1> QED
  BY <1>1, <1>2, KeptTyped

LEMMA KeepingAll ==
  ASSUME NEW T, NEW s \in Seq(T)
  PROVE  Keeping(s, DOMAIN s) = s
<1> DEFINE parts == [i \in DOMAIN s |-> IF i \in DOMAIN s THEN <<s[i]>> ELSE <<>>]
<1>1. DOMAIN s = 1..Len(s) /\ Len(s) \in Nat /\ \A i \in 1..Len(s) : s[i] \in T
  OBVIOUS
<1>2. \A i \in 1..Len(s) : <<s[i]>> \in Seq(T)
  BY <1>1
<1>3. /\ parts \in Seq(Seq(T)) /\ Len(parts) = Len(s)
      /\ \A i \in 1..Len(s) : parts[i] = <<s[i]>>
  BY <1>1, <1>2
<1> HIDE DEF parts
<1>4. Keeping(s, DOMAIN s) = FlattenSeq(parts)
  BY DEF Keeping, parts
<1>5. CASE s = <<>>
  <2>1. Len(parts) = 0
    BY <1>3, <1>5
  <2>2. parts = <<>>
    BY <1>3, <2>1
  <2> QED
    BY <1>4, <1>5, <2>1, <2>2 DEF FlattenSeq
<1>6. CASE s # <<>>
  <2>1. Len(s) \in Nat \ {0} /\ parts # <<>>
    BY <1>1, <1>3, <1>6
  <2>2. PICK f : Joins(f, parts, Len(parts)) /\ FlattenSeq(parts) = f[Len(parts)]
    BY <1>3, <2>1, FlattenJoins
  <2>3. \A i \in 1..Len(s) : f[i] = IF i = 1 THEN <<s[i]>> ELSE f[i - 1] \o <<s[i]>>
    BY <1>3, <2>2 DEF Joins
  <2> DEFINE N == {n \in Nat : n + 1 <= Len(s) => f[n + 1] = SubSeq(s, 1, n + 1)}
  <2>4. 0 \in N
    <3>1. 1 \in 1..Len(s)
      BY <2>1
    <3>2. f[1] = <<s[1]>>
      BY <2>3, <3>1
    <3>3. SubSeq(s, 1, 1) = SubSeq(s, 1, 1 - 1) \o <<s[1]>>
      BY <3>1, SubSeqRecursiveSecond
    <3>4. SubSeq(s, 1, 1 - 1) = <<>>
      BY SubSeqEmpty
    <3>5. <<>> \o <<s[1]>> = <<s[1]>>
      BY <1>2, <3>1, ConcatEmptySeq
    <3> QED
      BY <3>2, <3>3, <3>4, <3>5
  <2>5. ASSUME NEW n \in N PROVE n + 1 \in N
    <3>1. ASSUME (n + 1) + 1 <= Len(s) PROVE f[(n + 1) + 1] = SubSeq(s, 1, (n + 1) + 1)
      <4>1. n + 1 \in 1..Len(s) /\ (n + 1) + 1 \in 1..Len(s)
        BY <2>1, <3>1
      <4>2. f[n + 1] = SubSeq(s, 1, n + 1)
        BY <4>1
      <4>3. ((n + 1) + 1) - 1 = n + 1 /\ (n + 1) + 1 # 1
        BY <4>1
      <4>4. f[(n + 1) + 1] = f[n + 1] \o <<s[(n + 1) + 1]>>
        BY <2>3, <4>1, <4>3
      <4>5. SubSeq(s, 1, (n + 1) + 1) = SubSeq(s, 1, ((n + 1) + 1) - 1) \o <<s[(n + 1) + 1]>>
        BY <4>1, SubSeqRecursiveSecond
      <4> QED
        BY <4>2, <4>3, <4>4, <4>5
    <3> QED
      BY <3>1
  <2>6. N \in SUBSET Nat
    OBVIOUS
  <2> HIDE DEF N
  <2>7. N = Nat
    BY <2>4, <2>5, <2>6, AllNaturals
  <2>8. Len(s) - 1 \in N
    BY <2>1, <2>7
  <2>9. f[Len(s)] = SubSeq(s, 1, Len(s))
    BY <2>1, <2>8 DEF N
  <2> QED
    BY <1>3, <1>4, <2>2, <2>9, SubSeqFull
<1> QED
  BY <1>5, <1>6

-----------------------------------------------------------------------------
(* The words of a line.                                                    *)
Tokens == [value : Text, rawStart : Int, rawEnd : Int, start : Int, end : Int,
           quoted : BOOLEAN, quoteClosed : BOOLEAN]

(* Texts are sequences.                                                    *)
LEMMA TextBasics ==
  ASSUME NEW text \in Text
  PROVE  Len(text) \in Nat /\ DOMAIN text = 1..Len(text) /\ \A i \in 1..Len(text) : text[i] \in Alphabet
BY DEF Text

(* A word stands for a text, and its places are numbers                    *)
(* (splitPromptCompletionTokens).                                          *)
LEMMA ValueTyped ==
  ASSUME NEW text \in Text, NEW first \in 1..Len(text), NEW last \in first..Len(text)
  PROVE  Value(text, first, last) \in Text
<1> DEFINE Kept(i) == text[i] # Quote \/ Paired(text, i)
           n == last - first + 1
           Part(k) == IF Kept(first + k - 1) THEN <<text[first + k - 1]>> ELSE <<>>
           parts == [k \in 1..n |-> Part(k)]
<1>1. n \in Nat
  BY TextBasics
<1>2. ASSUME NEW k \in 1..n PROVE Part(k) \in Seq(Alphabet)
  <2>1. first + k - 1 \in 1..Len(text)
    BY TextBasics
  <2>2. text[first + k - 1] \in Alphabet
    BY <2>1, TextBasics
  <2>3. <<text[first + k - 1]>> \in Seq(Alphabet) /\ <<>> \in Seq(Alphabet)
    BY <2>2
  <2> HIDE DEF Kept
  <2> QED
    BY <2>3
<1> HIDE DEF n, Part
<1>4. parts \in Seq(Seq(Alphabet))
  BY <1>1, <1>2
<1> HIDE DEF parts
<1>5. FlattenSeq(parts) \in Seq(Alphabet)
  BY <1>4, FlattenTyped
<1> QED
  BY <1>5 DEF Value, parts, Part, n, Kept, Text

LEMMA EndTyped ==
  ASSUME NEW text \in Text, NEW first \in 1..Len(text), NEW last \in first..Len(text), NEW begin \in Int
  PROVE  End(text, first, last, begin) \in Int
<1> DEFINE at == {i \in first..last : text[i] # Quote \/ Inside(text, i)}
           i == Max(at)
<1>1. at \in SUBSET (0..Len(text)) /\ Len(text) \in Nat
  BY TextBasics
<1>2. CASE at = {}
  BY <1>2 DEF End
<1>3. CASE at # {}
  <2>1. i \in at
    <3> HIDE DEF at
    <3> QED
      BY <1>1, <1>3, Greatest
  <2>2. i \in Int /\ (text[i] # Quote \/ Inside(text, i))
    BY <2>1
  <2>3. Max({begin, i - 1}) \in Int
    <3> HIDE DEF i
    <3> QED
      BY <2>2, OfTwo
  <2>4. text[i] # Quote \/ Paired(text, i) \/ Closing(text, i)
    BY <2>2 DEF Closing
  <2>5. End(text, first, last, begin) =
          CASE at = {} -> begin
            [] at # {} /\ text[i] # Quote -> i
            [] at # {} /\ Paired(text, i) -> i + 1
            [] at # {} /\ Closing(text, i) -> Max({begin, i - 1})
    BY DEF End
  <2>6. Paired(text, i) => text[i] = Quote
    BY DEF Paired
  <2>7. Closing(text, i) => text[i] = Quote /\ ~Paired(text, i)
    BY DEF Closing
  <2> HIDE DEF at, i
  <2> QED
    BY <1>3, <2>2, <2>3, <2>4, <2>5, <2>6, <2>7
<1> QED
  BY <1>2, <1>3

LEMMA TokenTyped ==
  ASSUME NEW text \in Text, NEW first \in 1..Len(text), NEW last \in first..Len(text)
  PROVE  Token(text, first, last) \in Tokens
<1> DEFINE begin == IF text[first] = Quote THEN first ELSE first - 1
<1>1. begin \in Int /\ first - 1 \in Int /\ last \in Int
  OBVIOUS
<1>2. Value(text, first, last) \in Text
  BY ValueTyped
<1>3. End(text, first, last, begin) \in Int
  <2> HIDE DEF begin
  <2> QED
    BY <1>1, EndTyped
<1> QED
  BY <1>1, <1>2, <1>3 DEF Token, Tokens

(* So do the words of a line, and the active one.                          *)
LEMMA SplitTokensTyped ==
  ASSUME NEW text \in Text
  PROVE  SplitTokens(text) \in Seq(Tokens)
<1> DEFINE word == {i \in DOMAIN text : ~Blank(text, i)}
           Ahead(i) == {j \in word : j >= i /\ i..j \subseteq word}
           parts == [i \in DOMAIN text |->
                       IF i \in word /\ i - 1 \notin word THEN <<Token(text, i, Max(Ahead(i)))>> ELSE <<>>]
<1>1. Len(text) \in Nat /\ DOMAIN text = 1..Len(text)
  BY TextBasics
<1>2. ASSUME NEW i \in 1..Len(text), i \in word
      PROVE  <<Token(text, i, Max(Ahead(i)))>> \in Seq(Tokens)
  <2>1. i \in Ahead(i) /\ Ahead(i) \in SUBSET (0..Len(text)) /\ \A j \in Ahead(i) : j \in i..Len(text)
    <3>1. \A j \in i..i : j = i
      OBVIOUS
    <3>2. word \subseteq 1..Len(text)
      BY <1>1
    <3> HIDE DEF word
    <3>3. i >= i /\ i..i \subseteq word
      BY <1>1, <1>2, <3>1
    <3>4. \A j \in Ahead(i) : j \in 1..Len(text) /\ j >= i
      BY <3>2
    <3>5. \A j \in Ahead(i) : j \in 0..Len(text) /\ j \in i..Len(text)
      BY <1>1, <3>4
    <3> QED
      BY <1>2, <3>3, <3>5
  <2> HIDE DEF Ahead
  <2>2. Max(Ahead(i)) \in Ahead(i)
    BY <1>1, <2>1, Greatest
  <2>3. Max(Ahead(i)) \in i..Len(text)
    BY <2>1, <2>2
  <2>4. Token(text, i, Max(Ahead(i))) \in Tokens
    BY <2>3, TokenTyped
  <2> QED
    BY <2>4
<1>3. SplitTokens(text) = FlattenSeq(parts)
  BY DEF SplitTokens
<1> HIDE DEF Ahead, word
<1>4. parts \in Seq(Seq(Tokens))
  BY <1>1, <1>2
<1> HIDE DEF parts
<1> QED
  BY <1>3, <1>4, FlattenTyped

LEMMA ActiveTokenTyped ==
  ASSUME NEW tokens \in Seq(Tokens), NEW at \in Nat
  PROVE  ActiveToken(tokens, at) \in Tokens
<1> DEFINE touching == {i \in DOMAIN tokens : tokens[i].rawStart <= at /\ at <= tokens[i].rawEnd}
<1>1. touching \in SUBSET Nat /\ touching \subseteq 1..Len(tokens)
  OBVIOUS
<1>2. CASE touching = {}
  BY <1>2 DEF ActiveToken, Tokens, Text
<1>3. CASE touching # {}
  <2>1. Min(touching) \in touching
    <3> HIDE DEF touching
    <3> QED
      BY <1>1, <1>3, Least
  <2>2. Min(touching) \in 1..Len(tokens)
    BY <1>1, <2>1
  <2>3. tokens[Min(touching)] \in Tokens
    BY <2>2, ElementOfSeq
  <2>4. ActiveToken(tokens, at) = tokens[Min(touching)]
    BY <1>3 DEF ActiveToken
  <2> QED
    BY <2>3, <2>4
<1> QED
  BY <1>2, <1>3

-----------------------------------------------------------------------------
(* The peers.                                                              *)
Place == DOMAIN Peers

LEMMA PeerBasics ==
  ASSUME NEW i \in Place
  PROVE  /\ Peers[i].name \in Text /\ Peers[i].id \in Text
         /\ Peers[i].aliases \subseteq Text /\ Peers[i].name \in Peers[i].aliases
         /\ Peers[i].name # <<>> /\ Peers[i].id # <<>>
         /\ Peers[i].id \in Known /\ Head(Peers[i].name) # Space
         /\ Last(Peers[i].name) # Space
         /\ \A k \in 2..Len(Peers[i].name) : Peers[i].name[k] = Space => Peers[i].name[k - 1] # Space
<1> DEFINE R == [name : Text, aliases : SUBSET Text, id : Text, kind : Kinds]
<1>1. Peers \in Seq(R)
  BY CompletionAssumption
<1>2. i \in 1..Len(Peers)
  BY <1>1, LenProperties DEF Place
<1>3. Peers[i] \in R
  <2> HIDE DEF R
  <2> QED
    BY <1>1, <1>2, ElementOfSeq
<1>4. Peers[i].name \in Text /\ Peers[i].id \in Text /\ Peers[i].aliases \subseteq Text
  BY <1>3
<1> QED
  BY <1>4, CompletionAssumption DEF Place

(* A text with something else at both ends is left as it is.               *)
LEMMA NothingStripped ==
  ASSUME NEW text \in Text, text # <<>>, NEW c, Head(text) # c, Last(text) # c
  PROVE  Stripped(text, c) = text
<1> DEFINE kept == {i \in DOMAIN text : text[i] # c}
<1>1. /\ Len(text) \in Nat \ {0} /\ DOMAIN text = 1..Len(text)
      /\ text[1] # c /\ text[Len(text)] # c
  BY DEF Text, Last
<1>2. 1 \in kept /\ Len(text) \in kept
  BY <1>1
<1>3. kept \in SUBSET Nat /\ kept \in SUBSET (0..Len(text)) /\ \A m \in kept : m \in 1..Len(text)
  BY <1>1
<1>4. Stripped(text, c) = IF kept = {} THEN <<>> ELSE SubSeq(text, Min(kept), Max(kept))
  BY DEF Stripped
<1> HIDE DEF kept
<1>5. Min(kept) \in kept /\ Min(kept) <= 1
  BY <1>2, <1>3, Least
<1>6. Max(kept) \in kept /\ Len(text) <= Max(kept)
  BY <1>1, <1>2, <1>3, Greatest
<1>7. Min(kept) \in 1..Len(text) /\ Max(kept) \in 1..Len(text)
  BY <1>3, <1>5, <1>6
<1>8. Min(kept) = 1 /\ Max(kept) = Len(text)
  BY <1>1, <1>5, <1>6, <1>7
<1> QED
  BY <1>2, <1>4, <1>8, SubSeqFull DEF Text

(* The name of a peer is looked up as it is.                               *)
LEMMA NamesAreClean ==
  ASSUME NEW i \in Place, Head(Peers[i].name) # Quote
  PROVE  Sanitized(NormalizePeerInput(Peers[i].name)) = Peers[i].name
<1> DEFINE name == Peers[i].name
           second == {k \in DOMAIN name : name[k] = Space /\ k > 1 /\ name[k - 1] = Space}
<1>1. /\ name \in Text /\ name # <<>> /\ Head(name) # Space /\ Head(name) # Quote /\ Last(name) # Space
      /\ \A k \in 2..Len(name) : name[k] = Space => name[k - 1] # Space
  BY PeerBasics
<1>2. second = {}
  <2>1. \A k \in DOMAIN name : k > 1 => k \in 2..Len(name)
    BY <1>1, TextBasics
  <2> QED
    BY <1>1, <2>1
<1>3. Sanitized(name) = Stripped(Keeping(name, DOMAIN name \ second), Space)
  BY DEF Sanitized
<1> HIDE DEF second, name
<1>4. Stripped(name, Space) = name
  BY <1>1, NothingStripped
<1>5. NormalizePeerInput(name) = name
  BY <1>1, <1>4 DEF NormalizePeerInput
<1>6. Keeping(name, DOMAIN name) = name
  BY <1>1, KeepingAll DEF Text
<1>7. DOMAIN name \ second = DOMAIN name
  BY <1>2
<1> QED
  BY <1>3, <1>4, <1>5, <1>6, <1>7 DEF name

(* An id stands for its peer (resolvePeer).                                *)
LEMMA IdStands ==
  ASSUME NEW i \in Place
  PROVE  ResolvePeer(Peers[i].id) = {Peers[i].id}
<1> DEFINE id == Peers[i].id
           byNumber == {x \in Known : ParsesAs(id, x)}
<1>1. id \in Known
  BY PeerBasics
<1>2. IsHex(id) /\ \A x \in Known : Number(id) = Number(x) => x = id
  BY <1>1, CompletionAssumption
<1>3. byNumber = {id}
  BY <1>1, <1>2 DEF ParsesAs
<1>4. byNumber # {} => ResolvePeer(id) = byNumber
  BY DEF ResolvePeer
<1> QED
  BY <1>3, <1>4

(* A name that is no other peer's alias or number stands for its peer.     *)
LEMMA NameStands ==
  ASSUME NEW i \in Place, Head(Peers[i].name) # Quote,
         \A id \in Known \ {Peers[i].id} : ~ParsesAs(Peers[i].name, id),
         \A j \in Place : Peers[i].name \in Peers[j].aliases => Peers[j].id = Peers[i].id
  PROVE  ResolvePeer(Peers[i].name) = {Peers[i].id}
<1> DEFINE name == Peers[i].name
           byNumber == {x \in Known : ParsesAs(name, x)}
           exact == {j \in DOMAIN Peers : \E alias \in Peers[j].aliases : alias = name}
<1>1. byNumber \subseteq {Peers[i].id}
  OBVIOUS
<1>2. CASE byNumber # {}
  <2>1. ResolvePeer(name) = byNumber
    BY <1>2 DEF ResolvePeer
  <2> QED
    BY <1>1, <1>2, <2>1
<1>3. CASE byNumber = {}
  <2>1. i \in exact
    BY PeerBasics DEF Place
  <2>2. \A j \in exact : Peers[j].id = Peers[i].id
    BY DEF Place
  <2>3. ResolvePeer(name) = {Peers[j].id : j \in exact}
    BY <1>3, <2>1, NamesAreClean DEF ResolvePeer
  <2> QED
    BY <2>1, <2>2, <2>3
<1> QED
  BY <1>2, <1>3

(* What is inserted for a peer stands for it, whether its id or a name that*)
(* cannot be mistaken (promptCandidates).                                  *)
Stands(c, kinds) == c.id # <<>> /\ ~Mistakable(c, kinds) => ResolvePeer(c.value) = {c.id}

LEMMA ValueStands ==
  ASSUME NEW i \in Place, NEW kinds, NEW c,
         c.id = Peers[i].id, Peers[i].kind \in kinds,
         c.value = CandidateValue(Peers[i], {j \in DOMAIN Peers : Peers[j].kind \in kinds})
  PROVE  Stands(c, kinds)
<1> DEFINE offered == {j \in DOMAIN Peers : Peers[j].kind \in kinds}
           twice == \E j \in offered : Peers[j].name = Peers[i].name /\ Peers[j].id # Peers[i].id
<1>1. CASE c.value = c.id
  BY <1>1, IdStands DEF Stands
<1>2. CASE c.value # c.id
  <2> SUFFICES ASSUME ~Mistakable(c, kinds) PROVE ResolvePeer(c.value) = {c.id}
    BY DEF Stands
  <2>1. c.value = Peers[i].name /\ ~twice
    BY <1>2 DEF CandidateValue
  <2>2. /\ Head(Peers[i].name) # Quote
        /\ \A id \in Known \ {Peers[i].id} : ~ParsesAs(Peers[i].name, id)
    BY <1>2, <2>1 DEF Mistakable
  <2>3. ASSUME NEW j \in Place, Peers[i].name \in Peers[j].aliases, Peers[j].id # Peers[i].id
        PROVE  FALSE
    <3>1. Peers[j].name = Peers[i].name /\ Peers[j].kind \in kinds
      BY <1>2, <2>1, <2>3 DEF Mistakable, Place
    <3>2. j \in offered
      BY <2>3, <3>1 DEF Place
    <3> QED
      BY <2>1, <2>3, <3>1, <3>2
  <2> QED
    BY <2>1, <2>2, <2>3, NameStands
<1> QED
  BY <1>1, <1>2

-----------------------------------------------------------------------------
(* The candidates, whatever the line and the place in it.                  *)
Candidates == [value : Text, display : Text, id : Text]

(* Every candidate is a command, or a peer that fits the command before it.*)
LEMMA CommandCandidatesTyped ==
  ASSUME NEW query
  PROVE  /\ CommandCandidates(query) \in Seq(Candidates)
         /\ \A i \in DOMAIN CommandCandidates(query) : CommandCandidates(query)[i].id = <<>>
<1> DEFINE T == [name : Text, suggest : {"none", "any", "chatorchannel"} \cup Kinds]
           fitting == Keeping(Commands, {i \in DOMAIN Commands : HasPrefix(Commands[i].name, query)})
<1>1. fitting \in Seq(T)
  BY CompletionAssumption, KeepingTyped
<1>2. CommandCandidates(query) = [i \in DOMAIN fitting |->
         [value |-> fitting[i].name, display |-> fitting[i].name, id |-> <<>>]]
  BY DEF CommandCandidates
<1> HIDE DEF fitting
<1>3. Len(fitting) \in Nat /\ DOMAIN fitting = 1..Len(fitting) /\ \A i \in 1..Len(fitting) : fitting[i].name \in Text
  <2>1. \A i \in 1..Len(fitting) : fitting[i] \in T
    <3> HIDE DEF T
    <3> QED
      BY <1>1, ElementOfSeq
  <2>2. Len(fitting) \in Nat /\ DOMAIN fitting = 1..Len(fitting)
    BY <1>1, LenProperties
  <2> QED
    BY <2>1, <2>2
<1>4. \A i \in 1..Len(fitting) :
         [value |-> fitting[i].name, display |-> fitting[i].name, id |-> <<>>] \in Candidates
  BY <1>3 DEF Candidates, Text
<1> QED
  BY <1>2, <1>3, <1>4

Cached == {Peers[i] : i \in Place}

LEMMA RankedTyped ==
  ASSUME NEW T, NEW peers \in Seq(T), NEW query
  PROVE  Ranked(peers, query) \in Seq(T)
<1> DEFINE Part(r) == Keeping(peers, {i \in DOMAIN peers : PeerMatchRank(peers[i], query) = r - 1})
           parts == [r \in 1..3 |-> Part(r)]
<1>1. \A r \in 1..3 : Part(r) \in Seq(T)
  BY KeepingTyped
<1>2. Ranked(peers, query) = FlattenSeq(parts)
  BY DEF Ranked
<1> HIDE DEF Part
<1>3. parts \in Seq(Seq(T))
  BY <1>1
<1> HIDE DEF parts
<1> QED
  BY <1>2, <1>3, FlattenTyped

LEMMA PeerCandidatesTyped ==
  ASSUME NEW text, NEW kinds
  PROVE  /\ PeerCandidates(text, kinds) \in Seq(Candidates)
         /\ \A i \in DOMAIN PeerCandidates(text, kinds) : Stands(PeerCandidates(text, kinds)[i], kinds)
<1> DEFINE offered == {i \in DOMAIN Peers : Peers[i].kind \in kinds}
           query == Sanitized(NormalizePeerInput(text))
           byID == query # <<>> /\ Head(query) = Hex
           Fits(peer) == IF byID THEN HasPrefix(peer.id, query)
                                 ELSE \E alias \in peer.aliases : ContainsText(alias, query)
           fits == {i \in offered : Fits(Peers[i])}
           fitting == Keeping(Peers, fits)
           ordered == IF byID THEN fitting ELSE Ranked(fitting, query)
           Offer(i) == [value |-> IF byID THEN ordered[i].id ELSE CandidateValue(ordered[i], offered),
                        display |-> ordered[i].name, id |-> ordered[i].id]
           F == {Peers[i] : i \in offered}
<1>1. PeerCandidates(text, kinds) = [i \in DOMAIN ordered |-> Offer(i)]
  BY DEF PeerCandidates
<1>2. Peers \in Seq(Cached)
  BY CompletionAssumption DEF Cached, Place
<1>3. fitting \in Seq(F)
  <2>1. \A i \in fits : Peers[i] \in F
    OBVIOUS
  <2> HIDE DEF F, fits, offered
  <2> QED
    BY <1>2, <2>1, KeptTyped
<1> HIDE DEF Fits, query, fits, fitting
<1>4. ordered \in Seq(F)
  <2> HIDE DEF F
  <2> QED
    BY <1>3, RankedTyped
<1>5. ASSUME NEW i \in DOMAIN ordered PROVE Offer(i) \in Candidates /\ Stands(Offer(i), kinds)
  <2> HIDE DEF ordered, byID
  <2>1. ordered[i] \in F
    BY <1>4
  <2>2. PICK j \in Place : ordered[i] = Peers[j] /\ Peers[j].kind \in kinds
    BY <2>1 DEF Place
  <2>3. CandidateValue(Peers[j], offered) \in Text
    BY PeerBasics DEF CandidateValue
  <2>4. Offer(i) \in Candidates /\ Offer(i).id = Peers[j].id
    BY <2>2, <2>3, PeerBasics DEF Candidates
  <2>5. CASE byID
    <3>1. Offer(i).value = Peers[j].id
      BY <2>2, <2>5
    <3> HIDE DEF Offer
    <3> QED
      BY <2>4, <3>1, IdStands DEF Stands
  <2>6. CASE ~byID
    <3>1. Offer(i).value = CandidateValue(Peers[j], offered)
      BY <2>2, <2>6
    <3> HIDE DEF Offer
    <3> QED
      BY <2>2, <2>4, <3>1, ValueStands
  <2> QED
    BY <2>4, <2>5, <2>6
<1>6. Len(ordered) \in Nat /\ DOMAIN ordered = 1..Len(ordered)
  <2> HIDE DEF ordered
  <2> QED
    BY <1>4
<1> HIDE DEF ordered, Offer
<1> QED
  BY <1>1, <1>5, <1>6

-----------------------------------------------------------------------------
(* What is computed for a line, as a record of its parts.                  *)
LEMMA Completed ==
  ASSUME NEW text \in Text, NEW at \in 0..Len(text)
  PROVE  LET found == CompletePrompt(text, at)
         IN  /\ found = [start |-> found.start, end |-> found.end, quoted |-> found.quoted,
                         quoteClosed |-> found.quoteClosed, candidates |-> found.candidates]
             /\ found.start \in Int /\ found.end \in Int
             /\ found.candidates \in Seq(Candidates)
             /\ \A i \in DOMAIN found.candidates :
                  Stands(found.candidates[i],
                         PeerKinds(Args(SplitTokens(text), ActiveToken(SplitTokens(text), at))))
<1> DEFINE active == ActiveToken(SplitTokens(text), at)
           kinds == PeerKinds(Args(SplitTokens(text), ActiveToken(SplitTokens(text), at)))
           found == CompletePrompt(text, at)
<1>1. active \in Tokens
  BY SplitTokensTyped, ActiveTokenTyped, TextBasics
<1>2. active.start \in Int /\ active.end \in Int
  <2> HIDE DEF active
  <2> QED
    BY <1>1 DEF Tokens
<1>3. found = [start |-> active.start, end |-> active.end,
               quoted |-> active.quoted, quoteClosed |-> active.quoteClosed,
               candidates |-> IF Args(SplitTokens(text), active) = <<>>
                              THEN CommandCandidates(active.value)
                              ELSE PeerCandidates(active.value, kinds)]
  BY DEF CompletePrompt
<1> HIDE DEF active, kinds
<1>4. /\ CommandCandidates(active.value) \in Seq(Candidates)
      /\ \A i \in DOMAIN CommandCandidates(active.value) :
           Stands(CommandCandidates(active.value)[i], kinds)
  BY CommandCandidatesTyped DEF Stands
<1>5. /\ PeerCandidates(active.value, kinds) \in Seq(Candidates)
      /\ \A i \in DOMAIN PeerCandidates(active.value, kinds) :
           Stands(PeerCandidates(active.value, kinds)[i], kinds)
  BY PeerCandidatesTyped
<1> HIDE DEF found
<1>6. found.candidates \in Seq(Candidates) /\ \A i \in DOMAIN found.candidates : Stands(found.candidates[i], kinds)
  BY <1>3, <1>4, <1>5
<1> QED
  BY <1>2, <1>3, <1>6 DEF found, kinds

(* A quote is a character.                                                 *)
LEMMA QuoteIsText == Quote \in Alphabet
BY CompletionAssumption

(* What stands for a value in the line.                                    *)
LEMMA EncodedTyped ==
  ASSUME NEW value \in Text, NEW quoted, NEW closed
  PROVE  EncodeCompletionValue(value, quoted, closed) \in Text
<1> DEFINE Part(i) == IF value[i] = Quote THEN <<Quote, Quote>> ELSE <<value[i]>>
           parts == [i \in DOMAIN value |-> Part(i)]
           text == FlattenSeq(parts)
<1>1. Len(value) \in Nat /\ DOMAIN value = 1..Len(value)
  BY TextBasics
<1>2. ASSUME NEW i \in 1..Len(value) PROVE Part(i) \in Seq(Alphabet)
  <2>1. value[i] \in Alphabet /\ Quote \in Alphabet
    BY TextBasics, QuoteIsText
  <2>2. <<Quote, Quote>> \in Seq(Alphabet) /\ <<value[i]>> \in Seq(Alphabet)
    BY <2>1
  <2> QED
    BY <2>2
<1> HIDE DEF Part
<1>3. parts \in Seq(Seq(Alphabet))
  BY <1>1, <1>2
<1> HIDE DEF parts
<1>4. text \in Seq(Alphabet)
  BY <1>3, FlattenTyped
<1>5. EncodeCompletionValue(value, quoted, closed) =
        CASE quoted /\ closed -> text
          [] quoted /\ ~closed -> Append(text, Quote)
          [] ~quoted /\ ToSet(value) \cap {Space, Quote} # {} -> <<Quote>> \o text \o <<Quote>>
          [] ~quoted /\ ToSet(value) \cap {Space, Quote} = {} -> text
  BY DEF EncodeCompletionValue, parts, Part
<1> HIDE DEF text
<1>6. /\ Append(text, Quote) \in Seq(Alphabet) /\ <<Quote>> \in Seq(Alphabet)
      /\ <<Quote>> \o text \o <<Quote>> \in Seq(Alphabet)
  BY <1>4, QuoteIsText
<1> QED
  BY <1>4, <1>5, <1>6 DEF Text

-----------------------------------------------------------------------------
(* The candidates are those of the line and the cursor, and the indices    *)
(* are in their ranges.                                                    *)
LineOK ==
  /\ line \in Text /\ cursor \in 0..Len(line)
  /\ historyIndex \in 0..Len(History)
  /\ height \in Heights
  /\ commandRunning \in BOOLEAN

ListOK ==
  /\ completions \in Seq(Candidates)
  /\ Open => selected \in 0..(Len(completions) - 1)
  /\ completionOffset \in Nat
  /\ span.start \in Int /\ span.end \in Int

EditorInv == LineOK /\ ListOK /\ Current

(* The invariant holds at first, and each action keeps it.                 *)
LEMMA InitOK == EditorInit => EditorInv
<1> SUFFICES ASSUME EditorInit PROVE EditorInv
  OBVIOUS
<1>1. LineOK
  <2>1. History \in Seq(Text)
    BY EditorAssumption
  <2>2. Len(History) \in Nat
    BY <2>1, LenProperties
  <2>3. <<>> \in Text /\ Len(<<>>) = 0
    BY DEF Text
  <2>4. line \in Text /\ cursor \in 0..Len(line)
    BY <2>3 DEF EditorInit
  <2>5. historyIndex \in 0..Len(History)
    BY <2>2 DEF EditorInit
  <2> QED
    BY <2>4, <2>5 DEF EditorInit, LineOK
<1>2. ListOK
  BY DEF EditorInit, ListOK, Open, NoSpan
<1>3. Current
  BY DEF EditorInit, Current, Open
<1> QED
  BY <1>1, <1>2, <1>3 DEF EditorInv

(* Indices after a step up, down or by a page.                             *)
LEMMA Remainders ==
  ASSUME NEW a \in Int, NEW n \in Nat \ {0}
  PROVE  a % n \in 0..(n - 1)
OBVIOUS

LEMMA FirstShownTyped ==
  ASSUME NEW chosen \in Nat, NEW first \in Nat, NEW n \in Nat, NEW count \in Nat
  PROVE  FirstShown(chosen, first, n, count) \in Nat
<1> DEFINE near == CASE chosen < first -> chosen
                     [] chosen >= first + count -> chosen - count + 1
                     [] first <= chosen /\ chosen < first + count -> first
<1>1. near \in Int
  OBVIOUS
<1>2. FirstShown(chosen, first, n, count) =
        IF count = 0 \/ n = 0 THEN first ELSE Min({Max({0, near}), Max({0, n - count})})
  BY DEF FirstShown
<1> HIDE DEF near
<1>3. Max({0, near}) \in Nat /\ Max({0, n - count}) \in Nat
  BY <1>1, OfTwo
<1>4. \A a, b \in Nat : Min({a, b}) \in Nat
  BY OfTwo
<1>5. Min({Max({0, near}), Max({0, n - count})}) \in Nat
  BY <1>3, <1>4
<1> QED
  BY <1>2, <1>5

(* How many candidates are shown is a number.                              *)
LEMMA VisibleTyped ==
  ASSUME NEW h \in Nat
  PROVE  VisibleCount(h) \in Nat
<1>1. h >= BaseLines + 2 => Min({MaxVisible, h - BaseLines - 2}) \in Nat
  BY OfTwo DEF MaxVisible, BaseLines
<1> QED
  BY <1>1 DEF VisibleCount, Layout, BaseLines

(* A change of the line or the cursor, with the candidates for the new     *)
(* ones or with none.                                                      *)
LEMMA RefreshedOK ==
  ASSUME NEW text \in Text, NEW at \in 0..Len(text), RefreshCompletions(text, at),
         line' = text, cursor' = at
  PROVE  ListOK' /\ Current'
<1> DEFINE found == CompletePrompt(text, at)
<1>1. /\ found = [start |-> found.start, end |-> found.end, quoted |-> found.quoted,
                  quoteClosed |-> found.quoteClosed, candidates |-> found.candidates]
      /\ found.start \in Int /\ found.end \in Int
      /\ found.candidates \in Seq(Candidates)
  BY Completed
<1> HIDE DEF found
<1>2. /\ completions' = found.candidates /\ selected' = 0 /\ completionOffset' = 0
      /\ span' = [start |-> found.start, end |-> found.end,
                  quoted |-> found.quoted, quoteClosed |-> found.quoteClosed]
  BY DEF RefreshCompletions, found
<1>3. ListOK'
  <2>1. completions' # <<>> => Len(completions') \in Nat \ {0}
    BY <1>1, <1>2, EmptySeq
  <2>2. Open' => selected' \in 0..(Len(completions') - 1)
    BY <1>2, <2>1 DEF Open
  <2> QED
    BY <1>1, <1>2, <2>2 DEF ListOK
<1>4. Current'
  <2>1. [start |-> span'.start, end |-> span'.end, quoted |-> span'.quoted,
         quoteClosed |-> span'.quoteClosed, candidates |-> completions'] = found
    BY <1>1, <1>2
  <2> QED
    BY <2>1 DEF Current, found
<1> QED
  BY <1>3, <1>4

LEMMA ClearedOK ==
  ASSUME ClearCompletions
  PROVE  ListOK' /\ Current'
BY DEF ClearCompletions, ListOK, Current, Open, NoSpan

(* What leaves the line alone, and what leaves the candidates alone.       *)
LEMMA SameLine ==
  ASSUME LineOK, UNCHANGED <<editor, historyIndex, height, commandRunning>>
  PROVE  LineOK'
BY DEF LineOK, editor

LEMMA SameList ==
  ASSUME ListOK, Current, UNCHANGED list, ~Open \/ UNCHANGED editor
  PROVE  ListOK' /\ Current'
BY DEF ListOK, Current, Open, list, editor

(* A key leaves a text, and the cursor in it.                              *)
LEMMA EditsOK ==
  ASSUME LineOK, NEW new \in Edits
  PROVE  new.line \in Text /\ new.cursor \in 0..Len(new.line)
<1>1. line \in Seq(Alphabet) /\ Len(line) \in Nat /\ cursor \in 0..Len(line)
  BY DEF LineOK, Text
<1>2. ASSUME NEW c \in Alphabet
      PROVE  InsertAt(line, cursor + 1, c) \in Seq(Alphabet) /\ Len(InsertAt(line, cursor + 1, c)) = Len(line) + 1
  <2> DEFINE a == SubSeq(line, 1, (cursor + 1) - 1)
             b == SubSeq(line, cursor + 1, Len(line))
  <2>1. a \in Seq(Alphabet) /\ Len(a) = cursor
    BY <1>1
  <2>2. b \in Seq(Alphabet) /\ Len(b) = Len(line) - cursor
    BY <1>1
  <2>3. <<c>> \in Seq(Alphabet) /\ Len(<<c>>) = 1
    OBVIOUS
  <2>4. InsertAt(line, cursor + 1, c) = a \o <<c>> \o b
    BY DEF InsertAt
  <2> HIDE DEF a, b
  <2>5. a \o <<c>> \in Seq(Alphabet) /\ Len(a \o <<c>>) = cursor + 1
    BY <2>1, <2>3, ConcatProperties
  <2>6. a \o <<c>> \o b \in Seq(Alphabet) /\ Len(a \o <<c>> \o b) = Len(a \o <<c>>) + Len(b)
    BY <2>2, <2>5, ConcatProperties
  <2>7. Len(a \o <<c>>) + Len(b) = Len(line) + 1
    BY <1>1, <2>2, <2>5
  <2> QED
    BY <2>4, <2>6, <2>7
<1>3. ASSUME cursor # 0
      PROVE  RemoveAt(line, cursor) \in Seq(Alphabet) /\ Len(RemoveAt(line, cursor)) = Len(line) - 1
  <2> DEFINE a == SubSeq(line, 1, cursor - 1)
             b == SubSeq(line, cursor + 1, Len(line))
  <2>1. a \in Seq(Alphabet) /\ Len(a) = cursor - 1
    BY <1>1, <1>3
  <2>2. b \in Seq(Alphabet) /\ Len(b) = Len(line) - cursor
    BY <1>1
  <2>3. RemoveAt(line, cursor) = a \o b
    BY DEF RemoveAt
  <2> HIDE DEF a, b
  <2>4. a \o b \in Seq(Alphabet) /\ Len(a \o b) = Len(a) + Len(b)
    BY <2>1, <2>2, ConcatProperties
  <2>5. Len(a) + Len(b) = Len(line) - 1
    BY <1>1, <1>3, <2>1, <2>2
  <2> QED
    BY <2>3, <2>4, <2>5
<1>4. CASE \E c \in Chars : new = [line |-> InsertAt(line, cursor + 1, c), cursor |-> cursor + 1]
  BY <1>1, <1>2, <1>4, EditorAssumption DEF Text
<1>5. CASE cursor # 0 /\ new = [line |-> RemoveAt(line, cursor), cursor |-> cursor - 1]
  BY <1>1, <1>3, <1>5 DEF Text
<1>6. CASE \E at \in 0..Len(line) : new = [line |-> line, cursor |-> at]
  BY <1>1, <1>6 DEF Text
<1> QED
  BY <1>4, <1>5, <1>6 DEF Edits

LEMMA UpdateEditorOK ==
  ASSUME EditorInv, UpdateEditor
  PROVE  EditorInv'
<1>1. PICK new \in Edits : /\ line' = new.line /\ cursor' = new.cursor
                            /\ RefreshCompletions(new.line, new.cursor)
  BY DEF UpdateEditor
<1>2. new.line \in Text /\ new.cursor \in 0..Len(new.line)
  BY EditsOK DEF EditorInv
<1>3. ListOK' /\ Current'
  BY <1>1, <1>2, RefreshedOK
<1>4. LineOK'
  BY <1>1, <1>2 DEF LineOK, EditorInv, UpdateEditor
<1> QED
  BY <1>3, <1>4 DEF EditorInv

(* A place computed before, brought back into the line.                    *)
LEMMA Clamped ==
  ASSUME NEW least \in Nat, NEW place \in Int, NEW n \in Nat
  PROVE  Min({Max({least, place}), n}) \in 0..n
<1> DEFINE m == Max({least, place})
<1>1. m \in Nat
  BY OfTwo
<1> HIDE DEF m
<1>2. Min({m, n}) = IF m <= n THEN m ELSE n
  BY <1>1, OfTwo
<1>3. Min({m, n}) \in 0..n
  BY <1>1, <1>2
<1> QED
  BY <1>3 DEF m

LEMMA AcceptOK ==
  ASSUME EditorInv, AcceptCompletion
  PROVE  EditorInv'
<1> DEFINE begin == Min({Max({0, span.start}), Len(line)})
           end == Min({Max({begin, span.end}), Len(line)})
           value == EncodeCompletionValue(completions[selected + 1].value, span.quoted, span.quoteClosed)
           a == SubSeq(line, 1, begin)
           b == SubSeq(line, end + 1, Len(line))
<1>1. line \in Seq(Alphabet) /\ Len(line) \in Nat /\ span.start \in Int /\ span.end \in Int
  BY DEF EditorInv, LineOK, ListOK, Text
<1>2. begin \in 0..Len(line)
  BY <1>1, Clamped
<1>3. end \in 0..Len(line)
  <2>1. begin \in Nat
    BY <1>1, <1>2
  <2> HIDE DEF begin
  <2> QED
    BY <1>1, <2>1, Clamped
<1>4. value \in Seq(Alphabet)
  <2>1. completions \in Seq(Candidates) /\ selected \in 0..(Len(completions) - 1)
    BY DEF EditorInv, ListOK, AcceptCompletion
  <2>2. selected + 1 \in 1..Len(completions)
    BY <2>1
  <2>3. completions[selected + 1] \in Candidates
    BY <2>1, <2>2, ElementOfSeq
  <2>4. completions[selected + 1].value \in Text
    BY <2>3 DEF Candidates
  <2> QED
    BY <2>4, EncodedTyped DEF Text
<1>5. line' = a \o value \o b /\ cursor' = begin + Len(value)
  BY DEF AcceptCompletion
<1> HIDE DEF begin, end, value
<1>6. a \in Seq(Alphabet) /\ Len(a) = begin /\ b \in Seq(Alphabet) /\ Len(b) \in Nat
  BY <1>1, <1>2, <1>3
<1> HIDE DEF a, b
<1>7. a \o value \in Seq(Alphabet) /\ Len(a \o value) = begin + Len(value)
  BY <1>4, <1>6, ConcatProperties
<1>8. line' \in Seq(Alphabet) /\ Len(line') = (begin + Len(value)) + Len(b)
  BY <1>5, <1>6, <1>7, ConcatProperties
<1>9. cursor' \in 0..Len(line')
  BY <1>2, <1>4, <1>5, <1>6, <1>8
<1>10. LineOK'
  BY <1>8, <1>9 DEF LineOK, EditorInv, AcceptCompletion, Text
<1> QED
  BY <1>10, ClearedOK DEF EditorInv, AcceptCompletion

(* Choosing moves the choice and the window only.                          *)
LEMMA ChooseOK ==
  ASSUME EditorInv, Open, NEW n \in 0..(Len(completions) - 1), Choose(n)
  PROVE  EditorInv'
<1>1. Len(completions) \in Nat /\ completionOffset \in Nat /\ height \in Nat
  BY EditorAssumption DEF EditorInv, ListOK, LineOK
<1>2. VisibleCount(height) \in Nat
  BY <1>1, VisibleTyped
<1>3. completionOffset' \in Nat
  BY <1>1, <1>2, FirstShownTyped DEF Choose
<1>4. LineOK'
  BY SameLine DEF EditorInv, Choose
<1>5. ListOK'
  BY <1>3 DEF EditorInv, ListOK, Choose, Open
<1>6. Current'
  BY DEF EditorInv, Current, Choose, Open, editor
<1> QED
  BY <1>4, <1>5, <1>6 DEF EditorInv

LEMMA OpenBasics ==
  ASSUME EditorInv, Open
  PROVE  Len(completions) \in Nat \ {0} /\ selected \in 0..(Len(completions) - 1)
BY EmptySeq DEF EditorInv, ListOK, Open

LEMMA UpOrDownOK ==
  ASSUME EditorInv, UpOrDown
  PROVE  EditorInv'
<1> DEFINE n == Len(completions)
<1>1. Open /\ n \in Nat \ {0} /\ selected \in 0..(n - 1)
  BY OpenBasics DEF UpOrDown
<1>2. (selected - 1 + n) % n \in 0..(n - 1) /\ (selected + 1) % n \in 0..(n - 1)
  <2> HIDE DEF n
  <2>1. selected - 1 + n \in Int /\ selected + 1 \in Int
    BY <1>1
  <2> QED
    BY <1>1, <2>1, Remainders
<1>3. CASE Choose((selected - 1 + n) % n)
  BY <1>1, <1>2, <1>3, ChooseOK
<1>4. CASE Choose((selected + 1) % n)
  BY <1>1, <1>2, <1>4, ChooseOK
<1> QED
  BY <1>3, <1>4 DEF UpOrDown

LEMMA PageOK ==
  ASSUME EditorInv, PageCompletions
  PROVE  EditorInv'
<1> DEFINE n == Len(completions)
           count == VisibleCount(height)
<1>1. Open /\ n \in Nat \ {0} /\ selected \in 0..(n - 1)
  BY OpenBasics DEF PageCompletions
<1>2. count \in Nat
  BY VisibleTyped, EditorAssumption DEF EditorInv, LineOK
<1>3. (selected + count) % n \in 0..(n - 1)
  <2> HIDE DEF n, count
  <2>1. selected + count \in Int
    BY <1>1, <1>2
  <2> QED
    BY <1>1, <2>1, Remainders
<1>4. (Rem(selected - count, n) + n) % n \in 0..(n - 1)
  <2> HIDE DEF n, count
  <2>1. selected - count \in Int /\ -(selected - count) \in Int
    BY <1>1, <1>2
  <2>2. (selected - count) % n \in Int /\ (-(selected - count)) % n \in Int
    BY <1>1, <2>1, Remainders
  <2>3. Rem(selected - count, n) \in Int
    BY <2>2 DEF Rem
  <2>4. Rem(selected - count, n) + n \in Int
    BY <1>1, <2>3
  <2> QED
    BY <1>1, <2>4, Remainders
<1>5. CASE Choose((selected + count) % n)
  BY <1>1, <1>3, <1>5, ChooseOK
<1>6. CASE Choose((Rem(selected - count, n) + n) % n)
  BY <1>1, <1>4, <1>6, ChooseOK
<1> QED
  BY <1>5, <1>6 DEF PageCompletions

LEMMA RecallOK ==
  ASSUME EditorInv, HistoryPrevious \/ HistoryNext
  PROVE  EditorInv'
<1>1. Len(History) \in Nat /\ \A i \in 1..Len(History) : History[i] \in Text
  BY EditorAssumption
<1>2. historyIndex \in 0..Len(History)
  BY DEF EditorInv, LineOK
<1>3. ASSUME NEW text \in Text, Show(text) PROVE line' \in Text /\ cursor' \in 0..Len(line')
  BY <1>3, TextBasics DEF Show
<1>4. ListOK' /\ Current'
  BY SameList DEF EditorInv, HistoryPrevious, HistoryNext
<1>5. <<>> \in Text
  BY DEF Text
<1>6. CASE HistoryPrevious
  <2>1. historyIndex \in 1..Len(History) /\ historyIndex - 1 \in 0..Len(History)
    BY <1>1, <1>2, <1>6 DEF HistoryPrevious
  <2>2. line' \in Text /\ cursor' \in 0..Len(line')
    BY <1>1, <1>3, <1>6, <2>1 DEF HistoryPrevious
  <2>3. LineOK'
    BY <1>6, <2>1, <2>2 DEF HistoryPrevious, LineOK, EditorInv
  <2> QED
    BY <1>4, <2>3 DEF EditorInv
<1>7. CASE HistoryNext
  <2>1. /\ historyIndex + 1 \in 0..Len(History)
        /\ historyIndex + 1 # Len(History) => historyIndex + 2 \in 1..Len(History)
    BY <1>1, <1>2, <1>7 DEF HistoryNext
  <2> DEFINE text == IF historyIndex + 1 = Len(History) THEN <<>> ELSE History[historyIndex + 2]
  <2>2. text \in Text
    BY <1>1, <1>5, <2>1
  <2>3. Show(text)
    BY <1>7 DEF HistoryNext
  <2> HIDE DEF text
  <2>4. line' \in Text /\ cursor' \in 0..Len(line')
    BY <1>3, <2>2, <2>3
  <2>5. LineOK'
    BY <1>7, <2>1, <2>4 DEF HistoryNext, LineOK, EditorInv
  <2> QED
    BY <1>4, <2>5 DEF EditorInv
<1> QED
  BY <1>6, <1>7

LEMMA SubmitOK ==
  ASSUME EditorInv, SubmitLine
  PROVE  EditorInv'
<1>1. line' = <<>> /\ cursor' = 0 /\ <<>> \in Text
  BY DEF SubmitLine, Show, Text
<1>2. line' \in Text /\ cursor' \in 0..Len(line')
  BY <1>1
<1>3. LineOK'
  BY <1>2 DEF SubmitLine, LineOK, EditorInv
<1> QED
  BY <1>3, ClearedOK DEF EditorInv, SubmitLine

LEMMA FinishOK ==
  ASSUME EditorInv, FinishCommand
  PROVE  EditorInv'
<1>1. Len(History) \in 0..Len(History)
  BY EditorAssumption
<1>2. LineOK'
  BY <1>1 DEF FinishCommand, LineOK, EditorInv, editor
<1> QED
  BY <1>2, SameList DEF EditorInv, FinishCommand

(* Every step of the editor keeps the invariant.                           *)
LEMMA EditorStep == EditorInv /\ [EditorNext]_editorVars => EditorInv'
<1> SUFFICES ASSUME EditorInv, [EditorNext]_editorVars PROVE EditorInv'
  OBVIOUS
<1>1. CASE UpdateEditor
  BY <1>1, UpdateEditorOK
<1>2. CASE Escape
  <2>1. LineOK'
    BY <1>2, SameLine DEF EditorInv, Escape
  <2> QED
    BY <1>2, <2>1, ClearedOK DEF EditorInv, Escape
<1>3. CASE AcceptCompletion
  BY <1>3, AcceptOK
<1>4. CASE UpOrDown
  BY <1>4, UpOrDownOK
<1>5. CASE PageCompletions
  BY <1>5, PageOK
<1>6. CASE HistoryPrevious \/ HistoryNext
  BY <1>6, RecallOK
<1>7. CASE SubmitLine
  BY <1>7, SubmitOK
<1>8. CASE FinishCommand
  BY <1>8, FinishOK
<1>9. CASE Resize
  <2>1. LineOK'
    BY <1>9 DEF EditorInv, LineOK, Resize, editor
  <2> QED
    BY <1>9, <2>1, SameList DEF EditorInv, Resize
<1>10. CASE UNCHANGED editorVars
  <2>1. UNCHANGED <<editor, historyIndex, height, commandRunning>> /\ UNCHANGED list /\ UNCHANGED editor
    BY <1>10 DEF editorVars
  <2> QED
    BY <2>1, SameLine, SameList DEF EditorInv
<1> QED
  BY <1>1, <1>2, <1>3, <1>4, <1>5, <1>6, <1>7, <1>8, <1>9, <1>10 DEF EditorNext

LEMMA AlwaysEditorInv == EditorSpec => []EditorInv
BY InitOK, EditorStep, PTL DEF EditorSpec

-----------------------------------------------------------------------------
(* Every part of the editor keeps its type, and cursor, choice and recall  *)
(* stay in their ranges, whatever is typed, accepted, recalled or resized. *)
THEOREM EditorTypes == EditorSpec => []EditorTypeOK
<1>1. EditorInv => EditorTypeOK
  BY DEF EditorInv, LineOK, ListOK, EditorTypeOK
<1> QED
  BY <1>1, AlwaysEditorInv, PTL

(* The candidates that are open, and the span that one of them will        *)
(* replace, are those of this line and cursor (refreshCompletions).        *)
THEOREM CandidatesAreCurrent == EditorSpec => []Current
<1>1. EditorInv => Current
  BY DEF EditorInv
<1> QED
  BY <1>1, AlwaysEditorInv, PTL

(* What is inserted for a peer stands, when the command resolves it, for   *)
(* that peer and no other (promptCandidates, resolvePeer): its id, and its *)
(* name where it cannot be mistaken.                                       *)
THEOREM CandidatesNameOne == EditorSpec => []NamesOnePeer
<1>1. EditorInv => NamesOnePeer
  <2> DEFINE found == CompletePrompt(line, cursor)
             kinds == PeerKinds(Args(SplitTokens(line), ActiveToken(SplitTokens(line), cursor)))
  <2> SUFFICES ASSUME EditorInv, NEW i \in DOMAIN completions PROVE Stands(completions[i], kinds)
    BY DEF NamesOnePeer, Stands
  <2>1. \A k \in DOMAIN found.candidates : Stands(found.candidates[k], kinds)
    BY Completed DEF EditorInv, LineOK
  <2>2. completions # <<>>
    OBVIOUS
  <2>3. completions = found.candidates
    BY <2>2 DEF EditorInv, Current, Open
  <2> HIDE DEF found, kinds
  <2> QED
    BY <2>1, <2>3
<1> QED
  BY <1>1, AlwaysEditorInv, PTL

(* The parts of the screen, at every height.                               *)
LEMMA PartsFill ==
  ASSUME NEW h \in Nat \ {0}
  PROVE  LET rows == Layout(h)
         IN  /\ rows.suggestions \in Nat
             /\ h = (IF rows.bordered THEN BaseLines ELSE 1 + rows.hint)
                       + rows.output + rows.command + rows.suggestions
<1>1. CASE h < BaseLines + 2
  <2> DEFINE entry == IF h >= 2 THEN 1 ELSE 0
             hint == IF h >= 3 THEN 1 ELSE 0
             output == Max({0, h - 1 - (entry + hint)})
  <2>1. h - 1 - (entry + hint) \in Nat /\ entry \in Nat /\ hint \in Nat
    OBVIOUS
  <2>2. Layout(h) = [bordered |-> FALSE, command |-> entry, output |-> output,
                     suggestions |-> 0, hint |-> hint]
    BY <1>1 DEF Layout
  <2> HIDE DEF entry, hint
  <2>3. output = h - 1 - (entry + hint)
    BY <2>1, OfTwo
  <2> HIDE DEF output
  <2>4. h = (1 + hint) + output + entry + 0
    BY <2>1, <2>3
  <2> QED
    BY <2>2, <2>4
<1>2. CASE ~(h < BaseLines + 2)
  <2> DEFINE left == h - BaseLines - 2
             few == Min({MaxVisible, left})
  <2>1. left \in Nat /\ h = 8 + 2 + left /\ BaseLines = 8
    BY <1>2 DEF BaseLines
  <2>2. Layout(h) = [bordered |-> TRUE, command |-> 1, output |-> 1 + left - few,
                     suggestions |-> few, hint |-> 1]
    BY <1>2 DEF Layout
  <2> HIDE DEF left
  <2>3. few \in Nat
    <3>1. MaxVisible \in Nat
      BY DEF MaxVisible
    <3>2. few = IF MaxVisible <= left THEN MaxVisible ELSE left
      BY <2>1, <3>1, OfTwo
    <3> QED
      BY <2>1, <3>1, <3>2
  <2> HIDE DEF few
  <2>4. h = 8 + (1 + left - few) + 1 + few
    BY <2>1, <2>3
  <2> QED
    BY <2>1, <2>2, <2>3, <2>4
<1> QED
  BY <1>1, <1>2

(* Wherever the window was, it is moved to where the chosen candidate is   *)
(* in it (ensureCompletionVisible).                                        *)
LEMMA ChosenInWindow ==
  ASSUME NEW n \in Nat \ {0}, NEW chosen \in 0..(n - 1), NEW offset \in Nat, NEW count \in Nat \ {0}
  PROVE  LET first == FirstShown(chosen, offset, n, count)
         IN  /\ first <= chosen /\ chosen < first + count
             /\ first = 0 \/ first + count <= n
<1> DEFINE near == CASE chosen < offset -> chosen
                     [] chosen >= offset + count -> chosen - count + 1
                     [] offset <= chosen /\ chosen < offset + count -> offset
           low == Max({0, near})
           high == Max({0, n - count})
           first == Min({low, high})
<1>1. near \in Int /\ near <= chosen /\ chosen < near + count
  OBVIOUS
<1>2. FirstShown(chosen, offset, n, count) = first
  BY DEF FirstShown
<1> HIDE DEF near
<1>3. low = IF 0 >= near THEN 0 ELSE near
  BY <1>1, OfTwo
<1>4. high = IF 0 >= n - count THEN 0 ELSE n - count
  BY OfTwo
<1> HIDE DEF low, high
<1>5. low \in Nat /\ low <= chosen /\ chosen < low + count
  BY <1>1, <1>3
<1>6. high \in Nat /\ (high = 0 \/ high = n - count) /\ n <= high + count
  BY <1>4
<1>7. first = IF low <= high THEN low ELSE high
  BY <1>5, <1>6, OfTwo
<1> HIDE DEF first
<1>8. /\ first <= chosen /\ chosen < first + count
      /\ first = 0 \/ first + count <= n
  BY <1>5, <1>6, <1>7
<1> QED
  BY <1>2, <1>8

(* A screen that shows candidates shows the chosen one and no empty row,   *)
(* and its parts fill the terminal, at every height                        *)
(* (promptLayoutForHeight).                                                *)
THEOREM ChosenIsShown == EditorSpec => []InView
<1>1. EditorInv => InView
  <2> SUFFICES ASSUME EditorInv PROVE InView
    OBVIOUS
  <2> DEFINE rows == Layout(height)
             count == rows.suggestions
             first == FirstShown(selected, completionOffset, Len(completions), count)
  <2>1. height \in Nat \ {0}
    BY EditorAssumption DEF EditorInv, LineOK
  <2>2. /\ count \in Nat
        /\ height = (IF rows.bordered THEN BaseLines ELSE 1 + rows.hint)
                      + rows.output + rows.command + rows.suggestions
    BY <2>1, PartsFill
  <2>3. completionOffset \in Nat
    BY DEF EditorInv, ListOK
  <2>4. ASSUME Open, count > 0
        PROVE  /\ first <= selected /\ selected < first + count
               /\ first = 0 \/ first + count <= Len(completions)
    <3>1. Len(completions) \in Nat \ {0} /\ selected \in 0..(Len(completions) - 1)
      BY <2>4, OpenBasics
    <3> HIDE DEF rows
    <3>2. count \in Nat \ {0}
      BY <2>2, <2>4
    <3> QED
      BY <2>3, <3>1, <3>2, ChosenInWindow
  <2> HIDE DEF rows, first
  <2> QED
    BY <2>2, <2>4 DEF InView, rows, first
<1> QED
  BY <1>1, AlwaysEditorInv, PTL

=============================================================================
