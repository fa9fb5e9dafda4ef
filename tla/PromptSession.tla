---------------------------- MODULE PromptSession -----------------------------
(***************************************************************************)
(* The interactive prompt from its start to the end of the process:        *)
(* runPromptTUI (cmd/cmd/prompt_tui.go), the screen (prompt_model.go), the *)
(* startup behind it (runtime_startup.go), the authenticator that may ask  *)
(* for a code (prompt_auth.go), and the commands the user enters one after *)
(* another (prompt_execution.go).  Each emits into one bounded channel.    *)
(*                                                                         *)
(* The result of a command comes to the screen as a message of its own and *)
(* its output through the channel of events, closed by a barrier: the      *)
(* prompt is free again when both have come.  Bubble Tea is as in OneShot. *)
(***************************************************************************)
EXTENDS Naturals, Sequences

CONSTANTS
  Capacity,  \* of the channel of events
  MaxRuns,   \* bound: the commands that the user enters
  MaxOut     \* bound: the events that a command emits before its barrier

ASSUME PromptAssumption ==
  Capacity \in Nat \ {0} /\ MaxRuns \in Nat \ {0} /\ MaxOut \in Nat

Runs == 1..MaxRuns

VARIABLES
  ctxDone, startupCancelled, lifetimeDone,
  state, quitting, asked,    \* the screen: state, quitting, authRequest # nil
  run, running, cancelled,   \* the last command, running, and whether m.cancel
                             \* has been called for it
  pendingDone, barriers, completedRuns,
  finished,                  \* the results in the order the screen showed them
  quit,                      \* tea.Quit has been returned and not been handled
  reader, asker, watcher,    \* waitForRendererEvent: Off, Armed or an event;
                             \* waitForAuthCodeRequest; waitForPromptContext
  program,                   \* "running", "ended" by tea.Quit or "aborted"
  startup, startupErr,
  auth, reply,
  command, result,           \* each command, and what it returns
  gate,                      \* promptCommandGate has its token
  emitted, shown,
  events,
  phase                      \* of runPromptTUI

contexts == <<ctxDone, startupCancelled, lifetimeDone>>
screen == <<state, quitting, asked, run, running, cancelled, pendingDone, barriers,
            completedRuns, finished, quit>>
waiters == <<reader, asker, watcher>>
start == <<startup, startupErr, auth>>
work == <<command, result, gate, emitted>>
vars == <<contexts, screen, waiters, program, start, reply, work, shown, events, phase>>

(* An event is known by its kind and by the command that emitted it, 0 for *)
(* the startup.                                                            *)
Event == {"out", "barrier"} \X (Runs \cup {0})
Off == <<"off", 0>>
Armed == <<"armed", 0>>
Err == {"nil", "cancelled", "error"}

ContextsOK ==
  /\ ctxDone \in BOOLEAN /\ startupCancelled \in BOOLEAN /\ lifetimeDone \in BOOLEAN
ScreenOK ==
  /\ state \in {"starting", "auth", "ready", "failed", "stopping"}
  /\ quitting \in BOOLEAN /\ asked \in BOOLEAN /\ quit \in BOOLEAN
  /\ run \in 0..MaxRuns /\ running \in BOOLEAN /\ cancelled \in BOOLEAN
  /\ pendingDone \subseteq Runs /\ barriers \subseteq Runs /\ completedRuns \subseteq Runs
  /\ finished \in Seq(Runs \X Err)
WaitersOK ==
  /\ reader \in {Off, Armed} \cup Event
  /\ asker \in {"off", "armed", "holding"} /\ watcher \in {"off", "armed"}
WorkOK ==
  /\ program \in {"running", "ended", "aborted"}
  /\ startup \in {"unclaimed", "setup", "connecting", "returned", "delivered", "skipped"}
  /\ startupErr \in Err /\ auth \in {"none", "asking", "waiting", "over"}
  /\ reply \in {"none", "code", "cancelled"}
  /\ command \in [Runs -> {"none", "built", "running", "closing", "barrier",
                           "returned", "delivered"}]
  /\ result \in [Runs -> Err] /\ gate \in BOOLEAN
  /\ emitted \in [Runs -> 0..MaxOut] /\ shown \in [Runs -> Nat]
  /\ phase \in {"program", "command", "startup", "returned"}
EventsOK == events \in Seq(Event) /\ Len(events) <= Capacity

TypeOK == ContextsOK /\ ScreenOK /\ WaitersOK /\ WorkOK /\ EventsOK

Init ==
  /\ ctxDone = FALSE /\ startupCancelled = FALSE /\ lifetimeDone = FALSE
  /\ state = "starting" /\ quitting = FALSE /\ asked = FALSE
  /\ run = 0 /\ running = FALSE /\ cancelled = FALSE
  /\ pendingDone = {} /\ barriers = {} /\ completedRuns = {} /\ finished = <<>>
  /\ quit = FALSE /\ reader = Armed /\ asker = "armed" /\ watcher = "armed"
  /\ program = "running" /\ startup = "unclaimed" /\ startupErr = "nil"
  /\ auth = "none" /\ reply = "none"
  /\ command = [r \in Runs |-> "none"] /\ result = [r \in Runs |-> "nil"]
  /\ gate = TRUE
  /\ emitted = [r \in Runs |-> 0] /\ shown = [r \in Runs |-> 0]
  /\ events = <<>> /\ phase = "program"

-----------------------------------------------------------------------------
StartupDone == ctxDone \/ startupCancelled
CommandDone == ctxDone \/ cancelled

(* Emit waits for room; at the end of the sink's lifetime it gives up.     *)
(* (A definition whose name ends in _Slip is not part of the model: it is  *)
(* the definition after it with a mistake in it, used to see that the      *)
(* properties notice the mistake.)                                         *)
HasRoom_Slip == Len(events) <= Capacity
HasRoom == Len(events) < Capacity
Emit(e) ==
  \/ HasRoom /\ ~lifetimeDone /\ events' = Append(events, e)
  \/ lifetimeDone /\ UNCHANGED events

Interrupt ==
  /\ ~ctxDone /\ ctxDone' = TRUE
  /\ UNCHANGED <<startupCancelled, lifetimeDone, screen, waiters, program, start, reply,
                 work, shown, events, phase>>

-----------------------------------------------------------------------------
(* The startup.  One event stands for all that a step emits.               *)
Startup(from, to) ==
  /\ startup = from /\ startup' = to
  /\ UNCHANGED <<contexts, screen, waiters, program, reply, work, shown, phase>>

StartupBegins ==
  /\ Startup("unclaimed", "setup") /\ Emit(<<"out", 0>>)
  /\ UNCHANGED <<startupErr, auth>>

SetUp ==
  \/ /\ Startup("setup", "connecting") /\ auth' \in {"none", "asking"}
     /\ UNCHANGED <<startupErr, events>>
  \/ /\ Startup("setup", "returned") /\ startupErr' = "error"
     /\ UNCHANGED <<auth, events>>

(* Connect, GetSelf and the history of earlier prompts.                    *)
Connected ==
  /\ auth = "none" \/ (auth = "over" /\ reply = "code")
  /\ Startup("connecting", "returned") /\ Emit(<<"out", 0>>)
  /\ UNCHANGED <<startupErr, auth>>

(* A Connect whose context is cancelled does not wait for its client, nor  *)
(* for the authenticator in it.                                            *)
ConnectFails ==
  /\ Startup("connecting", "returned")
  /\ \/ StartupDone /\ startupErr' = "cancelled"
     \/ auth \notin {"asking", "waiting"} /\ startupErr' = "error"
  /\ UNCHANGED <<auth, events>>

(* Code: the request meets waitForAuthCodeRequest; then comes the reply.   *)
Ask ==
  /\ auth = "asking" /\ asker = "armed"
  /\ auth' = "waiting" /\ asker' = "holding"
  /\ UNCHANGED <<contexts, screen, reader, watcher, program, startup, startupErr, reply,
                 work, shown, events, phase>>

Answered ==
  /\ \/ auth = "waiting" /\ reply # "none"
     \/ auth \in {"asking", "waiting"} /\ (StartupDone \/ lifetimeDone)
  /\ auth' = "over"
  /\ UNCHANGED <<contexts, screen, waiters, program, startup, startupErr, reply, work,
                 shown, events, phase>>

-----------------------------------------------------------------------------
(* The command that submitCommand returns.  It takes the gate or gives up; *)
(* the gate is free again before the command has closed: flushed its       *)
(* writers, recorded its line, emitted its barrier and returned.           *)
Command(r, from, to) ==
  /\ command[r] = from /\ command' = [command EXCEPT ![r] = to]
  /\ UNCHANGED <<contexts, screen, waiters, program, start, reply, shown, phase>>

Acquire(r) ==
  /\ gate /\ Command(r, "built", "running") /\ gate' = FALSE
  /\ UNCHANGED <<result, emitted, events>>

TooLate(r) ==
  /\ CommandDone /\ Command(r, "built", "closing")
  /\ result' = [result EXCEPT ![r] = "cancelled"]
  /\ UNCHANGED <<gate, emitted, events>>

Line(r) ==
  /\ emitted[r] < MaxOut /\ Emit(<<"out", r>>)
  /\ emitted' = [emitted EXCEPT ![r] = @ + 1]

Output(r) ==
  /\ Command(r, "running", "running") /\ Line(r)
  /\ UNCHANGED <<result, gate>>

Executed(r) ==
  /\ Command(r, "running", "closing") /\ gate' = TRUE
  /\ \E e \in {"nil", "error"} \cup (IF CommandDone THEN {"cancelled"} ELSE {}) :
       result' = [result EXCEPT ![r] = e]
  /\ UNCHANGED <<emitted, events>>

(* A last line without its newline, or the error of Record, may follow.    *)
Flush(r) ==
  /\ Command(r, "closing", "barrier")
  /\ Line(r) \/ UNCHANGED <<emitted, events>>
  /\ UNCHANGED <<result, gate>>

Barrier(r) ==
  /\ Command(r, "barrier", "returned") /\ Emit(<<"barrier", r>>)
  /\ UNCHANGED <<result, gate, emitted>>

-----------------------------------------------------------------------------
(* The screen.  Each action is the Update of one message.                  *)
Read ==
  /\ reader = Armed /\ events # <<>>
  /\ reader' = Head(events) /\ events' = Tail(events)
  /\ UNCHANGED <<contexts, screen, asker, watcher, program, start, reply, work, shown,
                 phase>>

Update ==
  /\ program = "running"
  /\ UNCHANGED <<ctxDone, lifetimeDone, program, startupErr, auth, result, gate, emitted,
                 events, phase>>

EventMsg ==
  /\ Update /\ reader \in {"out"} \X (Runs \cup {0}) /\ reader' = Armed
  /\ shown' = (IF reader[2] = 0 THEN shown ELSE [shown EXCEPT ![reader[2]] = @ + 1])
  /\ UNCHANGED <<startupCancelled, screen, asker, watcher, startup, reply, command>>

(* finalizeCommand and finishCommand                                       *)
Final_Slip(r, d, b) == r \notin completedRuns /\ r \in d
Final(r, d, b) == r \notin completedRuns /\ r \in d /\ r \in b

(* Only the command that ends a quitting session ends the reading, too.    *)
Rearm_Slip(final) == IF final THEN Off ELSE Armed
Rearm(final) == IF final /\ quitting THEN Off ELSE Armed

Finalize(r, d, b) ==
  /\ IF Final(r, d, b)
     THEN /\ pendingDone' = {} /\ barriers' = {} /\ completedRuns' = {r}
          /\ finished' = Append(finished, <<r, result[r]>>)
          /\ running' = FALSE /\ cancelled' = TRUE /\ quit' = (quit \/ quitting)
     ELSE /\ pendingDone' = d /\ barriers' = b
          /\ UNCHANGED <<completedRuns, finished, running, cancelled, quit>>
  /\ UNCHANGED <<startupCancelled, state, quitting, asked, run, asker, watcher, startup,
                 reply, shown>>

BarrierMsg ==
  /\ Update /\ reader \in {"barrier"} \X Runs
  /\ LET r == reader[2] IN
     /\ Finalize(r, pendingDone, barriers \cup {r})
     /\ reader' = Rearm(Final(r, pendingDone, barriers \cup {r}))
  /\ UNCHANGED command

CommandMsg(r) ==
  /\ Update /\ command[r] = "returned"
  /\ command' = [command EXCEPT ![r] = "delivered"]
  /\ Finalize(r, pendingDone \cup {r}, barriers)
  /\ UNCHANGED reader

(* finishStartup                                                           *)
StartupMsg ==
  /\ Update /\ startup = "returned" /\ startup' = "delivered"
  /\ \/ quitting /\ quit' = TRUE /\ UNCHANGED state
     \/ ~quitting /\ startupErr # "nil" /\ state' = "failed" /\ UNCHANGED quit
     \/ ~quitting /\ startupErr = "nil" /\ state' = "ready" /\ UNCHANGED quit
  /\ UNCHANGED <<startupCancelled, quitting, asked, run, running, cancelled, pendingDone,
                 barriers, completedRuns, finished, waiters, reply, command, shown>>

(* beginAuthCodeEntry: too late for a request, nobody replies to it.       *)
AuthMsg ==
  /\ Update /\ asker = "holding" /\ asker' = "off"
  /\ IF state \in {"stopping", "failed"}
     THEN UNCHANGED <<state, asked>>
     ELSE state' = "auth" /\ asked' = TRUE
  /\ UNCHANGED <<startupCancelled, quitting, run, running, cancelled, pendingDone, barriers,
                 completedRuns, finished, quit, reader, watcher, startup, reply, command,
                 shown>>

EnterCode ==
  /\ Update /\ state = "auth" /\ state' = "starting"
  /\ asked' = FALSE /\ reply' = (IF asked THEN "code" ELSE reply) /\ asker' = "armed"
  /\ UNCHANGED <<startupCancelled, quitting, run, running, cancelled, pendingDone, barriers,
                 completedRuns, finished, quit, reader, watcher, startup, command, shown>>

(* submitLine: while a command runs the keys are not looked at.            *)
MaySubmit_Slip == state = "ready"
MaySubmit == state = "ready" /\ ~running

Submit ==
  /\ Update /\ MaySubmit /\ run < MaxRuns
  /\ run' = run + 1 /\ running' = TRUE /\ cancelled' = FALSE
  /\ command' = [command EXCEPT ![run'] = "built"]
  /\ UNCHANGED <<startupCancelled, state, quitting, asked, pendingDone, barriers,
                 completedRuns, finished, quit, waiters, startup, reply, shown>>

Quit ==
  /\ quit' = TRUE
  /\ UNCHANGED <<startupCancelled, state, quitting, asked, cancelled, reply>>

(* cancelStartup                                                           *)
CancelStartup ==
  \/ state = "failed" /\ Quit
  \/ /\ state # "failed" /\ state' = "stopping" /\ quitting' = TRUE /\ asked' = FALSE
     /\ reply' = (IF asked THEN "cancelled" ELSE reply)
     /\ startupCancelled' = TRUE
     /\ UNCHANGED <<cancelled, quit>>

(* Ctrl+C stops a running command; otherwise it, Ctrl+D or "exit" quit.    *)
Key ==
  /\ Update
  /\ \/ state # "ready" /\ CancelStartup
     \/ state = "ready" /\ ~running /\ Quit
     \/ /\ state = "ready" /\ running /\ cancelled' = TRUE
        /\ UNCHANGED <<startupCancelled, state, quitting, asked, quit, reply>>
  /\ UNCHANGED <<run, running, pendingDone, barriers, completedRuns, finished, waiters,
                 startup, command, shown>>

ContextMsg ==
  /\ Update /\ watcher = "armed" /\ ctxDone /\ watcher' = "off"
  /\ \/ state # "ready" /\ CancelStartup
     \/ state = "ready" /\ ~running /\ Quit
     \/ /\ state = "ready" /\ running /\ quitting' = TRUE /\ cancelled' = TRUE
        /\ UNCHANGED <<startupCancelled, state, asked, quit, reply>>
  /\ UNCHANGED <<run, running, pendingDone, barriers, completedRuns, finished, reader,
                 asker, startup, command, shown>>

Ends(how) ==
  /\ program = "running" /\ program' = how
  /\ UNCHANGED <<contexts, screen, waiters, start, reply, work, shown, events, phase>>

QuitMsg == quit /\ Ends("ended")
Abort == Ends("aborted")

-----------------------------------------------------------------------------
(* runPromptTUI after its program: it cancels, waits for the command that  *)
(* the screen still had, claims a startup nobody began or waits for it,    *)
(* and drains the events meanwhile.                                        *)
StartupOver == startup \in {"returned", "delivered", "skipped"}
CommandOver_Slip == running => command[run] # "running"
CommandOver == running => command[run] \in {"returned", "delivered"}

Shut ==
  /\ phase = "program" /\ program # "running" /\ phase' = "command"
  /\ startupCancelled' = TRUE /\ cancelled' = (cancelled \/ running)
  /\ UNCHANGED <<ctxDone, lifetimeDone, state, quitting, asked, run, running, pendingDone,
                 barriers, completedRuns, finished, quit, waiters, program, start, reply,
                 work, shown, events>>

CommandJoined ==
  /\ phase = "command" /\ CommandOver /\ phase' = "startup"
  /\ startup' = (IF startup = "unclaimed" THEN "skipped" ELSE startup)
  /\ UNCHANGED <<contexts, screen, waiters, program, startupErr, auth, reply, work, shown,
                 events>>

DrainEvent ==
  /\ \/ phase = "command" /\ ~CommandOver
     \/ phase = "startup" /\ ~StartupOver
  /\ events # <<>> /\ events' = Tail(events)
  /\ UNCHANGED <<contexts, screen, waiters, program, start, reply, work, shown, phase>>

Return ==
  /\ phase = "startup" /\ StartupOver /\ phase' = "returned" /\ lifetimeDone' = TRUE
  /\ UNCHANGED <<ctxDone, startupCancelled, screen, waiters, program, start, reply, work,
                 shown, events>>

-----------------------------------------------------------------------------
Begin == StartupBegins \/ SetUp \/ Connected \/ ConnectFails \/ Ask \/ Answered
Work(r) == Acquire(r) \/ TooLate(r) \/ Output(r) \/ Executed(r) \/ Flush(r) \/ Barrier(r)
Screen == Read \/ EventMsg \/ BarrierMsg \/ StartupMsg \/ AuthMsg \/ ContextMsg \/ QuitMsg
User == Interrupt \/ EnterCode \/ Submit \/ Key \/ Abort
Shutdown == Shut \/ CommandJoined \/ DrainEvent \/ Return

Next == Begin \/ Screen \/ User \/ Shutdown \/ \E r \in Runs : Work(r) \/ CommandMsg(r)

Spec == Init /\ [][Next]_vars

(* As in OneShot: goroutines run, Bubble Tea starts what it was given and  *)
(* delivers what it got while its program runs, and the connection and a   *)
(* command return when their contexts are cancelled.                       *)
Fairness ==
  /\ WF_vars(program = "running" /\ StartupBegins) /\ WF_vars(SetUp)
  /\ WF_vars(StartupDone /\ ConnectFails) /\ WF_vars(Answered)
  /\ \A r \in Runs :
       /\ WF_vars(program = "running" /\ (Acquire(r) \/ TooLate(r)))
       /\ WF_vars(CommandDone /\ Executed(r))
       /\ WF_vars(Flush(r)) /\ WF_vars(Barrier(r)) /\ WF_vars(CommandMsg(r))
  /\ WF_vars(Read) /\ WF_vars(EventMsg) /\ WF_vars(BarrierMsg) /\ WF_vars(StartupMsg)
  /\ WF_vars(ContextMsg) /\ WF_vars(QuitMsg) /\ WF_vars(Shutdown)

FairSpec == Spec /\ Fairness

-----------------------------------------------------------------------------
(* When the prompt is free, all that earlier commands have emitted is on   *)
(* the screen: nothing of it comes up behind the line of the next one.     *)
OutputBeforePrompt ==
  program = "running" /\ ~running =>
    \A r \in 1..run :
      /\ shown[r] = emitted[r]
      /\ \A i \in 1..Len(events) : events[i][2] # r
      /\ reader \notin {"out", "barrier"} \X {r}

(* Although the gate opens before a command has closed, two commands are   *)
(* never at work at once, and the screen shows each one's own result, once *)
(* and in the order of the lines.                                          *)
OwnResults ==
  /\ \A r, s \in Runs :
       {command[r], command[s]} \subseteq {"built", "running", "closing", "barrier"} => r = s
  /\ \A i \in 1..Len(finished) : finished[i] = <<i, result[i]>>
  /\ Len(finished) + (IF running THEN 1 ELSE 0) = run

(* When runPromptTUI returns, no startup and no command is at work or can  *)
(* begin, and none of them finds the channel of events cut off.            *)
Joined ==
  phase = "returned" =>
    /\ StartupOver
    /\ \A r \in Runs : command[r] \in {"none", "returned", "delivered"}

(* A prompt that is interrupted, that is quitting or whose screen is gone  *)
(* comes to its end, whatever its goroutines are at; unless the screen     *)
(* went between the building of a command and its start.  And Ctrl+C gives *)
(* the prompt back: a cancelled command comes to its end on the screen,    *)
(* which goes on reading until then, however full the channel.             *)
Lost == program # "running" /\ \E r \in Runs : command[r] = "built"
Ending == ctxDone \/ quitting \/ program # "running"

Returns ==
  /\ Ending ~> (phase = "returned" \/ Lost)
  /\ (running /\ cancelled) ~> (~running \/ program # "running")
=============================================================================
