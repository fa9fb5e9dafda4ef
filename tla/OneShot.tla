------------------------------ MODULE OneShot -------------------------------
(***************************************************************************)
(* A one-shot command from its start to the end of the process:            *)
(* runOneShotTUI (cmd/cmd/runtime_command.go), the screen it shows         *)
(* (oneshot_model.go), the startup behind it (runtime_startup.go), the     *)
(* client goroutine that Connect leaves running (pkg/telegram/client.go),  *)
(* the authenticator's request for a code (prompt_auth.go), the command    *)
(* (prompt_execution.go) and the bounded channel of events (events.go).    *)
(*                                                                         *)
(* Bubble Tea, an external library, runs every command of the screen in a  *)
(* goroutine and hands the messages they return to Update one at a time,   *)
(* in any order.  Once its program has ended it drops them, and owes no    *)
(* start to a command that it was given.  It may end by itself: a signal,  *)
(* a terminal that fails.                                                  *)
(***************************************************************************)
EXTENDS Naturals, Sequences

CONSTANTS
  Capacity,  \* of the channel of events
  MaxOut     \* bound: the events that the command emits before its barrier

ASSUME OneShotAssumption == Capacity \in Nat \ {0} /\ MaxOut \in Nat

VARIABLES
  online,            \* the command's mode needs a connection
  ctxDone, startupCancelled, commandCancelled, connectCancelled, lifetimeDone,
  state, starting, running, quitting, asked,  \* the screen: state, startup # nil,
                     \* running, quitting, and authRequest # nil
  doneErr, barrier,  \* its pendingDone and barriers
  startupErr, commandErr,
  reader,            \* waitForRendererEvent: "off", "armed" or the event it got
  asker,             \* waitForAuthCodeRequest: "off", "armed" or "holding"
  watcher,           \* waitForPromptContext: "armed" or "off"
  quit,              \* tea.Quit has been returned and not been handled
  program,           \* "running", "ended" by tea.Quit, "aborted" or "failed"
  startup, startupResult,
  command, commandResult, emitted, shown,
  client, clientErr, connectRow, initDone, reply,
  events,
  phase, stopFunc

contexts == <<online, ctxDone, startupCancelled, commandCancelled, connectCancelled,
              lifetimeDone>>
screen == <<state, starting, running, quitting, asked, doneErr, barrier,
            startupErr, commandErr, quit>>
waiters == <<reader, asker, watcher>>
start == <<startup, startupResult>>
work == <<command, commandResult, emitted>>
conn == <<client, clientErr, connectRow, initDone>>
shutdown == <<phase, stopFunc>>
vars == <<contexts, screen, waiters, program, start, work, shown, conn, reply,
          events, shutdown>>

Event == {"row", "out", "barrier"}
Err == {"nil", "cancelled", "error"}
Result == Err \cup {"none"}

ContextsOK ==
  /\ online \in BOOLEAN /\ ctxDone \in BOOLEAN /\ startupCancelled \in BOOLEAN
  /\ commandCancelled \in BOOLEAN /\ connectCancelled \in BOOLEAN
  /\ lifetimeDone \in BOOLEAN

ScreenOK ==
  /\ state \in {"starting", "auth", "ready", "failed", "stopping"}
  /\ starting \in BOOLEAN /\ running \in BOOLEAN /\ quitting \in BOOLEAN
  /\ asked \in BOOLEAN /\ barrier \in BOOLEAN /\ quit \in BOOLEAN
  /\ doneErr \in Result /\ startupErr \in Result /\ commandErr \in Err

WaitersOK ==
  /\ reader \in {"off", "armed"} \cup Event
  /\ asker \in {"off", "armed", "holding"} /\ watcher \in {"off", "armed"}

WorkOK ==
  /\ program \in {"running", "ended", "aborted", "failed"}
  /\ startup \in {"unclaimed", "setup", "connecting", "failing", "returned",
                  "delivered", "skipped"}
  /\ command \in {"none", "built", "running", "barrier", "returned", "delivered"}
  /\ startupResult \in Result /\ commandResult \in Result
  /\ emitted \in 0..MaxOut /\ shown \in Nat

ConnectionOK ==
  /\ client \in {"none", "dialing", "auth", "asking", "waiting", "preparing", "ready",
                 "logout", "gone"}
  /\ clientErr \in Err /\ connectRow \in BOOLEAN /\ initDone \in BOOLEAN
  /\ reply \in {"none", "code", "cancelled"}
  /\ phase \in {"program", "join", "disconnect", "returned"} /\ stopFunc \in BOOLEAN

EventsOK == events \in Seq(Event) /\ Len(events) <= Capacity

TypeOK ==
  ContextsOK /\ ScreenOK /\ WaitersOK /\ WorkOK /\ ConnectionOK /\ EventsOK

Init ==
  /\ online \in BOOLEAN
  /\ ctxDone = FALSE /\ startupCancelled = FALSE /\ commandCancelled = FALSE
  /\ connectCancelled = FALSE /\ lifetimeDone = FALSE
  /\ state = "starting" /\ starting = TRUE
  /\ running = FALSE /\ quitting = FALSE /\ asked = FALSE
  /\ doneErr = "none" /\ barrier = FALSE /\ startupErr = "nil" /\ commandErr = "nil"
  /\ reader = "armed" /\ asker = "armed" /\ watcher = "armed"
  /\ quit = FALSE /\ program = "running"
  /\ startup = "unclaimed" /\ startupResult = "none"
  /\ command = "none" /\ commandResult = "none" /\ emitted = 0 /\ shown = 0
  /\ client = "none" /\ clientErr = "nil" /\ connectRow = FALSE /\ initDone = FALSE
  /\ reply = "none" /\ events = <<>>
  /\ phase = "program" /\ stopFunc = FALSE

-----------------------------------------------------------------------------
StartupDone == ctxDone \/ startupCancelled
ConnectDone == StartupDone \/ connectCancelled
CommandDone == ctxDone \/ commandCancelled

(* Emit waits for room; at the end of the sink's lifetime it gives up.     *)
Emit(e) ==
  \/ Len(events) < Capacity /\ ~lifetimeDone /\ events' = Append(events, e)
  \/ lifetimeDone /\ UNCHANGED events

(* The user, or the system, interrupts the process.                        *)
Interrupt ==
  /\ ~ctxDone /\ ctxDone' = TRUE
  /\ UNCHANGED <<online, startupCancelled, commandCancelled, connectCancelled,
                 lifetimeDone, screen, waiters, program, start, work, shown, conn,
                 reply, events, shutdown>>

-----------------------------------------------------------------------------
(* The startup: initializeRuntime with its progress row, then Connect.  One*)
(* event stands for all that a step emits.                                 *)

(* A goroutine that comes after the shutdown finds the startup claimed.    *)
(* (A definition whose name ends in _Slip is not part of the model: it is  *)
(* the definition after it with a mistake in it, used to see that the      *)
(* properties notice the mistake.)                                         *)
Claimable_Slip == startup \in {"unclaimed", "skipped"}
Claimable == startup = "unclaimed"

StartupBegins ==
  /\ Claimable /\ Emit("row")
  /\ startup' = "setup"
  /\ UNCHANGED <<contexts, screen, waiters, program, startupResult, work, shown, conn,
                 reply, shutdown>>

SetUp(e) ==
  /\ startup = "setup" /\ Emit("row")
  /\ IF e = "nil" /\ online
     THEN /\ startup' = "connecting" /\ client' = "dialing" /\ connectRow' = TRUE
          /\ UNCHANGED startupResult
     ELSE /\ startup' = "returned" /\ startupResult' = e
          /\ UNCHANGED <<client, connectRow>>
  /\ UNCHANGED <<contexts, screen, waiters, program, work, shown, clientErr, initDone,
                 reply, shutdown>>

(* waitForConnectInit: the first of three things, at random if several     *)
(* have happened.  Its row ends first when the connection has failed.      *)
Connected ==
  /\ startup = "connecting" /\ initDone
  /\ startup' = "returned" /\ startupResult' = "nil" /\ stopFunc' = TRUE
  /\ UNCHANGED <<contexts, screen, waiters, program, work, shown, conn, reply, events,
                 phase>>

ConnectFails ==
  /\ startup = "connecting"
  /\ connectCancelled' = TRUE /\ startup' = "failing"
  /\ \/ ConnectDone /\ startupResult' = "cancelled"
     \/ client = "gone" /\ startupResult' = clientErr
  /\ UNCHANGED <<online, ctxDone, startupCancelled, commandCancelled, lifetimeDone,
                 screen, waiters, program, work, shown, conn, reply, events, shutdown>>

ConnectRowFails ==
  /\ startup = "failing" /\ startup' = "returned"
  /\ IF connectRow THEN Emit("row") ELSE UNCHANGED events
  /\ connectRow' = FALSE
  /\ stopFunc' = (startupResult = "nil")
  /\ UNCHANGED <<contexts, screen, waiters, program, startupResult, work, shown, client,
                 clientErr, initDone, reply, phase>>

-----------------------------------------------------------------------------
(* The client goroutine: runClient and the function that Connect gives it. *)

Client(from, to) ==
  /\ client = from /\ client' = to
  /\ UNCHANGED <<contexts, screen, waiters, program, start, work, shown, reply,
                 shutdown>>

Dialed ==
  /\ Client("dialing", "auth") /\ connectRow' = FALSE
  /\ IF connectRow THEN Emit("row") ELSE UNCHANGED events
  /\ UNCHANGED <<clientErr, initDone>>

(* IfNecessary: the session is authorized, or a code has been sent.        *)
NeedsCode == Client("auth", "asking") /\ UNCHANGED <<clientErr, connectRow, initDone, events>>
Authorized ==
  /\ Client("auth", "preparing") /\ Emit("row")
  /\ UNCHANGED <<clientErr, connectRow, initDone>>

(* Code: the request meets waitForAuthCodeRequest; then comes the reply.   *)
Ask ==
  /\ client = "asking" /\ asker = "armed"
  /\ client' = "waiting" /\ asker' = "holding"
  /\ UNCHANGED <<contexts, screen, reader, watcher, program, start, work, shown,
                 clientErr, connectRow, initDone, reply, events, shutdown>>

SignedIn ==
  /\ reply = "code" /\ Client("waiting", "preparing") /\ Emit("row")
  /\ UNCHANGED <<clientErr, connectRow, initDone>>

(* The dialog cache is filled and the update manager has started.          *)
Prepared ==
  /\ Client("preparing", "ready") /\ initDone' = TRUE /\ Emit("row")
  /\ UNCHANGED <<clientErr, connectRow>>

(* Before that everything may fail; but the wait for a code ends only with *)
(* a reply or a context.  gotd returns nil when its context was cancelled. *)
ClientFails ==
  /\ \/ client \in {"dialing", "auth", "preparing"}
     \/ client = "waiting" /\ reply = "code"
  /\ Client(client, "gone")
  /\ clientErr' \in IF ConnectDone THEN Err ELSE {"error"}
  /\ IF client = "dialing" THEN UNCHANGED events ELSE Emit("row")
  /\ UNCHANGED <<connectRow, initDone>>

Unanswered ==
  /\ client \in {"asking", "waiting"}
  /\ ConnectDone \/ lifetimeDone \/ reply = "cancelled"
  /\ Client(client, "gone") /\ Emit("row") /\ clientErr' \in {"nil", "cancelled"}
  /\ UNCHANGED <<connectRow, initDone>>

(* Afterwards it runs until its context ends or the connection breaks, and *)
(* then waits for the update manager, with a row of its own.               *)
LogsOut ==
  /\ Client("ready", "logout") /\ Emit("row")
  /\ UNCHANGED <<clientErr, connectRow, initDone>>

LoggedOut ==
  /\ Client("logout", "gone") /\ Emit("row")
  /\ clientErr' \in IF ConnectDone THEN Err ELSE {"error"}
  /\ UNCHANGED <<connectRow, initDone>>

-----------------------------------------------------------------------------
(* The command.  Its context may be cancelled before it begins; whatever   *)
(* its end, the barrier is the last event it emits.                        *)
Command(from, to) ==
  /\ command = from /\ command' = to
  /\ UNCHANGED <<contexts, screen, waiters, program, start, shown, conn, reply, shutdown>>

CommandBegins ==
  /\ ~CommandDone /\ Command("built", "running")
  /\ UNCHANGED <<commandResult, emitted, events>>

CommandTooLate ==
  /\ CommandDone /\ Command("built", "barrier")
  /\ commandResult' = "cancelled"
  /\ UNCHANGED <<emitted, events>>

Output ==
  /\ emitted < MaxOut /\ Command("running", "running")
  /\ Emit("out") /\ emitted' = emitted + 1
  /\ UNCHANGED commandResult

CommandEnds ==
  /\ Command("running", "barrier")
  /\ commandResult' \in {"nil", "error"} \cup (IF CommandDone THEN {"cancelled"} ELSE {})
  /\ UNCHANGED <<emitted, events>>

Barrier ==
  /\ Command("barrier", "returned") /\ Emit("barrier")
  /\ UNCHANGED <<commandResult, emitted>>

-----------------------------------------------------------------------------
(* The screen.  Each action is the Update of one message.                  *)
Update ==
  /\ program = "running"
  /\ UNCHANGED <<online, ctxDone, connectCancelled, lifetimeDone, program, startupResult,
                 commandResult, emitted, conn, events, shutdown>>

(* A goroutine takes the next event, at any time in its sink's lifetime.   *)
Read ==
  /\ reader = "armed" /\ events # <<>>
  /\ reader' = Head(events) /\ events' = Tail(events)
  /\ UNCHANGED <<contexts, screen, asker, watcher, program, start, work, shown, conn,
                 reply, shutdown>>

EventMsg ==
  /\ Update /\ reader \in {"row", "out"}
  /\ reader' = "armed" /\ shown' = IF reader = "out" THEN shown + 1 ELSE shown
  /\ UNCHANGED <<startupCancelled, commandCancelled, screen, asker, watcher, startup,
                 command, reply>>

(* finalizeCommand: a command has ended when its result and its barrier    *)
(* are there, in either order.                                             *)
Final_Slip(d, b) == d # "none"
Final(d, b) == d # "none" /\ b

Finalize(d, b) ==
  /\ IF Final(d, b)
     THEN /\ doneErr' = "none" /\ barrier' = FALSE /\ running' = FALSE
          /\ commandErr' = d /\ commandCancelled' = TRUE /\ quit' = TRUE
     ELSE /\ doneErr' = d /\ barrier' = b
          /\ UNCHANGED <<running, commandErr, commandCancelled, quit>>
  /\ UNCHANGED <<startupCancelled, state, starting, quitting, asked, startupErr, asker,
                 watcher, shown, startup, reply>>

BarrierMsg ==
  /\ Update /\ reader = "barrier" /\ reader' = "off"
  /\ Finalize(doneErr, TRUE) /\ UNCHANGED command

CommandMsg ==
  /\ Update /\ command = "returned" /\ command' = "delivered"
  /\ Finalize(commandResult, barrier) /\ UNCHANGED reader

(* finishStartup                                                           *)
StartupMsg ==
  /\ Update /\ startup = "returned" /\ startup' = "delivered"
  /\ starting' = FALSE /\ startupErr' = startupResult
  /\ \/ /\ quitting /\ quit' = TRUE
        /\ UNCHANGED <<state, running, command>>
     \/ /\ ~quitting /\ startupResult # "nil" /\ state' = "failed"
        /\ UNCHANGED <<quit, running, command>>
     \/ /\ ~quitting /\ startupResult = "nil" /\ state' = "ready"
        /\ running' = TRUE /\ command' = "built"
        /\ UNCHANGED quit
  /\ UNCHANGED <<startupCancelled, commandCancelled, quitting, asked, doneErr, barrier,
                 commandErr, waiters, shown, reply>>

(* beginAuthCodeEntry: too late for a request, nobody replies to it.       *)
AuthMsg ==
  /\ Update /\ asker = "holding" /\ asker' = "off"
  /\ IF state \in {"stopping", "failed"}
     THEN UNCHANGED <<state, asked>>
     ELSE state' = "auth" /\ asked' = TRUE
  /\ UNCHANGED <<startupCancelled, commandCancelled, starting, running, quitting, doneErr,
                 barrier, startupErr, commandErr, quit, reader, watcher, shown, startup,
                 command, reply>>

(* The user enters the code.                                               *)
Enter ==
  /\ Update /\ state = "auth" /\ state' = "starting"
  /\ asked' = FALSE /\ reply' = IF asked THEN "code" ELSE reply
  /\ asker' = "armed"
  /\ UNCHANGED <<startupCancelled, commandCancelled, starting, running, quitting, doneErr,
                 barrier, startupErr, commandErr, quit, reader, watcher, shown, startup,
                 command>>

(* cancelWork                                                              *)
MayQuit_Slip == ~running
MayQuit == ~running /\ ~starting

CancelWork ==
  /\ quitting' = TRUE /\ state' = "stopping" /\ asked' = FALSE
  /\ reply' = IF asked THEN "cancelled" ELSE reply
  /\ startupCancelled' = TRUE
  /\ commandCancelled' = (commandCancelled \/ running)
  /\ quit' = (quit \/ MayQuit)
  /\ UNCHANGED <<starting, running, doneErr, barrier, startupErr, commandErr, reader,
                 asker, shown, startup, command>>

(* Ctrl+C or Ctrl+D, and the end of the context that the screen was given. *)
Key ==
  /\ Update
  /\ \/ state # "failed" /\ CancelWork /\ UNCHANGED watcher
     \/ /\ state = "failed" /\ quit' = TRUE
        /\ UNCHANGED <<startupCancelled, commandCancelled, state, starting, running,
                       quitting, asked, doneErr, barrier, startupErr, commandErr, waiters,
                       shown, startup, command, reply>>

ContextMsg ==
  /\ Update /\ watcher = "armed" /\ ctxDone /\ watcher' = "off"
  /\ CancelWork

Ends(how) ==
  /\ program = "running" /\ program' = how
  /\ UNCHANGED <<contexts, screen, waiters, start, work, shown, conn, reply, events,
                 shutdown>>

QuitMsg == quit /\ Ends("ended")

(* Bubble Tea ends by itself, without an error (SIGTERM) or with one.      *)
Abort == Ends("aborted") \/ Ends("failed")

-----------------------------------------------------------------------------
(* runOneShotTUI after its program: it claims a startup that nobody began, *)
(* joins the rest while it drains the events, ends the lifetime, and       *)
(* disconnects.                                                            *)
Shut ==
  /\ phase = "program" /\ program # "running" /\ phase' = "join"
  /\ startupCancelled' = TRUE /\ commandCancelled' = (commandCancelled \/ running)
  /\ startup' = IF startup = "unclaimed" THEN "skipped" ELSE startup
  /\ UNCHANGED <<online, ctxDone, connectCancelled, lifetimeDone, screen, waiters,
                 program, startupResult, work, shown, conn, reply, events, stopFunc>>

StartupOver == startup \in {"returned", "delivered", "skipped"}
CommandOver == command \in {"none", "returned", "delivered"}

Drain_Slip == phase = "join" /\ ~StartupOver
Drain == phase = "join" /\ ~(StartupOver /\ CommandOver)

DrainEvent ==
  /\ Drain /\ events # <<>> /\ events' = Tail(events)
  /\ UNCHANGED <<contexts, screen, waiters, program, start, work, shown, conn, reply,
                 shutdown>>

LifetimeEnds ==
  /\ phase = "join" /\ StartupOver /\ CommandOver
  /\ phase' = "disconnect" /\ lifetimeDone' = TRUE
  /\ UNCHANGED <<online, ctxDone, startupCancelled, commandCancelled, connectCancelled,
                 screen, waiters, program, start, work, shown, conn, reply, events,
                 stopFunc>>

(* Close: Disconnect waits for the client, if Connect has returned it, and *)
(* the database is closed.                                                 *)
MayClose == stopFunc => client = "gone"

Close ==
  /\ phase = "disconnect" /\ MayClose /\ phase' = "returned" /\ stopFunc' = FALSE
  /\ UNCHANGED <<contexts, screen, waiters, program, start, work, shown, conn, reply,
                 events>>

-----------------------------------------------------------------------------
Startup == StartupBegins \/ (\E e \in {"nil", "error"} : SetUp(e)) \/ ConnectFails
           \/ Connected \/ ConnectRowFails
Connection == Dialed \/ NeedsCode \/ Authorized \/ Ask \/ SignedIn \/ Prepared
              \/ ClientFails \/ Unanswered \/ LogsOut \/ LoggedOut
Work == CommandBegins \/ CommandTooLate \/ Output \/ CommandEnds \/ Barrier
Screen == Read \/ EventMsg \/ BarrierMsg \/ CommandMsg \/ StartupMsg \/ AuthMsg
          \/ ContextMsg \/ QuitMsg
User == Interrupt \/ Enter \/ Key \/ Abort
Shutdown == Shut \/ DrainEvent \/ LifetimeEnds \/ Close

Next == Startup \/ Connection \/ Work \/ Screen \/ User \/ Shutdown

Spec == Init /\ [][Next]_vars

(* Goroutines that can run do run, Bubble Tea starts what it was given and *)
(* delivers what it got as long as its program runs, and the client and    *)
(* the command return when their contexts are cancelled.  The user and the *)
(* network owe nothing.                                                    *)
Fairness ==
  /\ WF_vars(program = "running" /\ StartupBegins)
  /\ WF_vars(\E e \in {"nil", "error"} : SetUp(e))
  /\ WF_vars(ConnectFails \/ Connected) /\ WF_vars(ConnectRowFails)
  /\ WF_vars(ConnectDone /\ ClientFails) /\ WF_vars(Ask) /\ WF_vars(Unanswered)
  /\ WF_vars(ConnectDone /\ LogsOut) /\ WF_vars(LoggedOut)
  /\ WF_vars(program = "running" /\ (CommandBegins \/ CommandTooLate))
  /\ WF_vars(CommandDone /\ CommandEnds) /\ WF_vars(Barrier)
  /\ WF_vars(Read) /\ WF_vars(EventMsg) /\ WF_vars(BarrierMsg) /\ WF_vars(CommandMsg)
  /\ WF_vars(StartupMsg) /\ WF_vars(AuthMsg) /\ WF_vars(ContextMsg) /\ WF_vars(QuitMsg)
  /\ WF_vars(Shutdown)

FairSpec == Spec /\ Fairness

-----------------------------------------------------------------------------
(* When the events are cut off and the database is closed, neither startup *)
(* nor command is at work or can begin, and a connection that Connect has  *)
(* made is over.                                                           *)
Joined ==
  /\ phase \in {"disconnect", "returned"} => StartupOver /\ CommandOver
  /\ phase = "returned" /\ startupResult = "nil" => client \in {"none", "gone"}

(* A command that the screen holds for ended has had all of its output     *)
(* shown, although results and events come by different ways.              *)
OutputComplete == command # "none" /\ ~running => shown = emitted

(* The session returns the errors of its startup and of its command, and   *)
(* without an interruption it does not end before both have been made.     *)
ResultFaithful ==
  phase = "returned" /\ program = "ended" =>
    /\ startup = "delivered" /\ startupErr = startupResult
    /\ commandErr = (IF command = "none" THEN "nil" ELSE commandResult)
    /\ ~quitting /\ startupErr = "nil" => command = "delivered"

(* A session that is interrupted, or whose screen is gone, comes to its    *)
(* end whatever its goroutines and its full channel were at; unless the    *)
(* screen went between the building of the command and its start.  And an  *)
(* authenticator that asks or waits for a code is released by it.          *)
Lost == program # "running" /\ command = "built"
Ending == ctxDone \/ quitting \/ program # "running"

Returns ==
  /\ Ending ~> (phase = "returned" \/ Lost)
  /\ (Ending /\ client \in {"asking", "waiting"}) ~> (client = "gone")

(* The design says without exception that work is waited for and the       *)
(* program then returns ...                                                *)
AlwaysReturns == (program # "running") ~> (phase = "returned")

(* ... and that initialization goroutines are joined before it exits.      *)
AllJoined == phase = "returned" => client \in {"none", "gone"}
=============================================================================
