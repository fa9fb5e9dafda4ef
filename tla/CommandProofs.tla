------------------------------ MODULE CommandProofs ------------------------------
(***************************************************************************)
(* Proofs about the two ends of a download command: the session it runs in *)
(* (OneShot) and the files it leaves behind (FileTransfer).  The two share *)
(* no state; each part below is about one of them alone.                   *)
(*                                                                         *)
(* OneShot, for a channel of any capacity and any amount of output: the    *)
(* shutdown joins what is at work, the output of a command is shown before *)
(* its end, and the errors that the session returns are those of its       *)
(* startup and its command.  Each follows from one part of Sound: Ordered, *)
(* Flushed and Settled.                                                    *)
(*                                                                         *)
(* FileTransfer, for any number of workers, paths, chunks and attempts:    *)
(* what is on disk is the beginning of the file, what earlier sessions     *)
(* have left is never lost, and what is counted is complete.  The three    *)
(* follow from Coherent: on a path that is not mixed there is at most one  *)
(* writer, and where it writes is where the file ends.                     *)
(***************************************************************************)
EXTENDS OneShot, FileTransfer, FiniteSetTheorems, FunctionTheorems, SequenceTheorems,
  TLAPS

-----------------------------------------------------------------------------
(* The order in which things begin and end.                                *)

Ordered ==
  /\ phase # "program" => program # "running" /\ startup # "unclaimed"
  /\ startup \in {"unclaimed", "setup", "skipped"} => client = "none"
  /\ startup \in {"unclaimed", "setup", "connecting", "skipped"} =>
       startupResult = "none"
  /\ startup \in {"returned", "delivered"} /\ startupResult = "nil"
     /\ phase # "returned" => stopFunc \/ client \in {"none", "gone"}
  /\ Joined

(* What the screen knows of its startup and its command, and what a quit   *)
(* that has been decided says of them.                                     *)
Settled ==
  /\ starting <=> startup # "delivered"
  /\ startup = "delivered" => startupErr = startupResult
  /\ command # "none" => startup = "delivered"
  /\ command = "none" => ~running /\ commandErr = "nil" /\ doneErr = "none"
  /\ doneErr # "none" => command = "delivered" /\ doneErr = commandResult
  /\ command # "none" /\ ~running =>
       command = "delivered" /\ commandErr = commandResult
  /\ state = "failed" =>
       startup = "delivered" /\ startupErr # "nil" /\ command = "none"
  /\ quit => ~starting /\ ~running
  /\ quit /\ ~quitting /\ startupErr = "nil" => command = "delivered"
  /\ program = "ended" => quit

(* The output on its way.  Once the barrier is read, or the command over,  *)
(* no more is to come, in the channel or anywhere.                         *)
Outs(s) == Cardinality({i \in 1..Len(s) : s[i] = "out"})
NoOuts(s) == \A i \in 1..Len(s) : s[i] # "out"
HasBarrier(s) == \E i \in 1..Len(s) : s[i] = "barrier"
BarrierLast(s) ==
  \A i, j \in 1..Len(s) : s[i] = "barrier" /\ i < j => s[j] # "out"

Held == IF reader = "out" THEN 1 ELSE 0
Finished == command \in {"returned", "delivered"}
Past == barrier \/ reader = "barrier" \/ (command # "none" /\ ~running)

Flushed ==
  /\ lifetimeDone => phase \in {"disconnect", "returned"}
  /\ phase = "program" => emitted = shown + Held + Outs(events)
  /\ Past => Finished /\ reader # "out" /\ NoOuts(events)
  /\ HasBarrier(events) => Finished
  /\ BarrierLast(events)
  /\ OutputComplete

Sound == TypeOK /\ Ordered /\ Settled /\ Flushed

-----------------------------------------------------------------------------
(* Types.                                                                  *)

(* What a step that emits does to the channel, or one that takes from it.  *)
LEMMA EmitTyped ==
  ASSUME EventsOK, NEW e \in Event, Emit(e)
  PROVE  EventsOK'
  BY OneShotAssumption DEF EventsOK, Emit

LEMMA TakeTyped ==
  ASSUME EventsOK, events # <<>>
  PROVE  /\ Head(events) \in Event /\ Tail(events) \in Seq(Event)
         /\ events' = Tail(events) => EventsOK'
  BY OneShotAssumption DEF EventsOK

(* What a step leaves alone keeps its type.                                *)
LEMMA Frames ==
  ASSUME TypeOK
  PROVE  /\ UNCHANGED contexts => ContextsOK'
         /\ UNCHANGED screen => ScreenOK'
         /\ UNCHANGED waiters => WaitersOK'
         /\ UNCHANGED <<program, start, work, shown>> => WorkOK'
         /\ UNCHANGED <<conn, reply, shutdown>> => ConnectionOK'
         /\ UNCHANGED events => EventsOK'
  BY DEF TypeOK, ContextsOK, ScreenOK, WaitersOK, WorkOK, ConnectionOK, EventsOK,
         contexts, screen, waiters, start, work, conn, shutdown

LEMMA StartupTyped ==
  ASSUME TypeOK, Startup PROVE TypeOK'
<1>1. CASE StartupBegins
  BY <1>1, EmitTyped, Frames DEF StartupBegins, Claimable, TypeOK, WorkOK,
         EventsOK, start, work, Err, Result, Event
<1>2. ASSUME NEW e \in {"nil", "error"}, SetUp(e) PROVE TypeOK'
  <2>1. WorkOK'
    BY <1>2 DEF SetUp, TypeOK, WorkOK, start, work, Err, Result
  <2>2. ConnectionOK'
    BY <1>2 DEF SetUp, TypeOK, ConnectionOK, conn, shutdown, Err
  <2>3. EventsOK'
    BY <1>2, EmitTyped DEF SetUp, TypeOK, EventsOK, Event
  <2>. QED
    BY <1>2, <2>1, <2>2, <2>3, Frames DEF SetUp, TypeOK
<1>3. CASE ConnectFails
  <2>1. ContextsOK'
    BY <1>3 DEF ConnectFails, TypeOK, ContextsOK, contexts
  <2>2. WorkOK'
    BY <1>3 DEF ConnectFails, TypeOK, WorkOK, ConnectionOK, start, work, Err,
           Result
  <2>. QED
    BY <1>3, <2>1, <2>2, Frames DEF ConnectFails, TypeOK
<1>4. CASE Connected
  <2>1. WorkOK'
    BY <1>4 DEF Connected, TypeOK, WorkOK, start, work, Err, Result
  <2>2. ConnectionOK'
    BY <1>4 DEF Connected, TypeOK, ConnectionOK, conn, shutdown, Err
  <2>. QED
    BY <1>4, <2>1, <2>2, Frames DEF Connected, TypeOK
<1>5. CASE ConnectRowFails
  <2>1. WorkOK'
    BY <1>5 DEF ConnectRowFails, TypeOK, WorkOK, start, work, Err, Result
  <2>2. ConnectionOK'
    BY <1>5 DEF ConnectRowFails, TypeOK, ConnectionOK, conn, shutdown, Err
  <2>3. EventsOK'
    BY <1>5, EmitTyped DEF ConnectRowFails, TypeOK, EventsOK, Event
  <2>. QED
    BY <1>5, <2>1, <2>2, <2>3, Frames DEF ConnectRowFails, TypeOK
<1>. QED
  BY <1>1, <1>2, <1>3, <1>4, <1>5 DEF Startup

LEMMA ConnectionTyped ==
  ASSUME TypeOK, Connection PROVE TypeOK'
<1>1. CASE Dialed
  <2>1. ConnectionOK'
    BY <1>1 DEF Dialed, Client, TypeOK, ConnectionOK, conn, shutdown, Err
  <2>2. EventsOK'
    BY <1>1, EmitTyped DEF Dialed, Client, TypeOK, EventsOK, Event
  <2>. QED
    BY <1>1, <2>1, <2>2, Frames DEF Dialed, Client, TypeOK
<1>2. CASE NeedsCode
  BY <1>2, Frames DEF NeedsCode, Client, TypeOK, ConnectionOK, EventsOK, conn,
         shutdown, Err, Event
<1>3. CASE Authorized
  BY <1>3, EmitTyped, Frames DEF Authorized, Client, TypeOK, ConnectionOK,
         EventsOK, conn, shutdown, Err, Event
<1>4. CASE Ask
  BY <1>4, Frames DEF Ask, TypeOK, WaitersOK, ConnectionOK, waiters, Event,
         conn, shutdown, Err
<1>5. CASE SignedIn
  BY <1>5, EmitTyped, Frames DEF SignedIn, Client, TypeOK, ConnectionOK,
         EventsOK, conn, shutdown, Err, Event
<1>6. CASE Prepared
  BY <1>6, EmitTyped, Frames DEF Prepared, Client, TypeOK, ConnectionOK,
         EventsOK, conn, shutdown, Err, Event
<1>7. CASE ClientFails
  BY <1>7, EmitTyped, Frames DEF ClientFails, Client, TypeOK, ConnectionOK,
         EventsOK, conn, shutdown, Err, Event
<1>8. CASE Unanswered
  BY <1>8, EmitTyped, Frames DEF Unanswered, Client, TypeOK, ConnectionOK,
         EventsOK, conn, shutdown, Err, Event
<1>9. CASE LogsOut
  BY <1>9, EmitTyped, Frames DEF LogsOut, Client, TypeOK, ConnectionOK,
         EventsOK, conn, shutdown, Err, Event
<1>10. CASE LoggedOut
  BY <1>10, EmitTyped, Frames DEF LoggedOut, Client, TypeOK, ConnectionOK,
         EventsOK, conn, shutdown, Err, Event
<1>. QED
  BY <1>1, <1>2, <1>3, <1>4, <1>5, <1>6, <1>7, <1>8, <1>9, <1>10 DEF Connection

LEMMA WorkTyped ==
  ASSUME TypeOK, Work PROVE TypeOK'
<1>1. CASE CommandBegins
  BY <1>1, Frames DEF CommandBegins, Command, TypeOK, WorkOK, start, work, Err,
         Result
<1>2. CASE CommandTooLate
  BY <1>2, Frames DEF CommandTooLate, Command, TypeOK, WorkOK, start, work,
         Err, Result
<1>3. CASE Output
  <2>1. WorkOK'
    BY <1>3, OneShotAssumption DEF Output, Command, TypeOK, WorkOK, start,
           work, Err, Result
  <2>2. EventsOK'
    BY <1>3, EmitTyped DEF Output, Command, TypeOK, EventsOK, Event
  <2>. QED
    BY <1>3, <2>1, <2>2, Frames DEF Output, Command, TypeOK
<1>4. CASE CommandEnds
  BY <1>4, Frames DEF CommandEnds, Command, TypeOK, WorkOK, start, work, Err,
         Result
<1>5. CASE Barrier
  BY <1>5, EmitTyped, Frames DEF Barrier, Command, TypeOK, WorkOK, EventsOK,
         start, work, Err, Result, Event
<1>. QED
  BY <1>1, <1>2, <1>3, <1>4, <1>5 DEF Work

LEMMA ScreenTyped ==
  ASSUME TypeOK, Screen PROVE TypeOK'
<1>1. CASE Read
  BY <1>1, TakeTyped, Frames DEF Read, TypeOK, WaitersOK, EventsOK, waiters,
         Event
<1>2. CASE EventMsg
  BY <1>2, Frames DEF EventMsg, Update, TypeOK, ContextsOK, WaitersOK, WorkOK,
         contexts, waiters, Event, start, work, Err, Result
<1>3. CASE BarrierMsg
  <2>1. ContextsOK'
    BY <1>3 DEF BarrierMsg, Update, Finalize, TypeOK, ContextsOK, contexts
  <2>2. ScreenOK'
    <3>1. CASE Final(doneErr, TRUE)
      BY <1>3, <3>1 DEF BarrierMsg, Update, Finalize, Final, TypeOK, ScreenOK,
             WorkOK, Err, Result
    <3>2. CASE ~Final(doneErr, TRUE)
      BY <1>3, <3>2 DEF BarrierMsg, Update, Finalize, TypeOK, ScreenOK, WorkOK
    <3>. QED
      BY <3>1, <3>2
  <2>3. WaitersOK'
    BY <1>3 DEF BarrierMsg, Update, Finalize, TypeOK, WaitersOK, waiters, Event
  <2>4. WorkOK'
    BY <1>3 DEF BarrierMsg, Update, Finalize, TypeOK, WorkOK, start, work, Err,
           Result
  <2>. QED
    BY <1>3, <2>1, <2>2, <2>3, <2>4, Frames DEF BarrierMsg, Update, Finalize,
           TypeOK
<1>4. CASE CommandMsg
  <2>1. ContextsOK'
    BY <1>4 DEF CommandMsg, Update, Finalize, TypeOK, ContextsOK, contexts
  <2>2. ScreenOK'
    <3>1. CASE Final(commandResult, barrier)
      BY <1>4, <3>1 DEF CommandMsg, Update, Finalize, Final, TypeOK, ScreenOK,
             WorkOK, Err, Result
    <3>2. CASE ~Final(commandResult, barrier)
      BY <1>4, <3>2 DEF CommandMsg, Update, Finalize, TypeOK, ScreenOK, WorkOK
    <3>. QED
      BY <3>1, <3>2
  <2>3. WaitersOK'
    BY <1>4 DEF CommandMsg, Update, Finalize, TypeOK, WaitersOK, waiters, Event
  <2>4. WorkOK'
    BY <1>4 DEF CommandMsg, Update, Finalize, TypeOK, WorkOK, start, work, Err,
           Result
  <2>. QED
    BY <1>4, <2>1, <2>2, <2>3, <2>4, Frames DEF CommandMsg, Update, Finalize,
           TypeOK
<1>5. CASE StartupMsg
  <2>1. ContextsOK'
    BY <1>5 DEF StartupMsg, Update, TypeOK, ContextsOK, contexts
  <2>2. ScreenOK'
    BY <1>5 DEF StartupMsg, Update, TypeOK, ScreenOK, WorkOK, screen, Err,
           Result
  <2>3. WorkOK'
    BY <1>5 DEF StartupMsg, Update, TypeOK, WorkOK, start, work, Err, Result
  <2>. QED
    BY <1>5, <2>1, <2>2, <2>3, Frames DEF StartupMsg, Update, TypeOK
<1>6. CASE AuthMsg
  <2>1. ContextsOK'
    BY <1>6 DEF AuthMsg, Update, TypeOK, ContextsOK, contexts
  <2>2. ScreenOK'
    <3>1. CASE state \in {"stopping", "failed"}
      BY <1>6, <3>1 DEF AuthMsg, Update, TypeOK, ScreenOK
    <3>2. CASE state \notin {"stopping", "failed"}
      BY <1>6, <3>2 DEF AuthMsg, Update, TypeOK, ScreenOK
    <3>. QED
      BY <3>1, <3>2
  <2>3. WaitersOK'
    BY <1>6 DEF AuthMsg, Update, TypeOK, WaitersOK, waiters, Event
  <2>4. WorkOK'
    BY <1>6 DEF AuthMsg, Update, TypeOK, WorkOK, start, work, Err, Result
  <2>5. ConnectionOK'
    BY <1>6 DEF AuthMsg, Update, TypeOK, ConnectionOK, conn, shutdown, Err
  <2>. QED
    BY <1>6, <2>1, <2>2, <2>3, <2>4, <2>5, Frames DEF AuthMsg, Update, TypeOK
<1>7. CASE ContextMsg
  <2>1. ContextsOK'
    BY <1>7 DEF ContextMsg, Update, CancelWork, TypeOK, ContextsOK,
           ScreenOK, contexts
  <2>2. ScreenOK'
    BY <1>7 DEF ContextMsg, Update, CancelWork, TypeOK, ScreenOK, MayQuit,
           screen, Err, Result
  <2>3. WaitersOK'
    BY <1>7 DEF ContextMsg, Update, CancelWork, TypeOK, WaitersOK, waiters,
           Event
  <2>4. WorkOK'
    BY <1>7 DEF ContextMsg, Update, CancelWork, TypeOK, WorkOK, start, work,
           Err, Result
  <2>5. ConnectionOK'
    BY <1>7 DEF ContextMsg, Update, CancelWork, TypeOK, ConnectionOK, conn,
           shutdown, Err
  <2>. QED
    BY <1>7, <2>1, <2>2, <2>3, <2>4, <2>5, Frames DEF ContextMsg, Update,
           CancelWork, TypeOK
<1>8. CASE QuitMsg
  BY <1>8, Frames DEF QuitMsg, Ends, TypeOK, WorkOK, start, work, Err, Result
<1>. QED
  BY <1>1, <1>2, <1>3, <1>4, <1>5, <1>6, <1>7, <1>8 DEF Screen

LEMMA UserTyped ==
  ASSUME TypeOK, User PROVE TypeOK'
<1>1. CASE Interrupt
  BY <1>1, Frames DEF Interrupt, TypeOK, ContextsOK, contexts
<1>2. CASE Enter
  <2>1. ContextsOK'
    BY <1>2 DEF Enter, Update, TypeOK, ContextsOK, contexts
  <2>2. ScreenOK'
    BY <1>2 DEF Enter, Update, TypeOK, ScreenOK, screen, Err, Result
  <2>3. WaitersOK'
    BY <1>2 DEF Enter, Update, TypeOK, WaitersOK, waiters, Event
  <2>4. WorkOK'
    BY <1>2 DEF Enter, Update, TypeOK, WorkOK, start, work, Err, Result
  <2>5. ConnectionOK'
    BY <1>2 DEF Enter, Update, TypeOK, ConnectionOK, conn, shutdown, Err
  <2>. QED
    BY <1>2, <2>1, <2>2, <2>3, <2>4, <2>5, Frames DEF Enter, Update, TypeOK
<1>3. CASE Key
  <2>1. ContextsOK'
    BY <1>3 DEF Key, Update, CancelWork, TypeOK, ContextsOK, ScreenOK,
           contexts
  <2>2. ScreenOK'
    <3>1. CASE state # "failed"
      <4>1. CancelWork
        BY <1>3, <3>1 DEF Key
      <4>2. quit' \in BOOLEAN
        BY <4>1, Zenon DEF CancelWork
      <4>. QED
        BY <4>1, <4>2 DEF CancelWork, TypeOK, ScreenOK
    <3>2. CASE state = "failed"
      BY <1>3, <3>2 DEF Key, TypeOK, ScreenOK
    <3>. QED
      BY <3>1, <3>2
  <2>3. WaitersOK'
    BY <1>3 DEF Key, Update, CancelWork, TypeOK, WaitersOK, waiters, Event
  <2>4. WorkOK'
    BY <1>3 DEF Key, Update, CancelWork, TypeOK, WorkOK, start, work, Err,
           Result
  <2>5. ConnectionOK'
    BY <1>3 DEF Key, Update, CancelWork, TypeOK, ConnectionOK, conn, shutdown,
           Err
  <2>. QED
    BY <1>3, <2>1, <2>2, <2>3, <2>4, <2>5, Frames DEF Key, Update, CancelWork,
           TypeOK
<1>4. CASE Abort
  BY <1>4, Frames DEF Abort, Ends, TypeOK, WorkOK, start, work, Err, Result
<1>. QED
  BY <1>1, <1>2, <1>3, <1>4 DEF User

LEMMA ShutdownTyped ==
  ASSUME TypeOK, Shutdown PROVE TypeOK'
<1>1. CASE Shut
  <2>1. ContextsOK'
    BY <1>1 DEF Shut, TypeOK, ContextsOK, contexts
  <2>2. WorkOK'
    BY <1>1 DEF Shut, TypeOK, WorkOK, start, work, Err, Result
  <2>3. ConnectionOK'
    BY <1>1 DEF Shut, TypeOK, ConnectionOK, conn, shutdown, Err
  <2>. QED
    BY <1>1, <2>1, <2>2, <2>3, Frames DEF Shut, TypeOK
<1>2. CASE DrainEvent
  BY <1>2, TakeTyped, Frames DEF DrainEvent, TypeOK, EventsOK, Event
<1>3. CASE LifetimeEnds
  <2>1. ContextsOK'
    BY <1>3 DEF LifetimeEnds, TypeOK, ContextsOK, contexts
  <2>2. ConnectionOK'
    BY <1>3 DEF LifetimeEnds, TypeOK, ConnectionOK, conn, shutdown, Err
  <2>. QED
    BY <1>3, <2>1, <2>2, Frames DEF LifetimeEnds, TypeOK
<1>4. CASE Close
  <2>1. ConnectionOK'
    BY <1>4 DEF Close, TypeOK, ConnectionOK, conn, shutdown, Err
  <2>. QED
    BY <1>4, <2>1, Frames DEF Close, TypeOK
<1>. QED
  BY <1>1, <1>2, <1>3, <1>4 DEF Shutdown

-----------------------------------------------------------------------------
(* Ordered.                                                                *)

LEMMA StartupOrdered ==
  ASSUME TypeOK, Ordered, Startup PROVE Ordered'
<1>. USE DEF Ordered, Joined, StartupOver, CommandOver, TypeOK, ContextsOK,
       ScreenOK, WorkOK, ConnectionOK, contexts, screen, start, work, conn,
       shutdown, Err, Result
<1>1. CASE StartupBegins
  BY <1>1 DEF StartupBegins, Claimable
<1>2. ASSUME NEW e \in {"nil", "error"}, SetUp(e) PROVE Ordered'
  BY <1>2 DEF SetUp
<1>3. CASE ConnectFails
  BY <1>3 DEF ConnectFails
<1>4. CASE Connected
  BY <1>4 DEF Connected
<1>5. CASE ConnectRowFails
  BY <1>5 DEF ConnectRowFails
<1>. QED
  BY <1>1, <1>2, <1>3, <1>4, <1>5 DEF Startup

LEMMA ConnectionOrdered ==
  ASSUME TypeOK, Ordered, Connection PROVE Ordered'
<1>. USE DEF Ordered, Joined, StartupOver, CommandOver, TypeOK, ContextsOK,
       ScreenOK, WorkOK, ConnectionOK, contexts, screen, start, work, conn,
       shutdown, Err, Result
<1>1. CASE Dialed
  BY <1>1 DEF Dialed, Client
<1>2. CASE NeedsCode
  BY <1>2 DEF NeedsCode, Client
<1>3. CASE Authorized
  BY <1>3 DEF Authorized, Client
<1>4. CASE Ask
  BY <1>4 DEF Ask
<1>5. CASE SignedIn
  BY <1>5 DEF SignedIn, Client
<1>6. CASE Prepared
  BY <1>6 DEF Prepared, Client
<1>7. CASE ClientFails
  BY <1>7 DEF ClientFails, Client
<1>8. CASE Unanswered
  BY <1>8 DEF Unanswered, Client
<1>9. CASE LogsOut
  BY <1>9 DEF LogsOut, Client
<1>10. CASE LoggedOut
  BY <1>10 DEF LoggedOut, Client
<1>. QED
  BY <1>1, <1>2, <1>3, <1>4, <1>5, <1>6, <1>7, <1>8, <1>9, <1>10 DEF Connection

LEMMA WorkOrdered ==
  ASSUME TypeOK, Ordered, Work PROVE Ordered'
<1>. USE DEF Ordered, Joined, StartupOver, CommandOver, TypeOK, ContextsOK,
       ScreenOK, WorkOK, ConnectionOK, contexts, screen, start, work, conn,
       shutdown, Err, Result
<1>1. CASE CommandBegins
  BY <1>1 DEF CommandBegins, Command
<1>2. CASE CommandTooLate
  BY <1>2 DEF CommandTooLate, Command
<1>3. CASE Output
  BY <1>3 DEF Output, Command
<1>4. CASE CommandEnds
  BY <1>4 DEF CommandEnds, Command
<1>5. CASE Barrier
  BY <1>5 DEF Barrier, Command
<1>. QED
  BY <1>1, <1>2, <1>3, <1>4, <1>5 DEF Work

LEMMA ScreenOrdered ==
  ASSUME TypeOK, Ordered, Screen PROVE Ordered'
<1>. USE DEF Ordered, Joined, StartupOver, CommandOver, TypeOK, ContextsOK,
       ScreenOK, WorkOK, ConnectionOK, contexts, screen, start, work, conn,
       shutdown, Err, Result
<1>1. CASE Read
  BY <1>1 DEF Read
<1>2. CASE EventMsg
  BY <1>2 DEF EventMsg, Update
<1>3. CASE BarrierMsg
  BY <1>3 DEF BarrierMsg, Update, Finalize, Final
<1>4. CASE CommandMsg
  BY <1>4 DEF CommandMsg, Update, Finalize, Final
<1>5. CASE StartupMsg
  BY <1>5 DEF StartupMsg, Update
<1>6. CASE AuthMsg
  BY <1>6 DEF AuthMsg, Update
<1>7. CASE ContextMsg
  BY <1>7 DEF ContextMsg, Update, CancelWork, MayQuit
<1>8. CASE QuitMsg
  BY <1>8 DEF QuitMsg, Ends
<1>. QED
  BY <1>1, <1>2, <1>3, <1>4, <1>5, <1>6, <1>7, <1>8 DEF Screen

LEMMA UserOrdered ==
  ASSUME TypeOK, Ordered, User PROVE Ordered'
<1>. USE DEF Ordered, Joined, StartupOver, CommandOver, TypeOK, ContextsOK,
       ScreenOK, WorkOK, ConnectionOK, contexts, screen, start, work, conn,
       shutdown, Err, Result
<1>1. CASE Interrupt
  BY <1>1 DEF Interrupt
<1>2. CASE Enter
  BY <1>2 DEF Enter, Update
<1>3. CASE Key
  BY <1>3 DEF Key, Update, CancelWork, MayQuit
<1>4. CASE Abort
  BY <1>4 DEF Abort, Ends
<1>. QED
  BY <1>1, <1>2, <1>3, <1>4 DEF User

LEMMA ShutdownOrdered ==
  ASSUME TypeOK, Ordered, Shutdown PROVE Ordered'
<1>. USE DEF Ordered, Joined, StartupOver, CommandOver, TypeOK, ContextsOK,
       ScreenOK, WorkOK, ConnectionOK, contexts, screen, start, work, conn,
       shutdown, Err, Result
<1>1. CASE Shut
  BY <1>1 DEF Shut
<1>2. CASE DrainEvent
  BY <1>2 DEF DrainEvent
<1>3. CASE LifetimeEnds
  BY <1>3 DEF LifetimeEnds
<1>4. CASE Close
  BY <1>4 DEF Close, MayClose
<1>. QED
  BY <1>1, <1>2, <1>3, <1>4 DEF Shutdown

-----------------------------------------------------------------------------
(* Settled.                                                                *)

LEMMA StartupSettled ==
  ASSUME TypeOK, Ordered, Settled, Startup PROVE Settled'
<1>. USE DEF Settled, Ordered, TypeOK, ScreenOK, WorkOK, ConnectionOK, screen,
       start, work, shutdown, Err, Result
<1>1. CASE StartupBegins
  BY <1>1 DEF StartupBegins, Claimable
<1>2. ASSUME NEW e \in {"nil", "error"}, SetUp(e) PROVE Settled'
  BY <1>2 DEF SetUp
<1>3. CASE ConnectFails
  BY <1>3 DEF ConnectFails
<1>4. CASE Connected
  BY <1>4 DEF Connected
<1>5. CASE ConnectRowFails
  BY <1>5 DEF ConnectRowFails
<1>. QED
  BY <1>1, <1>2, <1>3, <1>4, <1>5 DEF Startup

LEMMA ConnectionSettled ==
  ASSUME TypeOK, Ordered, Settled, Connection PROVE Settled'
<1>. USE DEF Settled, Ordered, TypeOK, ScreenOK, WorkOK, ConnectionOK, screen,
       start, work, shutdown, Err, Result
<1>1. CASE Dialed
  BY <1>1 DEF Dialed, Client
<1>2. CASE NeedsCode
  BY <1>2 DEF NeedsCode, Client
<1>3. CASE Authorized
  BY <1>3 DEF Authorized, Client
<1>4. CASE Ask
  BY <1>4 DEF Ask
<1>5. CASE SignedIn
  BY <1>5 DEF SignedIn, Client
<1>6. CASE Prepared
  BY <1>6 DEF Prepared, Client
<1>7. CASE ClientFails
  BY <1>7 DEF ClientFails, Client
<1>8. CASE Unanswered
  BY <1>8 DEF Unanswered, Client
<1>9. CASE LogsOut
  BY <1>9 DEF LogsOut, Client
<1>10. CASE LoggedOut
  BY <1>10 DEF LoggedOut, Client
<1>. QED
  BY <1>1, <1>2, <1>3, <1>4, <1>5, <1>6, <1>7, <1>8, <1>9, <1>10 DEF Connection

LEMMA WorkSettled ==
  ASSUME TypeOK, Ordered, Settled, Work PROVE Settled'
<1>. USE DEF Settled, Ordered, TypeOK, ScreenOK, WorkOK, ConnectionOK, screen,
       start, work, shutdown, Err, Result
<1>1. CASE CommandBegins
  BY <1>1 DEF CommandBegins, Command
<1>2. CASE CommandTooLate
  BY <1>2 DEF CommandTooLate, Command
<1>3. CASE Output
  BY <1>3 DEF Output, Command
<1>4. CASE CommandEnds
  BY <1>4 DEF CommandEnds, Command
<1>5. CASE Barrier
  BY <1>5 DEF Barrier, Command
<1>. QED
  BY <1>1, <1>2, <1>3, <1>4, <1>5 DEF Work

LEMMA ScreenSettled ==
  ASSUME TypeOK, Ordered, Settled, Screen PROVE Settled'
<1>. USE DEF Settled, Ordered, TypeOK, ScreenOK, WorkOK, ConnectionOK, screen,
       start, work, shutdown, Err, Result
<1>1. CASE Read
  BY <1>1 DEF Read
<1>2. CASE EventMsg
  BY <1>2 DEF EventMsg, Update
<1>3. CASE BarrierMsg
  BY <1>3 DEF BarrierMsg, Update, Finalize, Final
<1>4. CASE CommandMsg
  BY <1>4 DEF CommandMsg, Update, Finalize, Final
<1>5. CASE StartupMsg
  BY <1>5 DEF StartupMsg, Update
<1>6. CASE AuthMsg
  BY <1>6 DEF AuthMsg, Update
<1>7. CASE ContextMsg
  BY <1>7 DEF ContextMsg, Update, CancelWork, MayQuit
<1>8. CASE QuitMsg
  BY <1>8 DEF QuitMsg, Ends
<1>. QED
  BY <1>1, <1>2, <1>3, <1>4, <1>5, <1>6, <1>7, <1>8 DEF Screen

LEMMA UserSettled ==
  ASSUME TypeOK, Ordered, Settled, User PROVE Settled'
<1>. USE DEF Settled, Ordered, TypeOK, ScreenOK, WorkOK, ConnectionOK, screen,
       start, work, shutdown, Err, Result
<1>1. CASE Interrupt
  BY <1>1 DEF Interrupt
<1>2. CASE Enter
  BY <1>2 DEF Enter, Update
<1>3. CASE Key
  BY <1>3 DEF Key, Update, CancelWork, MayQuit
<1>4. CASE Abort
  BY <1>4 DEF Abort, Ends
<1>. QED
  BY <1>1, <1>2, <1>3, <1>4 DEF User

LEMMA ShutdownSettled ==
  ASSUME TypeOK, Ordered, Settled, Shutdown PROVE Settled'
<1>. USE DEF Settled, Ordered, TypeOK, ScreenOK, WorkOK, ConnectionOK, screen,
       start, work, shutdown, Err, Result
<1>1. CASE Shut
  BY <1>1 DEF Shut
<1>2. CASE DrainEvent
  BY <1>2 DEF DrainEvent
<1>3. CASE LifetimeEnds
  BY <1>3 DEF LifetimeEnds
<1>4. CASE Close
  BY <1>4 DEF Close, MayClose
<1>. QED
  BY <1>1, <1>2, <1>3, <1>4 DEF Shutdown

-----------------------------------------------------------------------------
(* Counting the output in the channel.                                     *)

LEMMA OutsType ==
  ASSUME NEW s \in Seq(Event)
  PROVE  /\ IsFiniteSet({i \in 1..Len(s) : s[i] = "out"})
         /\ Outs(s) \in Nat
         /\ NoOuts(s) => Outs(s) = 0
<1>. DEFINE I == {i \in 1..Len(s) : s[i] = "out"}
<1>1. IsFiniteSet(1..Len(s))
  BY FS_Interval
<1>2. I \in SUBSET (1..Len(s))
  OBVIOUS
<1>3. IsFiniteSet(I)
  BY <1>1, <1>2, FS_Subset, Zenon
<1>4. NoOuts(s) => I = {}
  BY DEF NoOuts
<1>. QED
  BY <1>3, <1>4, FS_CardinalityType, FS_EmptySet DEF Outs

LEMMA OutsAppend ==
  ASSUME NEW s \in Seq(Event), NEW e \in Event
  PROVE  Outs(Append(s, e)) = Outs(s) + (IF e = "out" THEN 1 ELSE 0)
<1>. DEFINE I == {i \in 1..Len(s) : s[i] = "out"}
            J == {i \in 1..Len(Append(s, e)) : Append(s, e)[i] = "out"}
            n == Len(s) + 1
<1>1. IsFiniteSet(I) /\ Cardinality(I) \in Nat
  BY OutsType DEF Outs
<1>2. J = IF e = "out" THEN I \cup {n} ELSE I
  OBVIOUS
<1>3. n \notin I
  OBVIOUS
<1>4. Cardinality(I \cup {n}) = Cardinality(I) + 1
  BY <1>1, <1>3, FS_AddElement
<1>5. Outs(s) = Cardinality(I) /\ Outs(Append(s, e)) = Cardinality(J)
  BY DEF Outs
<1>. HIDE DEF I, J, n
<1>. QED
  BY <1>1, <1>2, <1>4, <1>5

LEMMA OutsTail ==
  ASSUME NEW s \in Seq(Event), s # <<>>
  PROVE  Outs(s) = Outs(Tail(s)) + (IF Head(s) = "out" THEN 1 ELSE 0)
<1>. DEFINE I == {i \in 1..Len(s) : s[i] = "out"}
            J == {i \in 1..Len(Tail(s)) : Tail(s)[i] = "out"}
            K == {i \in I : i # 1}
            f == [i \in J |-> i + 1]
<1>1. Tail(s) \in Seq(Event)
  OBVIOUS
<1>2. IsFiniteSet(J) /\ Cardinality(J) \in Nat
  BY <1>1, OutsType DEF Outs
<1>3. /\ Len(Tail(s)) = Len(s) - 1 /\ Len(s) \in Nat \ {0}
      /\ \A i \in 1..Len(Tail(s)) : Tail(s)[i] = s[i + 1]
  OBVIOUS
<1>4. \A i \in J : f[i] \in K
  BY <1>3
<1>5. \A k \in K : k - 1 \in J /\ f[k - 1] = k
  BY <1>3
<1>6. f \in Bijection(J, K)
  <2>1. f \in [J -> K]
    BY <1>4
  <2>2. \A i, j \in J : f[i] = f[j] => i = j
    OBVIOUS
  <2>3. \A k \in K : \E i \in J : f[i] = k
    BY <1>5
  <2>. QED
    BY <2>1, <2>2, <2>3, Fun_IsBij, Zenon
<1>7. IsFiniteSet(K) /\ Cardinality(K) = Cardinality(J)
  BY <1>2, <1>6, FS_Bijection DEF ExistsBijection
<1>8. I = IF Head(s) = "out" THEN K \cup {1} ELSE K
  BY <1>3
<1>9. Cardinality(K \cup {1}) = Cardinality(K) + 1
  BY <1>7, FS_AddElement
<1>10. Outs(s) = Cardinality(I) /\ Outs(Tail(s)) = Cardinality(J)
  BY DEF Outs
<1>. HIDE DEF I, J, K, f
<1>. QED
  BY <1>2, <1>7, <1>8, <1>9, <1>10

(* A step that emits, and one that takes the first event.                  *)
LEMMA Emitted ==
  ASSUME EventsOK, NEW e \in Event, Emit(e)
  PROVE  \/ lifetimeDone /\ events' = events
         \/ /\ Outs(events') = Outs(events) + (IF e = "out" THEN 1 ELSE 0)
            /\ e # "out" /\ NoOuts(events) => NoOuts(events')
            /\ HasBarrier(events') => e = "barrier" \/ HasBarrier(events)
            /\ BarrierLast(events) /\ (e # "out" \/ ~HasBarrier(events)) =>
                 BarrierLast(events')
<1>1. CASE events' = Append(events, e)
  <2>1. Outs(events') = Outs(events) + (IF e = "out" THEN 1 ELSE 0)
    BY <1>1, OutsAppend DEF EventsOK
  <2>2. /\ Len(events) \in Nat /\ Len(events') = Len(events) + 1
        /\ \A i \in 1..Len(events) : events'[i] = events[i]
        /\ events'[Len(events) + 1] = e
    BY <1>1 DEF EventsOK
  <2>3. e # "out" /\ NoOuts(events) => NoOuts(events')
    BY <2>2 DEF NoOuts
  <2>4. HasBarrier(events') => e = "barrier" \/ HasBarrier(events)
    BY <2>2 DEF HasBarrier
  <2>5. BarrierLast(events) /\ (e # "out" \/ ~HasBarrier(events)) =>
          BarrierLast(events')
    BY <2>2 DEF HasBarrier, BarrierLast
  <2>. QED
    BY <2>1, <2>3, <2>4, <2>5
<1>. QED
  BY <1>1 DEF Emit

LEMMA Taken ==
  ASSUME EventsOK, events # <<>>, events' = Tail(events)
  PROVE  /\ Outs(events) = Outs(events') + (IF Head(events) = "out" THEN 1 ELSE 0)
         /\ NoOuts(events) => NoOuts(events') /\ Head(events) # "out"
         /\ HasBarrier(events') \/ Head(events) = "barrier" => HasBarrier(events)
         /\ BarrierLast(events) => BarrierLast(events')
         /\ BarrierLast(events) /\ Head(events) = "barrier" => NoOuts(events')
<1>1. Outs(events) = Outs(events') + (IF Head(events) = "out" THEN 1 ELSE 0)
  BY OutsTail DEF EventsOK
<1>2. /\ Len(events) \in Nat \ {0} /\ Len(events') = Len(events) - 1
      /\ \A i \in 1..Len(events') : events'[i] = events[i + 1]
      /\ Head(events) = events[1]
  BY DEF EventsOK
<1>3. /\ NoOuts(events) => NoOuts(events') /\ Head(events) # "out"
      /\ HasBarrier(events') \/ Head(events) = "barrier" => HasBarrier(events)
  BY <1>2 DEF NoOuts, HasBarrier
<1>4. BarrierLast(events) => BarrierLast(events')
  BY <1>2 DEF BarrierLast
<1>5. BarrierLast(events) /\ Head(events) = "barrier" => NoOuts(events')
  BY <1>2 DEF BarrierLast, NoOuts
<1>. QED
  BY <1>1, <1>3, <1>4, <1>5

-----------------------------------------------------------------------------
(* Flushed.                                                                *)

LEMMA RowsFlushed ==
  ASSUME Sound, Emit("row") \/ UNCHANGED events,
         UNCHANGED <<lifetimeDone, phase, emitted, shown, reader, barrier,
                     command, running>>
  PROVE  Flushed'
<1>. USE DEF Sound, TypeOK, EventsOK, Event
<1>1. Outs(events) \in Nat
  BY OutsType
<1>2. /\ Outs(events') = Outs(events)
      /\ NoOuts(events) => NoOuts(events')
      /\ HasBarrier(events') => HasBarrier(events)
      /\ BarrierLast(events) => BarrierLast(events')
  BY <1>1, Emitted
<1>. QED
  BY <1>2 DEF Flushed, Past, Finished, Held, OutputComplete

LEMMA StartupFlushed ==
  ASSUME Sound, Startup PROVE Flushed'
<1>. USE DEF contexts, screen, waiters, start, work, conn, shutdown
<1>1. CASE StartupBegins
  BY <1>1, RowsFlushed DEF StartupBegins
<1>2. ASSUME NEW e \in {"nil", "error"}, SetUp(e) PROVE Flushed'
  BY <1>2, RowsFlushed DEF SetUp
<1>3. CASE ConnectFails
  BY <1>3, RowsFlushed DEF ConnectFails
<1>4. CASE Connected
  BY <1>4, RowsFlushed DEF Connected
<1>5. CASE ConnectRowFails
  BY <1>5, RowsFlushed DEF ConnectRowFails
<1>. QED
  BY <1>1, <1>2, <1>3, <1>4, <1>5 DEF Startup

LEMMA ConnectionFlushed ==
  ASSUME Sound, Connection PROVE Flushed'
<1>. USE DEF contexts, screen, waiters, start, work, conn, shutdown
<1>1. CASE Dialed
  BY <1>1, RowsFlushed DEF Dialed, Client
<1>2. CASE NeedsCode
  BY <1>2, RowsFlushed DEF NeedsCode, Client
<1>3. CASE Authorized
  BY <1>3, RowsFlushed DEF Authorized, Client
<1>4. CASE Ask
  BY <1>4, RowsFlushed DEF Ask
<1>5. CASE SignedIn
  BY <1>5, RowsFlushed DEF SignedIn, Client
<1>6. CASE Prepared
  BY <1>6, RowsFlushed DEF Prepared, Client
<1>7. CASE ClientFails
  BY <1>7, RowsFlushed DEF ClientFails, Client
<1>8. CASE Unanswered
  BY <1>8, RowsFlushed DEF Unanswered, Client
<1>9. CASE LogsOut
  BY <1>9, RowsFlushed DEF LogsOut, Client
<1>10. CASE LoggedOut
  BY <1>10, RowsFlushed DEF LoggedOut, Client
<1>. QED
  BY <1>1, <1>2, <1>3, <1>4, <1>5, <1>6, <1>7, <1>8, <1>9, <1>10 DEF Connection

LEMMA WorkFlushed ==
  ASSUME Sound, Work PROVE Flushed'
<1>. USE DEF Sound, TypeOK, ScreenOK, WaitersOK, WorkOK, ConnectionOK, EventsOK,
       Event, Flushed, Past, Finished, Held, OutputComplete, Settled, Ordered,
       contexts, screen, waiters, start, work, conn, shutdown
<1>1. CASE CommandBegins
  BY <1>1 DEF CommandBegins, Command
<1>2. CASE CommandTooLate
  BY <1>2 DEF CommandTooLate, Command
<1>3. CASE Output
  <2>1. /\ command = "running" /\ command' = "running" /\ emitted' = emitted + 1
        /\ UNCHANGED <<lifetimeDone, phase, shown, reader, barrier, running>>
    BY <1>3 DEF Output, Command
  <2>2. /\ ~Past /\ ~Past' /\ ~HasBarrier(events) /\ ~lifetimeDone
        /\ Outs(events) \in Nat
    BY <2>1, OutsType DEF Joined, CommandOver
  <2>3. Emit("out")
    BY <1>3 DEF Output
  <2>4. /\ Outs(events') = Outs(events) + 1
        /\ ~HasBarrier(events') /\ BarrierLast(events')
    BY <2>2, <2>3, Emitted
  <2>. QED
    BY <2>1, <2>2, <2>4
<1>4. CASE CommandEnds
  BY <1>4 DEF CommandEnds, Command
<1>5. CASE Barrier
  <2>1. /\ command = "barrier" /\ command' = "returned"
        /\ UNCHANGED <<lifetimeDone, phase, emitted, shown, reader, barrier,
                        running>>
    BY <1>5 DEF Barrier, Command
  <2>2. ~Past /\ ~Past' /\ Finished' /\ ~lifetimeDone /\ Outs(events) \in Nat
    BY <2>1, OutsType DEF Joined, CommandOver
  <2>3. Emit("barrier")
    BY <1>5 DEF Barrier
  <2>4. Outs(events') = Outs(events) /\ BarrierLast(events')
    BY <2>2, <2>3, Emitted
  <2>. QED
    BY <2>1, <2>2, <2>4
<1>. QED
  BY <1>1, <1>2, <1>3, <1>4, <1>5 DEF Work

LEMMA ScreenFlushed ==
  ASSUME Sound, Screen PROVE Flushed'
<1>. USE DEF Sound, TypeOK, ScreenOK, WaitersOK, WorkOK, ConnectionOK, EventsOK,
       Event, Flushed, Past, Finished, Held, OutputComplete, Settled, Ordered,
       contexts, screen, waiters, start, work, conn, shutdown
<1>1. CASE Read
  <2>1. /\ reader = "armed" /\ events # <<>> /\ events' = Tail(events)
        /\ reader' = Head(events)
        /\ UNCHANGED <<lifetimeDone, phase, emitted, shown, command, barrier,
                        running>>
    BY <1>1 DEF Read
  <2>2. Outs(events) \in Nat /\ Outs(events') \in Nat
    BY <2>1, TakeTyped, OutsType
  <2>3. Held' + Outs(events') = Held + Outs(events)
    BY <2>1, <2>2, Taken
  <2>4. /\ HasBarrier(events') => Finished'
        /\ BarrierLast(events')
    BY <2>1, Taken
  <2>5. Past' => Finished' /\ reader' # "out" /\ NoOuts(events')
    BY <2>1, Taken
  <2>. QED
    BY <2>1, <2>2, <2>3, <2>4, <2>5
<1>2. CASE EventMsg
  BY <1>2, OutsType DEF EventMsg, Update
<1>3. CASE BarrierMsg
  <2>1. /\ phase = "program" /\ Finished /\ NoOuts(events)
        /\ reader = "barrier" /\ reader' = "off"
        /\ UNCHANGED <<phase, lifetimeDone, emitted, shown, command, events>>
    BY <1>3 DEF BarrierMsg, Update, Finalize
  <2>2. Held = 0 /\ Outs(events) = 0
    BY <2>1, OutsType
  <2>3. emitted = shown
    BY <2>1, <2>2
  <2>. QED
    BY <2>1, <2>3
<1>4. CASE CommandMsg
  <2>1. /\ phase = "program" /\ Finished' /\ Finished /\ running
        /\ UNCHANGED <<phase, lifetimeDone, emitted, shown, reader, events>>
    BY <1>4 DEF CommandMsg, Update, Finalize
  <2>2. CASE Final(commandResult, barrier)
    <3>1. Past
      BY <2>2 DEF Final
    <3>2. Held = 0 /\ Outs(events) = 0
      BY <3>1, OutsType
    <3>3. emitted = shown
      BY <2>1, <3>2
    <3>. QED
      BY <2>1, <3>1, <3>3
  <2>3. CASE ~Final(commandResult, barrier)
    BY <1>4, <2>1, <2>3 DEF CommandMsg, Finalize
  <2>. QED
    BY <2>2, <2>3
<1>5. CASE StartupMsg
  BY <1>5 DEF StartupMsg, Update
<1>6. CASE AuthMsg
  BY <1>6 DEF AuthMsg, Update
<1>7. CASE ContextMsg
  BY <1>7 DEF ContextMsg, Update, CancelWork
<1>8. CASE QuitMsg
  BY <1>8 DEF QuitMsg, Ends
<1>. QED
  BY <1>1, <1>2, <1>3, <1>4, <1>5, <1>6, <1>7, <1>8 DEF Screen

LEMMA UserFlushed ==
  ASSUME Sound, User PROVE Flushed'
<1>. USE DEF Sound, TypeOK, ScreenOK, WaitersOK, WorkOK, ConnectionOK, EventsOK,
       Event, Flushed, Past, Finished, Held, OutputComplete, Settled, Ordered,
       contexts, screen, waiters, start, work, conn, shutdown
<1>1. CASE Interrupt
  BY <1>1 DEF Interrupt
<1>2. CASE Enter
  BY <1>2 DEF Enter, Update
<1>3. CASE Key
  BY <1>3 DEF Key, Update, CancelWork
<1>4. CASE Abort
  BY <1>4 DEF Abort, Ends
<1>. QED
  BY <1>1, <1>2, <1>3, <1>4 DEF User

LEMMA ShutdownFlushed ==
  ASSUME Sound, Shutdown PROVE Flushed'
<1>. USE DEF Sound, TypeOK, ScreenOK, WaitersOK, WorkOK, ConnectionOK, EventsOK,
       Event, Flushed, Past, Finished, Held, OutputComplete, Settled, Ordered,
       contexts, screen, waiters, start, work, conn, shutdown
<1>1. CASE Shut
  BY <1>1 DEF Shut
<1>2. CASE DrainEvent
  BY <1>2, Taken DEF DrainEvent, Drain
<1>3. CASE LifetimeEnds
  BY <1>3 DEF LifetimeEnds, CommandOver
<1>4. CASE Close
  BY <1>4 DEF Close
<1>. QED
  BY <1>1, <1>2, <1>3, <1>4 DEF Shutdown

-----------------------------------------------------------------------------
(* The theorems.                                                           *)

(* Sound is inductive: types, the order of beginnings and ends, what the   *)
(* screen knows, and the output on its way, of runOneShotTUI and all that  *)
(* it starts.                                                              *)
THEOREM AlwaysSound == Spec => []Sound
<1>1. Init => Sound
  <2>. SUFFICES ASSUME Init PROVE Sound
    OBVIOUS
  <2>1. TypeOK
    <3>1. ContextsOK /\ ScreenOK /\ WaitersOK
      BY DEF Init, ContextsOK, ScreenOK, WaitersOK, Err, Result
    <3>2. WorkOK
      BY OneShotAssumption DEF Init, WorkOK, Err, Result
    <3>3. ConnectionOK
      BY DEF Init, ConnectionOK, Err
    <3>4. EventsOK
      <4>1. events = <<>>
        BY DEF Init
      <4>. QED
        BY <4>1, OneShotAssumption DEF EventsOK
    <3>. QED
      BY <3>1, <3>2, <3>3, <3>4 DEF TypeOK
  <2>2. Ordered /\ Settled
    BY DEF Init, Ordered, Settled, Joined
  <2>3. Outs(events) = 0
    <3>1. events \in Seq(Event) /\ NoOuts(events)
      BY DEF Init, NoOuts
    <3>. QED
      BY <3>1, OutsType
  <2>4. Flushed
    BY <2>3 DEF Init, Flushed, Held, Past, HasBarrier, BarrierLast,
           OutputComplete
  <2>. QED
    BY <2>1, <2>2, <2>4 DEF Sound
<1>2. Sound /\ [Next]_vars => Sound'
  <2>. SUFFICES ASSUME Sound, [Next]_vars PROVE Sound'
    OBVIOUS
  <2>1. CASE Startup
    BY <2>1, StartupTyped, StartupOrdered, StartupSettled, StartupFlushed DEF
           Sound
  <2>2. CASE Connection
    BY <2>2, ConnectionTyped, ConnectionOrdered, ConnectionSettled,
           ConnectionFlushed DEF Sound
  <2>3. CASE Work
    BY <2>3, WorkTyped, WorkOrdered, WorkSettled, WorkFlushed DEF Sound
  <2>4. CASE Screen
    BY <2>4, ScreenTyped, ScreenOrdered, ScreenSettled, ScreenFlushed DEF Sound
  <2>5. CASE User
    BY <2>5, UserTyped, UserOrdered, UserSettled, UserFlushed DEF Sound
  <2>6. CASE Shutdown
    BY <2>6, ShutdownTyped, ShutdownOrdered, ShutdownSettled, ShutdownFlushed
           DEF Sound
  <2>7. CASE UNCHANGED vars
    <3>1. TypeOK'
      BY <2>7, Frames DEF Sound, TypeOK, vars
    <3>2. Ordered' /\ Settled'
      BY <2>7 DEF Sound, Ordered, Settled, Joined, StartupOver, CommandOver,
             vars, contexts, screen, start, work, conn, shutdown
    <3>3. Flushed'
      BY <2>7, RowsFlushed DEF vars, contexts, screen, waiters, work, shutdown
    <3>. QED
      BY <3>1, <3>2, <3>3 DEF Sound
  <2>. QED
    BY <2>1, <2>2, <2>3, <2>4, <2>5, <2>6, <2>7 DEF Next
<1>. QED
  BY <1>1, <1>2, PTL DEF Spec

(* Every variable keeps its type; the channel never holds more than its    *)
(* capacity.                                                               *)
THEOREM SessionTypeCorrect == Spec => []TypeOK
<1>1. Sound => TypeOK
  BY DEF Sound
<1>. QED
  BY <1>1, AlwaysSound, PTL

(* runOneShotTUI ends the lifetime and closes the database only when       *)
(* startup and command have returned and cannot begin any more.            *)
THEOREM WorkIsJoined == Spec => []Joined
<1>1. Sound => Joined
  BY DEF Sound, Ordered
<1>. QED
  BY <1>1, AlwaysSound, PTL

(* finalizeCommand declares a command ended only when its output is on the *)
(* screen.                                                                 *)
THEOREM OutputIsComplete == Spec => []OutputComplete
<1>1. Sound => OutputComplete
  BY DEF Sound, Flushed
<1>. QED
  BY <1>1, AlwaysSound, PTL

(* runOneShotTUI returns the errors of a startup and of a command that     *)
(* have both been made.                                                    *)
THEOREM ResultsAreFaithful == Spec => []ResultFaithful
<1>1. Sound => ResultFaithful
  BY DEF Sound, Settled, TypeOK, ScreenOK, WorkOK, ResultFaithful, Ordered
<1>. QED
  BY <1>1, AlwaysSound, PTL
-----------------------------------------------------------------------------
(* The files: FileTransfer.                                                *)

Fresh == {"create", "stream"}

OpenWhileBusy ==
  \A w \in Workers, p \in Paths :
    Open(w, p) => p \in paths /\ pc[w] \in {"append"} \cup Fresh

OnePathResumed ==
  \A w \in Workers : pc[w] \in {"resume", "append"} => \E p \in Paths : paths = {p}

FirstChunk ==
  \A w \in Workers : pc[w] \in {"idle", "stat", "create"} => chunk[w] = 1

(* addFileToSaver comes to a path once, and only then is it opened.        *)
NotYetOpen ==
  \A w \in Workers, p \in Paths :
    /\ p \in left[w] => ~Open(w, p) /\ make[w] # p /\ pc[w] = "create"
    /\ make[w] = p => ~Open(w, p) /\ pc[w] = "create" /\ p \in paths

OpenExists == \A w \in Workers, p \in Paths : Linked(w, p) => Exists(p)

Shaped ==
  /\ TransferTypeOK
  /\ OpenWhileBusy /\ OnePathResumed /\ FirstChunk /\ NotYetOpen /\ OpenExists

OneWriter ==
  \A p \in Paths \ mixed : \A v, w \in Workers :
    Linked(v, p) /\ Linked(w, p) => v = w

WriterAtEnd ==
  \A p \in Paths \ mixed : \A w \in Workers :
    Linked(w, p) =>
      /\ pc[w] = "append" => chunk[w] = Len(disk[p]) + 1
      /\ pc[w] \in Fresh => handle[w][p] = Len(disk[p])
      /\ pc[w] = "create" => Len(disk[p]) = 0
      /\ pc[w] = "stream" => chunk[w] = Len(disk[p]) + 1

(* What exists when a session without --rewrite begins is not created.     *)
BeforeSafe ==
  \A p \in before :
    /\ Exists(p) /\ ~rewrite
    /\ \A w \in Workers : make[w] # p /\ (Open(w, p) => pc[w] = "append")

Coherent ==
  /\ Shaped
  /\ OneWriter /\ WriterAtEnd /\ BeforeSafe
  /\ PrefixOnDisk

-----------------------------------------------------------------------------
(* Sequences of chunks.                                                    *)

Chunks == Seq(0..Size)

(* A function on 1..n is a sequence of length n.                           *)
LEMMA FunctionIsSeq ==
  ASSUME NEW S, NEW n \in Nat, NEW f \in [1..n -> S]
  PROVE  f \in Seq(S) /\ Len(f) = n
<1>1. f \in Seq(S)
  BY SeqDef
<1>2. DOMAIN f = 1..n
  OBVIOUS
<1>3. Len(f) \in Nat /\ DOMAIN f = 1..Len(f)
  BY <1>1, LenProperties
<1> QED
  BY <1>1, <1>2, <1>3

(* Writing at or beyond the end makes a sequence again ...                 *)
LEMMA WriteAtTyped ==
  ASSUME NEW c \in Chunks, NEW n \in Nat, NEW x \in 0..Size
  PROVE  /\ WriteAt(c, n, x) \in Chunks
         /\ Len(WriteAt(c, n, x)) = IF n < Len(c) THEN Len(c) ELSE n + 1
<1> DEFINE m == IF n < Len(c) THEN Len(c) ELSE n + 1
<1>1. Len(c) \in Nat /\ m \in Nat
  BY LenProperties DEF Chunks
<1>2. \A i \in 1..Len(c) : c[i] \in 0..Size
  BY ElementOfSeq DEF Chunks
<1>3. 0 \in 0..Size
  BY TransferAssumption
<1>4. WriteAt(c, n, x) \in [1..m -> 0..Size]
  BY <1>1, <1>2, <1>3 DEF WriteAt
<1>5. m \in Nat /\ WriteAt(c, n, x) \in [1..m -> 0..Size]
  BY <1>1, <1>4
<1> HIDE DEF m
<1>6. WriteAt(c, n, x) \in Chunks /\ Len(WriteAt(c, n, x)) = m
  BY <1>5, FunctionIsSeq DEF Chunks
<1> QED
  BY <1>6 DEF m

(* ... and writing the next chunk at the end lengthens the beginning of    *)
(* the file by one.                                                        *)
LEMMA WriteAtEnd ==
  ASSUME NEW c \in Chunks, IsPart(c), Len(c) < Size
  PROVE  /\ IsPart(WriteAt(c, Len(c), Len(c) + 1))
         /\ Len(WriteAt(c, Len(c), Len(c) + 1)) = Len(c) + 1
<1>1. Len(c) \in Nat /\ Size \in Nat
  BY TransferAssumption DEF Chunks
<1>2. Len(WriteAt(c, Len(c), Len(c) + 1)) = Len(c) + 1
  BY <1>1, WriteAtTyped
<1>3. \A i \in 1..(Len(c) + 1) : WriteAt(c, Len(c), Len(c) + 1)[i] = i
  BY <1>1 DEF IsPart, WriteAt
<1> QED
  BY <1>1, <1>2, <1>3 DEF IsPart

(* So does appending it.                                                   *)
LEMMA AppendNext ==
  ASSUME NEW c \in Chunks, IsPart(c), Len(c) < Size
  PROVE  /\ IsPart(Append(c, Len(c) + 1))
         /\ Len(Append(c, Len(c) + 1)) = Len(c) + 1
<1>1. Len(c) \in Nat /\ Size \in Nat
  BY TransferAssumption DEF Chunks
<1> QED
  BY <1>1 DEF IsPart, Chunks

(* A beginning of full length is the whole file.                           *)
LEMMA PartIsWhole ==
  ASSUME NEW c \in Chunks, IsPart(c), Len(c) >= Size
  PROVE  c = Whole
<1>1. Len(c) \in Nat /\ Size \in Nat
  BY TransferAssumption DEF Chunks
<1>2. Len(c) = Size
  BY <1>1 DEF IsPart
<1>3. c = [i \in 1..Len(c) |-> c[i]]
  BY DEF Chunks
<1> QED
  BY <1>2, <1>3 DEF IsPart, Whole

-----------------------------------------------------------------------------
(* The shape of the state.                                                 *)

(* The initial states have it.                                             *)
LEMMA ShapedInit == TransferInit => Shaped
<1> SUFFICES ASSUME TransferInit PROVE Shaped
  OBVIOUS
<1> USE DEF TransferInit, All, AllClosed, Open, Linked
<1>1. TransferTypeOK
  <2>1. /\ 1 \in 1..Retries /\ 1 \in 1..(Size + 1)
        /\ paths \in PathSets /\ before \subseteq Paths /\ mixed \subseteq Paths
    BY TransferAssumption
  <2>2. disk \in [Paths -> Seq(0..Size) \cup {None}]
    OBVIOUS
  <2>3. handle \in [Workers -> [Paths -> Nat \cup {Closed, Orphan}]]
    OBVIOUS
  <2>4. /\ pc \in [Workers -> {"idle", "stat", "resume", "append", "create", "stream"}]
        /\ attempt \in [Workers -> 1..Retries]
        /\ chunk \in [Workers -> 1..(Size + 1)]
    BY <2>1
  <2>5. /\ left \in [Workers -> SUBSET Paths]
        /\ make \in [Workers -> Paths \cup {None}]
    OBVIOUS
  <2> QED
    BY <2>1, <2>2, <2>3, <2>4, <2>5 DEF TransferTypeOK
<1>2. OpenWhileBusy /\ OnePathResumed /\ FirstChunk /\ NotYetOpen /\ OpenExists
  BY TransferAssumption
     DEF OpenWhileBusy, OnePathResumed, FirstChunk, NotYetOpen, OpenExists
<1> QED
  BY <1>1, <1>2 DEF Shaped

(* What the saver stores is typed.                                         *)
LEMMA StoreTyped ==
  ASSUME Shaped, NEW w \in Workers, NEW S, Store(w, S),
         S # {} => chunk[w] <= Size
  PROVE  /\ disk' \in [Paths -> Chunks \cup {None}]
         /\ handle' \in [Workers -> [Paths -> Nat \cup {Closed, Orphan}]]
         /\ \A p \in Paths : Exists(p) => Exists(p)'
         /\ \A v \in Workers, p \in Paths : Open(v, p)' <=> Open(v, p)
         /\ \A v \in Workers, p \in Paths : Linked(v, p)' <=> Linked(v, p)
<1> USE DEF Shaped, TransferTypeOK
<1>1. chunk[w] \in Nat /\ Size \in Nat
  BY TransferAssumption
<1>2. ASSUME NEW p \in S, p \in Paths, Linked(w, p)
      PROVE  WriteAt(disk[p], handle[w][p], chunk[w]) \in Chunks
  <2>1. disk[p] \in Chunks
    BY <1>2 DEF OpenExists, Exists, Chunks
  <2>2. handle[w][p] \in Nat /\ chunk[w] \in 0..Size
    BY <1>1, <1>2 DEF Linked
  <2> QED
    BY <2>1, <2>2, WriteAtTyped
<1>3. disk' \in [Paths -> Chunks \cup {None}]
  BY <1>2 DEF Store, Chunks
<1>4. \A p \in Paths :
        handle'[w][p] = IF p \in S /\ Linked(w, p) THEN handle[w][p] + 1 ELSE handle[w][p]
  BY DEF Store
<1>5. \A v \in Workers \ {w} : handle'[v] = handle[v]
  BY DEF Store
<1>6. handle' \in [Workers -> [Paths -> Nat \cup {Closed, Orphan}]]
  BY DEF Store, Linked
<1>7. \A p \in Paths : Exists(p) => Exists(p)'
  <2>1. None \notin Chunks
    BY TransferAssumption, SeqMonotonic, 0..Size \subseteq Nat DEF Chunks
  <2> QED
    BY <1>2, <2>1 DEF Store, Exists
<1>8. ASSUME NEW v \in Workers, NEW p \in Paths
      PROVE  (Open(v, p)' <=> Open(v, p)) /\ (Linked(v, p)' <=> Linked(v, p))
  <2>1. CASE v # w
    BY <2>1, <1>5 DEF Open, Linked
  <2>2. CASE v = w /\ Linked(w, p)
    <3>1. handle[w][p] \in Nat
      BY <2>2 DEF Linked
    <3>2. handle'[w][p] = handle[w][p] \/ handle'[w][p] = handle[w][p] + 1
      BY <1>4
    <3>3. handle'[w][p] \in Nat
      BY <3>1, <3>2
    <3> QED
      BY <2>2, <3>1, <3>3, TransferAssumption DEF Open, Linked
  <2>3. CASE v = w /\ ~Linked(w, p)
    BY <2>3, <1>4 DEF Open, Linked
  <2> QED
    BY <2>1, <2>2, <2>3
<1> QED
  BY <1>3, <1>6, <1>7, <1>8

(* Every step keeps the shape of the state: a worker.                      *)
LEMMA ShapedWorker ==
  ASSUME Shaped, NEW w \in Workers, Prepare(w) \/ Resume(w) \/ Stream(w) \/ Take(w)
  PROVE  Shaped'
<1> USE DEF Shaped, TransferTypeOK, session
<1>0. Size \in Nat /\ Size > 0 /\ Retries \in Nat /\ paths \subseteq Paths /\ None \notin Paths
  BY TransferAssumption
<1>m. /\ Closed \notin Nat /\ Orphan \notin Nat
      /\ None \notin Chunks /\ <<>> \in Chunks
  BY TransferAssumption, SeqMonotonic, EmptySeq, 0..Size \subseteq Nat DEF Chunks
<1>e. ASSUME Settle(w), UNCHANGED <<disk, mixed>>,
             \/ handle' = CloseAll(w)
             \/ handle' = handle /\ \A p \in Paths : ~Open(w, p)
      PROVE  Shaped'
  <2>1. /\ \A v \in Workers, p \in Paths :
             Open(v, p)' => v # w /\ Open(v, p) /\ handle'[v][p] = handle[v][p]
        /\ handle' \in [Workers -> [Paths -> Nat \cup {Closed, Orphan}]]
    <3>1. handle' = [handle EXCEPT ![w] = AllClosed]
      <4>1. (\A p \in Paths : ~Open(w, p)) => handle[w] = AllClosed
        BY DEF Open, AllClosed
      <4> QED
        BY <1>e, <4>1 DEF CloseAll
    <3>2. AllClosed \in [Paths -> Nat \cup {Closed, Orphan}]
      BY DEF AllClosed
    <3>3. \A p \in Paths : AllClosed[p] = Closed
      BY DEF AllClosed
    <3> QED
      BY <3>1, <3>2, <3>3 DEF Open
  <2>2. /\ 1 \in 1..Retries /\ 1 \in 1..(Size + 1)
        /\ pc'[w] = "idle" /\ chunk'[w] = 1 /\ left'[w] = {} /\ make'[w] = None
        /\ \A v \in Workers \ {w} : /\ pc'[v] = pc[v] /\ chunk'[v] = chunk[v]
                                   /\ left'[v] = left[v] /\ make'[v] = make[v]
    BY <1>0, <1>e, TransferAssumption DEF Settle
  <2>3. TransferTypeOK'
    BY <1>e, <2>1, <2>2 DEF Settle
  <2>4. OpenWhileBusy' /\ OnePathResumed'
    BY <1>e, <2>1, <2>2 DEF Settle, OpenWhileBusy, OnePathResumed
  <2>5. FirstChunk' /\ NotYetOpen'
    BY <1>0, <1>e, <2>1, <2>2 DEF Settle, FirstChunk, NotYetOpen
  <2>6. OpenExists'
    BY <1>m, <1>e, <2>1 DEF OpenExists, Open, Linked, Exists
  <2> QED
    BY <2>3, <2>4, <2>5, <2>6
<1>f. ASSUME \/ StatFails(w) \/ ResumeFails(w) \/ Skip(w) \/ CreateFails(w)
             \/ AppendFails(w) \/ Downloaded(w)
             \/ \E p \in paths : ResumeComplete(w, p) \/ Resumed(w, p)
      PROVE  Shaped'
  <2>1. pc[w] \in {"stat", "resume"} => \A p \in Paths : ~Open(w, p)
    BY DEF OpenWhileBusy, Fresh
  <2> QED
    BY <1>e, <1>f, <2>1
    DEF StatFails, ResumeFails, Skip, CreateFails, AppendFails, Downloaded,
        ResumeComplete, Resumed, Open
<1>1. ASSUME Take(w) PROVE Shaped'
  <2>1. TransferTypeOK'
    BY <1>0, <1>1 DEF Take
  <2>2. OpenWhileBusy'
    BY <1>0, <1>1 DEF OpenWhileBusy, Fresh, Open, Take
  <2>3. OnePathResumed'
    BY <1>0, <1>1 DEF OnePathResumed, Take
  <2>4. FirstChunk'
    BY <1>0, <1>1 DEF FirstChunk, Take
  <2>5. NotYetOpen'
    BY <1>0, <1>1 DEF NotYetOpen, OpenWhileBusy, Fresh, Open, Take
  <2>6. OpenExists'
    BY <1>0, <1>m, <1>1 DEF OpenExists, Chunks, Open, Linked, Exists, Take
  <2> QED
    BY <2>1, <2>2, <2>3, <2>4, <2>5, <2>6
<1>2. ASSUME Stat(w) PROVE Shaped'
  <2>1. TransferTypeOK'
    BY <1>0, <1>2 DEF Stat, CanResume
  <2>2. OpenWhileBusy'
    BY <1>0, <1>2 DEF OpenWhileBusy, Fresh, Open, Stat, CanResume
  <2>3. OnePathResumed'
    BY <1>0, <1>2 DEF OnePathResumed, Stat, CanResume
  <2>4. FirstChunk'
    BY <1>0, <1>2 DEF FirstChunk, Stat, CanResume
  <2>5. NotYetOpen'
    BY <1>0, <1>2 DEF NotYetOpen, OpenWhileBusy, Fresh, Open, Stat, CanResume
  <2>6. OpenExists'
    BY <1>0, <1>m, <1>2 DEF OpenExists, Chunks, Open, Linked, Exists, Stat, CanResume
  <2> QED
    BY <2>1, <2>2, <2>3, <2>4, <2>5, <2>6
<1>4. ASSUME NEW p \in paths, Check(w, p) PROVE Shaped'
  <2>1. TransferTypeOK'
    BY <1>0, <1>4 DEF Check
  <2>2. OpenWhileBusy'
    BY <1>0, <1>4 DEF OpenWhileBusy, Fresh, Open, Check
  <2>3. OnePathResumed'
    BY <1>0, <1>4 DEF OnePathResumed, Check
  <2>4. FirstChunk'
    BY <1>0, <1>4 DEF FirstChunk, Check
  <2>5. NotYetOpen'
    BY <1>0, <1>4 DEF NotYetOpen, OpenWhileBusy, Fresh, Open, Check
  <2>6. OpenExists'
    BY <1>0, <1>m, <1>4 DEF OpenExists, Chunks, Open, Linked, Exists, Check
  <2> QED
    BY <2>1, <2>2, <2>3, <2>4, <2>5, <2>6
<1>5. ASSUME NEW p \in paths, Create(w, p) PROVE Shaped'
  <2>1. TransferTypeOK'
    BY <1>0, <1>5 DEF Create
  <2>2. OpenWhileBusy'
    BY <1>0, <1>5 DEF OpenWhileBusy, Fresh, Open, Create
  <2>3. OnePathResumed'
    BY <1>0, <1>5 DEF OnePathResumed, Create
  <2>4. FirstChunk'
    BY <1>0, <1>5 DEF FirstChunk, Create
  <2>5. NotYetOpen'
    BY <1>0, <1>5 DEF NotYetOpen, OpenWhileBusy, Fresh, Open, Create
  <2>6. OpenExists'
    BY <1>0, <1>m, <1>5 DEF OpenExists, Chunks, Open, Linked, Exists, Create
  <2> QED
    BY <2>1, <2>2, <2>3, <2>4, <2>5, <2>6
<1>8. ASSUME Begin(w) PROVE Shaped'
  <2>1. TransferTypeOK'
    BY <1>0, <1>8 DEF Begin
  <2>2. OpenWhileBusy'
    BY <1>0, <1>8 DEF OpenWhileBusy, Fresh, Open, Begin
  <2>3. OnePathResumed'
    BY <1>0, <1>8 DEF OnePathResumed, Begin
  <2>4. FirstChunk'
    BY <1>0, <1>8 DEF FirstChunk, Begin
  <2>5. NotYetOpen'
    BY <1>0, <1>8 DEF NotYetOpen, OpenWhileBusy, Fresh, Open, Begin
  <2>6. OpenExists'
    BY <1>0, <1>m, <1>8 DEF OpenExists, Chunks, Open, Linked, Exists, Begin
  <2> QED
    BY <2>1, <2>2, <2>3, <2>4, <2>5, <2>6
<1>9. ASSUME NEW p \in paths, ResumeOpen(w, p) PROVE Shaped'
  <2>1. TransferTypeOK'
    BY <1>0, <1>9 DEF ResumeOpen, From, Length
  <2>2. OpenWhileBusy'
    BY <1>0, <1>9 DEF OpenWhileBusy, Fresh, Open, ResumeOpen, From, Length
  <2>3. OnePathResumed'
    BY <1>0, <1>9 DEF OnePathResumed, ResumeOpen, From, Length
  <2>4. FirstChunk'
    BY <1>0, <1>9 DEF FirstChunk, ResumeOpen, From, Length
  <2>5. NotYetOpen'
    BY <1>0, <1>9 DEF NotYetOpen, OpenWhileBusy, Fresh, Open, ResumeOpen, From, Length
  <2>6. OpenExists'
    BY <1>0, <1>m, <1>9
    DEF OpenExists, Chunks, Open, Linked, Exists, ResumeOpen, From, Length
  <2> QED
    BY <2>1, <2>2, <2>3, <2>4, <2>5, <2>6
<1>12. ASSUME NEW p \in paths, AppendChunk(w, p) PROVE Shaped'
  <2>0. /\ disk' \in [Paths -> Chunks \cup {None}]
        /\ \A q \in Paths : Exists(q) => Exists(q)'
    <3>1. CASE Linked(w, p)
      <4>1. disk[p] \in Chunks /\ chunk[w] \in 0..Size
        BY <1>0, <1>m, <1>12, <3>1 DEF AppendChunk, OpenExists, Exists, Chunks
      <4>2. Append(disk[p], chunk[w]) \in Chunks
        BY <4>1 DEF Chunks
      <4> QED
        BY <1>m, <1>12, <3>1, <4>2 DEF AppendChunk, Exists, Chunks
    <3>2. CASE ~Linked(w, p)
      BY <1>12, <3>2 DEF AppendChunk, Exists, Chunks
    <3> QED
      BY <3>1, <3>2
  <2>1. TransferTypeOK'
    BY <1>0, <1>12, <2>0 DEF AppendChunk, Chunks
  <2>2. OpenWhileBusy'
    BY <1>0, <1>12 DEF OpenWhileBusy, Fresh, Open, AppendChunk
  <2>3. OnePathResumed'
    BY <1>0, <1>12 DEF OnePathResumed, AppendChunk
  <2>4. FirstChunk'
    BY <1>0, <1>12 DEF FirstChunk, AppendChunk
  <2>5. NotYetOpen'
    BY <1>0, <1>12 DEF NotYetOpen, OpenWhileBusy, Fresh, Open, AppendChunk
  <2>6. OpenExists'
    BY <1>12, <2>0 DEF OpenExists, Linked, AppendChunk
  <2> QED
    BY <2>1, <2>2, <2>3, <2>4, <2>5, <2>6
<1>14. ASSUME NEW p \in paths, ResumeAgain(w, p) PROVE Shaped'
  <2>1. TransferTypeOK'
    BY <1>0, <1>14 DEF ResumeAgain, Again, NextAttempt, CloseAll, AllClosed
  <2>2. OpenWhileBusy'
    BY <1>0, <1>14
    DEF OpenWhileBusy, Fresh, Open, ResumeAgain, Again, NextAttempt, CloseAll, AllClosed
  <2>3. OnePathResumed'
    BY <1>0, <1>14 DEF OnePathResumed, ResumeAgain, Again, NextAttempt, CloseAll, AllClosed
  <2>4. FirstChunk'
    BY <1>0, <1>14 DEF FirstChunk, ResumeAgain, Again, NextAttempt, CloseAll, AllClosed
  <2>5. NotYetOpen'
    BY <1>0, <1>14
    DEF NotYetOpen, OpenWhileBusy, Fresh, Open, ResumeAgain, Again, NextAttempt,
        CloseAll, AllClosed
  <2>6. OpenExists'
    BY <1>0, <1>m, <1>14
    DEF OpenExists, Chunks, Open, Linked, Exists, ResumeAgain, Again, NextAttempt,
        CloseAll, AllClosed
  <2> QED
    BY <2>1, <2>2, <2>3, <2>4, <2>5, <2>6
<1>16. ASSUME Write(w) PROVE Shaped'
  <2>0. Store(w, Paths) /\ chunk[w] <= Size
    BY <1>16 DEF Write
  <2> DEFINE S == Paths
  <2>s. /\ disk' \in [Paths -> Chunks \cup {None}]
        /\ handle' \in [Workers -> [Paths -> Nat \cup {Closed, Orphan}]]
        /\ \A q \in Paths : Exists(q) => Exists(q)'
        /\ \A v \in Workers, q \in Paths : Open(v, q)' <=> Open(v, q)
        /\ \A v \in Workers, q \in Paths : Linked(v, q)' <=> Linked(v, q)
    BY <2>0, StoreTyped
  <2>t. chunk' \in [Workers -> 1..(Size + 1)] /\ attempt' \in [Workers -> 1..Retries]
    BY <1>0, <1>16 DEF Write
  <2>u. mixed' \subseteq Paths
    BY <1>16 DEF Write
  <2>1. TransferTypeOK'
    BY <1>16, <2>s, <2>t, <2>u DEF Chunks, Write
  <2>2. OpenWhileBusy'
    BY <1>16, <2>s DEF OpenWhileBusy, Fresh, Write
  <2>3. OnePathResumed'
    BY <1>0, <1>16 DEF OnePathResumed, Write
  <2>4. FirstChunk'
    BY <1>0, <1>16 DEF FirstChunk, Write
  <2>5. NotYetOpen'
    BY <1>16, <2>s DEF NotYetOpen, Write
  <2>6. OpenExists'
    BY <2>s DEF OpenExists
  <2> QED
    BY <2>1, <2>2, <2>3, <2>4, <2>5, <2>6
<1>18. ASSUME DownloadAgain(w) PROVE Shaped'
  <2>0. PICK S \in SUBSET Paths : Store(w, S) /\ (S # {} => chunk[w] <= Size)
    BY <1>18 DEF DownloadAgain
  <2>s. /\ disk' \in [Paths -> Chunks \cup {None}]
        /\ handle' \in [Workers -> [Paths -> Nat \cup {Closed, Orphan}]]
        /\ \A q \in Paths : Exists(q) => Exists(q)'
        /\ \A v \in Workers, q \in Paths : Open(v, q)' <=> Open(v, q)
        /\ \A v \in Workers, q \in Paths : Linked(v, q)' <=> Linked(v, q)
    BY <2>0, StoreTyped
  <2>t. chunk' \in [Workers -> 1..(Size + 1)] /\ attempt' \in [Workers -> 1..Retries]
    BY <1>0, <1>18 DEF DownloadAgain, Again, NextAttempt
  <2>u. mixed' \subseteq Paths
    BY <1>18 DEF DownloadAgain, Again, NextAttempt
  <2>1. TransferTypeOK'
    BY <1>18, <2>s, <2>t, <2>u DEF Chunks, DownloadAgain, Again, NextAttempt
  <2>2. OpenWhileBusy'
    BY <1>18, <2>s DEF OpenWhileBusy, Fresh, DownloadAgain, Again, NextAttempt
  <2>3. OnePathResumed'
    BY <1>0, <1>18 DEF OnePathResumed, DownloadAgain, Again, NextAttempt
  <2>4. FirstChunk'
    BY <1>0, <1>18 DEF FirstChunk, DownloadAgain, Again, NextAttempt
  <2>5. NotYetOpen'
    BY <1>18, <2>s DEF NotYetOpen, DownloadAgain, Again, NextAttempt
  <2>6. OpenExists'
    BY <2>s DEF OpenExists
  <2> QED
    BY <2>1, <2>2, <2>3, <2>4, <2>5, <2>6
<1>19. ASSUME DownloadFails(w) PROVE Shaped'
  <2>1. TransferTypeOK'
    BY <1>0, <1>19 DEF DownloadFails, Settle, Removed
  <2>2. OpenWhileBusy'
    BY <1>0, <1>19 DEF OpenWhileBusy, Fresh, Open, DownloadFails, Settle, Removed
  <2>3. OnePathResumed'
    BY <1>0, <1>19 DEF OnePathResumed, DownloadFails, Settle, Removed
  <2>4. FirstChunk'
    BY <1>0, <1>19 DEF FirstChunk, DownloadFails, Settle, Removed
  <2>5. NotYetOpen'
    BY <1>0, <1>19
    DEF NotYetOpen, OpenWhileBusy, Fresh, Open, DownloadFails, Settle, Removed
  <2>6. OpenExists'
    BY <1>0, <1>m, <1>19
    DEF OpenExists, Chunks, Open, Linked, Exists, DownloadFails, Settle, Removed
  <2> QED
    BY <2>1, <2>2, <2>3, <2>4, <2>5, <2>6
<1> QED
  BY <1>1, <1>2, <1>4, <1>5, <1>8, <1>9, <1>12, <1>14, <1>16, <1>18, <1>19,
     <1>f DEF Prepare, Resume, Stream

(* The other steps keep it as well.                                        *)
LEMMA ShapedStep == Shaped /\ [TransferNext]_transferVars => Shaped'
<1> SUFFICES ASSUME Shaped, [TransferNext]_transferVars PROVE Shaped'
  OBVIOUS
<1>1. CASE \E w \in Workers : Take(w) \/ Prepare(w) \/ Resume(w) \/ Stream(w)
  BY <1>1, ShapedWorker
<1>2. CASE Cancel
  BY <1>2 DEF Cancel, Shaped, TransferTypeOK, OpenWhileBusy, OnePathResumed, FirstChunk,
              NotYetOpen, OpenExists, Open, Linked, Exists
<1>3. CASE Restart
  <2> USE <1>3 DEF Restart, All, AllClosed, Open, Linked
  <2>1. TransferTypeOK'
    <3>1. 1 \in 1..Retries /\ 1 \in 1..(Size + 1)
      BY TransferAssumption
    <3>2. handle' \in [Workers -> [Paths -> Nat \cup {Closed, Orphan}]]
      OBVIOUS
    <3>3. /\ cancelled' \in BOOLEAN /\ rewrite' \in BOOLEAN /\ paths' \in PathSets
          /\ before' \subseteq Paths /\ mixed' \subseteq Paths
          /\ disk' \in [Paths -> Seq(0..Size) \cup {None}]
      BY DEF Shaped, TransferTypeOK
    <3>4. /\ attempt' \in [Workers -> 1..Retries]
          /\ chunk' \in [Workers -> 1..(Size + 1)]
      BY <3>1
    <3>5. /\ pc' \in [Workers -> {"idle", "stat", "resume", "append", "create", "stream"}]
          /\ left' \in [Workers -> SUBSET Paths]
          /\ make' \in [Workers -> Paths \cup {None}]
      OBVIOUS
    <3> QED
      BY <3>2, <3>3, <3>4, <3>5 DEF TransferTypeOK
  <2>2. OpenWhileBusy' /\ OnePathResumed' /\ FirstChunk' /\ NotYetOpen' /\ OpenExists'
    BY TransferAssumption
       DEF OpenWhileBusy, OnePathResumed, FirstChunk, NotYetOpen, OpenExists
  <2> QED
    BY <2>1, <2>2 DEF Shaped
<1>4. CASE UNCHANGED transferVars
  BY <1>4 DEF transferVars, session, Shaped, TransferTypeOK, OpenWhileBusy, OnePathResumed, FirstChunk,
              NotYetOpen, OpenExists, Open, Linked, Exists
<1> QED
  BY <1>1, <1>2, <1>3, <1>4 DEF TransferNext

-----------------------------------------------------------------------------
(* Every step keeps the content coherent: a worker.                        *)
LEMMA CoherentWorker ==
  ASSUME Coherent, Shaped', NEW w \in Workers,
         Prepare(w) \/ Resume(w) \/ Stream(w) \/ Take(w)
  PROVE  Coherent'
<1> USE DEF session, Open, Linked, Exists
<1>0. /\ Size \in Nat /\ Size > 0 /\ paths \subseteq Paths /\ None \notin Paths
      /\ Closed \notin Nat /\ Orphan \notin Nat
  BY TransferAssumption DEF Coherent, Shaped, TransferTypeOK
<1>m. None \notin Chunks /\ <<>> \in Chunks /\ Len(<<>>) = 0
  BY TransferAssumption, SeqMonotonic, EmptySeq, 0..Size \subseteq Nat DEF Chunks
<1>t. /\ disk \in [Paths -> Chunks \cup {None}]
      /\ pc \in [Workers -> {"idle", "stat", "resume", "append", "create", "stream"}]
      /\ chunk \in [Workers -> 1..(Size + 1)]
      /\ left \in [Workers -> SUBSET Paths]
      /\ make \in [Workers -> Paths \cup {None}]
      /\ handle \in [Workers -> [Paths -> Nat \cup {Closed, Orphan}]]
      /\ mixed \subseteq Paths /\ before \subseteq Paths
  BY DEF Coherent, Shaped, TransferTypeOK, Chunks
<1>c. OneWriter /\ WriterAtEnd /\ BeforeSafe /\ PrefixOnDisk
  BY DEF Coherent
<1>b. OpenWhileBusy /\ OnePathResumed /\ FirstChunk /\ NotYetOpen /\ OpenExists
  BY DEF Coherent, Shaped
<1>e. ASSUME Settle(w), UNCHANGED <<disk, mixed>>,
             \/ handle' = CloseAll(w)
             \/ handle' = handle /\ \A p \in Paths : ~Open(w, p)
      PROVE  Coherent'
  <2> USE <1>e DEF Settle, CloseAll, AllClosed
  <2>1. /\ \A v \in Workers, p \in Paths :
             Linked(v, p)' => v # w /\ Linked(v, p) /\ handle'[v][p] = handle[v][p]
        /\ \A v \in Workers, p \in Paths : Open(v, p)' => v # w /\ Open(v, p)
        /\ \A v \in Workers \ {w} : pc'[v] = pc[v] /\ chunk'[v] = chunk[v]
    BY <1>0, <1>t
  <2>2. OneWriter' /\ WriterAtEnd'
    BY <1>c, <2>1 DEF OneWriter, WriterAtEnd
  <2>3. BeforeSafe'
    BY <1>0, <1>t, <1>c, <2>1 DEF BeforeSafe
  <2>4. PrefixOnDisk'
    BY <1>c DEF PrefixOnDisk
  <2> QED
    BY <2>2, <2>3, <2>4 DEF Coherent
<1>f. ASSUME \/ StatFails(w) \/ ResumeFails(w) \/ Skip(w) \/ CreateFails(w)
             \/ AppendFails(w) \/ Downloaded(w)
             \/ \E p \in paths : ResumeComplete(w, p) \/ Resumed(w, p)
      PROVE  Coherent'
  <2>1. pc[w] \in {"stat", "resume"} => \A p \in Paths : ~Open(w, p)
    BY <1>b DEF OpenWhileBusy, Fresh
  <2> QED
    BY <1>e, <1>f, <2>1
    DEF StatFails, ResumeFails, Skip, CreateFails, AppendFails, Downloaded,
        ResumeComplete, Resumed, Open
<1>1. ASSUME Take(w) PROVE Coherent'
  <2>1. OneWriter'
    BY <1>0, <1>m, <1>t, <1>c, <1>b, <1>1 DEF OneWriter, OpenWhileBusy, Fresh, Take
  <2>2. WriterAtEnd'
    BY <1>0, <1>m, <1>t, <1>c, <1>b, <1>1
    DEF OneWriter, WriterAtEnd, OpenWhileBusy, FirstChunk, NotYetOpen, OnePathResumed,
        OpenExists, Fresh, Take
  <2>3. BeforeSafe'
    BY <1>0, <1>m, <1>t, <1>c, <1>b, <1>1 DEF BeforeSafe, OpenWhileBusy, Fresh, Take
  <2>4. PrefixOnDisk'
    BY <1>0, <1>m, <1>t, <1>c, <1>b, <1>1 DEF PrefixOnDisk, WriterAtEnd, IsPart, Take
  <2> QED
    BY <2>1, <2>2, <2>3, <2>4 DEF Coherent
<1>2. ASSUME Stat(w) PROVE Coherent'
  <2>1. OneWriter'
    BY <1>0, <1>m, <1>t, <1>c, <1>b, <1>2
    DEF OneWriter, OpenWhileBusy, Fresh, Stat, CanResume
  <2>2. WriterAtEnd'
    BY <1>0, <1>m, <1>t, <1>c, <1>b, <1>2
    DEF OneWriter, WriterAtEnd, OpenWhileBusy, FirstChunk, NotYetOpen, OnePathResumed,
        OpenExists, Fresh, Stat, CanResume
  <2>3. BeforeSafe'
    BY <1>0, <1>m, <1>t, <1>c, <1>b, <1>2
    DEF BeforeSafe, OpenWhileBusy, Fresh, Stat, CanResume
  <2>4. PrefixOnDisk'
    BY <1>0, <1>m, <1>t, <1>c, <1>b, <1>2
    DEF PrefixOnDisk, WriterAtEnd, IsPart, Stat, CanResume
  <2> QED
    BY <2>1, <2>2, <2>3, <2>4 DEF Coherent
<1>4. ASSUME NEW p \in paths, Check(w, p) PROVE Coherent'
  <2>1. OneWriter'
    BY <1>0, <1>m, <1>t, <1>c, <1>b, <1>4
    DEF OneWriter, OpenWhileBusy, Fresh, Check, Creatable
  <2>2. WriterAtEnd'
    BY <1>0, <1>m, <1>t, <1>c, <1>b, <1>4
    DEF OneWriter, WriterAtEnd, OpenWhileBusy, FirstChunk, NotYetOpen, OnePathResumed,
        OpenExists, Fresh, Check, Creatable
  <2>3. BeforeSafe'
    BY <1>0, <1>m, <1>t, <1>c, <1>b, <1>4
    DEF BeforeSafe, OpenWhileBusy, Fresh, Check, Creatable
  <2>4. PrefixOnDisk'
    BY <1>0, <1>m, <1>t, <1>c, <1>b, <1>4
    DEF PrefixOnDisk, WriterAtEnd, IsPart, Check, Creatable
  <2> QED
    BY <2>1, <2>2, <2>3, <2>4 DEF Coherent
<1>5. ASSUME NEW p \in paths, Create(w, p) PROVE Coherent'
  <2>1. OneWriter'
    BY <1>0, <1>m, <1>t, <1>c, <1>b, <1>5
    DEF OneWriter, OpenWhileBusy, Fresh, Create, OthersOpen
  <2>2. WriterAtEnd'
    BY <1>0, <1>m, <1>t, <1>c, <1>b, <1>5
    DEF OneWriter, WriterAtEnd, OpenWhileBusy, FirstChunk, NotYetOpen, OnePathResumed,
        OpenExists, Fresh, Create, OthersOpen
  <2>3. BeforeSafe'
    BY <1>0, <1>m, <1>t, <1>c, <1>b, <1>5
    DEF BeforeSafe, OpenWhileBusy, Fresh, Create, OthersOpen
  <2>4. PrefixOnDisk'
    BY <1>0, <1>m, <1>t, <1>c, <1>b, <1>5
    DEF PrefixOnDisk, WriterAtEnd, IsPart, Create, OthersOpen
  <2> QED
    BY <2>1, <2>2, <2>3, <2>4 DEF Coherent
<1>8. ASSUME Begin(w) PROVE Coherent'
  <2>1. OneWriter'
    BY <1>0, <1>m, <1>t, <1>c, <1>b, <1>8 DEF OneWriter, OpenWhileBusy, Fresh, Begin
  <2>2. WriterAtEnd'
    BY <1>0, <1>m, <1>t, <1>c, <1>b, <1>8
    DEF OneWriter, WriterAtEnd, OpenWhileBusy, FirstChunk, NotYetOpen, OnePathResumed,
        OpenExists, Fresh, Begin
  <2>3. BeforeSafe'
    BY <1>0, <1>m, <1>t, <1>c, <1>b, <1>8 DEF BeforeSafe, OpenWhileBusy, Fresh, Begin
  <2>4. PrefixOnDisk'
    BY <1>0, <1>m, <1>t, <1>c, <1>b, <1>8 DEF PrefixOnDisk, WriterAtEnd, IsPart, Begin
  <2> QED
    BY <2>1, <2>2, <2>3, <2>4 DEF Coherent
<1>9. ASSUME NEW p \in paths, ResumeOpen(w, p) PROVE Coherent'
  <2>1. OneWriter'
    BY <1>0, <1>m, <1>t, <1>c, <1>b, <1>9
    DEF OneWriter, OpenWhileBusy, Fresh, ResumeOpen, From, Length, OthersOpen
  <2>2. WriterAtEnd'
    BY <1>0, <1>m, <1>t, <1>c, <1>b, <1>9
    DEF OneWriter, WriterAtEnd, OpenWhileBusy, FirstChunk, NotYetOpen, OnePathResumed,
        OpenExists, Fresh, ResumeOpen, From, Length, OthersOpen
  <2>3. BeforeSafe'
    BY <1>0, <1>m, <1>t, <1>c, <1>b, <1>9
    DEF BeforeSafe, OpenWhileBusy, Fresh, ResumeOpen, From, Length, OthersOpen
  <2>4. PrefixOnDisk'
    BY <1>0, <1>m, <1>t, <1>c, <1>b, <1>9
    DEF PrefixOnDisk, WriterAtEnd, IsPart, ResumeOpen, From, Length, OthersOpen
  <2> QED
    BY <2>1, <2>2, <2>3, <2>4 DEF Coherent
<1>12. ASSUME NEW p \in paths, AppendChunk(w, p) PROVE Coherent'
  <2>0. /\ p \in Paths /\ pc[w] = "append"
        /\ \A q \in Paths : Linked(w, q) => q = p
    BY <1>0, <1>b, <1>12 DEF OnePathResumed, OpenWhileBusy, AppendChunk
  <2>1. OneWriter'
    BY <1>c, <1>12 DEF OneWriter, AppendChunk
  <2>2. CASE ~Linked(w, p)
    <3>1. disk' = disk /\ \A q \in Paths : ~Linked(w, q)
      BY <2>0, <2>2, <1>12 DEF AppendChunk
    <3>2. WriterAtEnd'
      BY <1>t, <1>c, <1>12, <3>1 DEF WriterAtEnd, AppendChunk
    <3>3. BeforeSafe' /\ PrefixOnDisk'
      BY <1>c, <1>12, <3>1 DEF BeforeSafe, PrefixOnDisk, AppendChunk
    <3> QED
      BY <2>1, <3>2, <3>3 DEF Coherent
  <2>3. CASE Linked(w, p)
    <3>1. disk[p] \in Chunks /\ chunk[w] \in 0..Size
      BY <1>0, <1>t, <1>b, <2>0, <2>3, <1>12 DEF OpenExists, AppendChunk
    <3>2. disk' = [disk EXCEPT ![p] = Append(disk[p], chunk[w])]
      BY <2>3, <1>12 DEF AppendChunk
    <3>3. disk'[p] = Append(disk[p], chunk[w]) /\ Append(disk[p], chunk[w]) \in Chunks
      BY <1>t, <2>0, <3>1, <3>2 DEF Chunks
    <3>4. \A q \in Paths \ {p} : disk'[q] = disk[q]
      BY <1>t, <3>2
    <3>5. ASSUME p \notin mixed
          PROVE  /\ IsPart(disk'[p]) /\ Len(disk'[p]) = Len(disk[p]) + 1
                 /\ chunk'[w] = Len(disk'[p]) + 1
                 /\ \A v \in Workers : Linked(v, p) => v = w
      <4>1. chunk[w] = Len(disk[p]) + 1
        BY <1>c, <2>0, <2>3, <3>5 DEF WriterAtEnd
      <4>2. IsPart(disk[p]) /\ Len(disk[p]) < Size /\ Len(disk[p]) \in Nat
        <5>1. Len(disk[p]) \in Nat
          BY <3>1 DEF Chunks
        <5> QED
          BY <1>0, <1>c, <1>m, <2>0, <3>1, <3>5, <4>1, <5>1 DEF PrefixOnDisk
      <4>3. chunk'[w] = chunk[w] + 1
        BY <1>t, <1>12 DEF AppendChunk
      <4>4. \A v \in Workers : Linked(v, p) => v = w
        BY <1>c, <2>0, <2>3, <3>5 DEF OneWriter
      <4> QED
        BY <3>1, <3>3, <4>1, <4>2, <4>3, <4>4, AppendNext
    <3>6. WriterAtEnd'
      <4> SUFFICES ASSUME NEW q \in Paths \ mixed, NEW v \in Workers, Linked(v, q)
                   PROVE  /\ pc[v] = "append" => chunk'[v] = Len(disk'[q]) + 1
                          /\ pc[v] \in Fresh => handle[v][q] = Len(disk'[q])
                          /\ pc[v] = "create" => Len(disk'[q]) = 0
                          /\ pc[v] = "stream" => chunk'[v] = Len(disk'[q]) + 1
        BY <1>12 DEF WriterAtEnd, AppendChunk
      <4>1. CASE q = p
        BY <2>0, <3>5, <4>1 DEF Fresh
      <4>2. CASE q # p
        <5>1. v # w /\ chunk'[v] = chunk[v] /\ disk'[q] = disk[q]
          BY <1>t, <2>0, <3>4, <4>2, <1>12 DEF AppendChunk
        <5> QED
          BY <1>c, <5>1 DEF WriterAtEnd
      <4> QED
        BY <4>1, <4>2
    <3>7. BeforeSafe'
      BY <1>m, <1>c, <1>t, <3>3, <3>4, <1>12 DEF BeforeSafe, AppendChunk
    <3>8. PrefixOnDisk'
      BY <1>c, <3>4, <3>5, <1>12 DEF PrefixOnDisk, IsPart, AppendChunk
    <3> QED
      BY <2>1, <3>6, <3>7, <3>8 DEF Coherent
  <2> QED
    BY <2>2, <2>3
<1>14. ASSUME NEW p \in paths, ResumeAgain(w, p) PROVE Coherent'
  <2>1. OneWriter'
    BY <1>0, <1>m, <1>t, <1>c, <1>b, <1>14
    DEF OneWriter, OpenWhileBusy, Fresh, ResumeAgain, Again, NextAttempt, CloseAll,
        AllClosed
  <2>2. WriterAtEnd'
    BY <1>0, <1>m, <1>t, <1>c, <1>b, <1>14
    DEF OneWriter, WriterAtEnd, OpenWhileBusy, FirstChunk, NotYetOpen, OnePathResumed,
        OpenExists, Fresh, ResumeAgain, Again, NextAttempt, CloseAll, AllClosed
  <2>3. BeforeSafe'
    BY <1>0, <1>m, <1>t, <1>c, <1>b, <1>14
    DEF BeforeSafe, OpenWhileBusy, Fresh, ResumeAgain, Again, NextAttempt, CloseAll,
        AllClosed
  <2>4. PrefixOnDisk'
    BY <1>0, <1>m, <1>t, <1>c, <1>b, <1>14
    DEF PrefixOnDisk, WriterAtEnd, IsPart, ResumeAgain, Again, NextAttempt, CloseAll,
        AllClosed
  <2> QED
    BY <2>1, <2>2, <2>3, <2>4 DEF Coherent
<1>16. ASSUME Write(w) PROVE Coherent'
  <2>1. /\ pc[w] = "stream" /\ chunk[w] \in 0..Size /\ chunk'[w] = chunk[w] + 1
        /\ \A v \in Workers \ {w} : chunk'[v] = chunk[v] /\ handle'[v] = handle[v]
    BY <1>0, <1>t, <1>16 DEF Write, Store
  <2>2. /\ \A p \in Paths : Exists(p) => Exists(p)'
        /\ \A v \in Workers, p \in Paths : Open(v, p)' <=> Open(v, p)
        /\ \A v \in Workers, p \in Paths : Linked(v, p)' <=> Linked(v, p)
    <3>1. Shaped /\ Store(w, Paths) /\ chunk[w] <= Size
      BY <1>16 DEF Write, Coherent
    <3> QED
      BY <3>1, StoreTyped
  <2>3. OneWriter'
    BY <1>c, <2>2, <1>16 DEF OneWriter, Write
  <2>4. BeforeSafe'
    BY <1>c, <1>t, <2>2, <1>16 DEF BeforeSafe, Write
  <2>5. ASSUME NEW p \in Paths \ mixed, Linked(w, p)
        PROVE  /\ IsPart(disk'[p]) /\ handle'[w][p] = Len(disk'[p])
               /\ chunk'[w] = Len(disk'[p]) + 1
    <3>1. disk[p] \in Chunks /\ IsPart(disk[p])
      BY <1>t, <1>b, <1>c, <2>5 DEF OpenExists, PrefixOnDisk
    <3>2. handle[w][p] = Len(disk[p]) /\ chunk[w] = Len(disk[p]) + 1
      BY <1>c, <2>1, <2>5 DEF WriterAtEnd, Fresh
    <3>3. Len(disk[p]) \in Nat /\ Len(disk[p]) < Size
      <4>1. Len(disk[p]) \in Nat
        BY <3>1 DEF Chunks
      <4> QED
        BY <1>0, <2>1, <3>2, <4>1
    <3>4. disk'[p] = WriteAt(disk[p], Len(disk[p]), Len(disk[p]) + 1)
      BY <2>5, <3>2, <1>16 DEF Write, Store
    <3>5. handle'[w][p] = handle[w][p] + 1
      BY <1>t, <2>5, <1>16 DEF Write, Store
    <3> QED
      BY <2>1, <3>1, <3>2, <3>3, <3>4, <3>5, WriteAtEnd
  <2>6. \A p \in Paths : ~Linked(w, p) => disk'[p] = disk[p]
    BY <1>16 DEF Write, Store
  <2>7. WriterAtEnd'
    <3> SUFFICES ASSUME NEW p \in Paths \ mixed, NEW v \in Workers, Linked(v, p)
                 PROVE  /\ pc[v] = "append" => chunk'[v] = Len(disk'[p]) + 1
                        /\ pc[v] \in Fresh => handle'[v][p] = Len(disk'[p])
                        /\ pc[v] = "create" => Len(disk'[p]) = 0
                        /\ pc[v] = "stream" => chunk'[v] = Len(disk'[p]) + 1
      BY <2>2, <1>16 DEF WriterAtEnd, Write
    <3>1. CASE v = w
      BY <2>1, <2>5, <3>1 DEF Fresh
    <3>2. CASE v # w
      <4>1. ~Linked(w, p)
        BY <1>c, <3>2 DEF OneWriter
      <4> QED
        BY <1>c, <2>1, <2>6, <3>2, <4>1 DEF WriterAtEnd
    <3> QED
      BY <3>1, <3>2
  <2>8. PrefixOnDisk'
    BY <1>c, <2>5, <2>6, <1>16 DEF PrefixOnDisk, IsPart, Write
  <2> QED
    BY <2>3, <2>4, <2>7, <2>8 DEF Coherent
<1>18. ASSUME DownloadAgain(w) PROVE Coherent'
  <2>1. OneWriter'
    BY <1>0, <1>m, <1>t, <1>c, <1>b, <1>18
    DEF OneWriter, OpenWhileBusy, Fresh, DownloadAgain, Store, Again, NextAttempt
  <2>2. WriterAtEnd'
    BY <1>0, <1>m, <1>t, <1>c, <1>b, <1>18
    DEF OneWriter, WriterAtEnd, OpenWhileBusy, FirstChunk, NotYetOpen, OnePathResumed,
        OpenExists, Fresh, DownloadAgain, Store, Again, NextAttempt
  <2>3. BeforeSafe'
    BY <1>0, <1>m, <1>t, <1>c, <1>b, <1>18
    DEF BeforeSafe, OpenWhileBusy, Fresh, DownloadAgain, Store, Again, NextAttempt
  <2>4. PrefixOnDisk'
    BY <1>0, <1>m, <1>t, <1>c, <1>b, <1>18
    DEF PrefixOnDisk, WriterAtEnd, IsPart, DownloadAgain, Store, Again, NextAttempt
  <2> QED
    BY <2>1, <2>2, <2>3, <2>4 DEF Coherent
<1>19. ASSUME DownloadFails(w) PROVE Coherent'
  <2>1. OneWriter'
    BY <1>0, <1>m, <1>t, <1>c, <1>b, <1>19
    DEF OneWriter, OpenWhileBusy, Fresh, DownloadFails, Settle, Removed
  <2>2. WriterAtEnd'
    BY <1>0, <1>m, <1>t, <1>c, <1>b, <1>19
    DEF OneWriter, WriterAtEnd, OpenWhileBusy, FirstChunk, NotYetOpen, OnePathResumed,
        OpenExists, Fresh, DownloadFails, Settle, Removed
  <2>3. BeforeSafe'
    BY <1>0, <1>m, <1>t, <1>c, <1>b, <1>19
    DEF BeforeSafe, OpenWhileBusy, Fresh, DownloadFails, Settle, Removed
  <2>4. PrefixOnDisk'
    BY <1>0, <1>m, <1>t, <1>c, <1>b, <1>19
    DEF PrefixOnDisk, WriterAtEnd, IsPart, DownloadFails, Settle, Removed
  <2> QED
    BY <2>1, <2>2, <2>3, <2>4 DEF Coherent
<1> QED
  BY <1>1, <1>2, <1>4, <1>5, <1>8, <1>9, <1>12, <1>14, <1>16, <1>18, <1>19,
     <1>f DEF Prepare, Resume, Stream

-----------------------------------------------------------------------------
(* Nothing is open and nothing is on disk to begin with.                   *)
LEMMA CoherentInit == TransferInit => Coherent
<1> SUFFICES ASSUME TransferInit PROVE Coherent
  OBVIOUS
<1>1. Shaped
  BY ShapedInit
<1>2. /\ \A w \in Workers, p \in Paths : ~Linked(w, p)
      /\ \A p \in Paths : ~Exists(p)
      /\ before = {}
  BY TransferAssumption DEF TransferInit, All, AllClosed, Linked, Exists
<1> QED
  BY <1>1, <1>2 DEF Coherent, OneWriter, WriterAtEnd, BeforeSafe, PrefixOnDisk

(* No step of a worker, of the user or of the process destroys it.         *)
LEMMA CoherentStep == Coherent /\ [TransferNext]_transferVars => Coherent'
<1> SUFFICES ASSUME Coherent, [TransferNext]_transferVars PROVE Coherent'
  OBVIOUS
<1>1. Shaped'
  BY ShapedStep DEF Coherent
<1>2. CASE \E w \in Workers : Take(w) \/ Prepare(w) \/ Resume(w) \/ Stream(w)
  BY <1>1, <1>2, CoherentWorker
<1>3. CASE Cancel
  BY <1>1, <1>3 DEF Cancel, Coherent, OneWriter, WriterAtEnd, BeforeSafe, PrefixOnDisk,
                    Open, Linked, Exists
<1>4. CASE Restart
  <2>1. /\ \A w \in Workers, p \in Paths :
             ~Linked(w, p)' /\ ~Open(w, p)' /\ make'[w] # p
        /\ \A p \in before' : p \in Paths /\ Exists(p)' /\ ~rewrite'
    BY <1>4, TransferAssumption DEF Restart, All, AllClosed, Linked, Open, Exists
  <2>2. OneWriter' /\ WriterAtEnd' /\ BeforeSafe'
    BY <1>1, <2>1 DEF Shaped, TransferTypeOK, OneWriter, WriterAtEnd, BeforeSafe
  <2>3. PrefixOnDisk'
    BY <1>4 DEF Restart, Coherent, PrefixOnDisk, Exists
  <2> QED
    BY <1>1, <2>2, <2>3 DEF Coherent
<1>5. CASE UNCHANGED transferVars
  BY <1>1, <1>5 DEF transferVars, session, Coherent, OneWriter, WriterAtEnd, BeforeSafe,
                    PrefixOnDisk, Open, Linked, Exists
<1> QED
  BY <1>2, <1>3, <1>4, <1>5 DEF TransferNext

(* The inductive invariant: in every reachable state a path that is not    *)
(* mixed has one writer at most, which stands where the file ends.         *)
THEOREM AlwaysCoherent == TransferSpec => []Coherent
<1>1. TransferInit => Coherent
  BY CoherentInit
<1>2. Coherent /\ [TransferNext]_transferVars => Coherent'
  BY CoherentStep
<1> QED
  BY <1>1, <1>2, PTL DEF TransferSpec

(* Every variable of a transfer has its type.                              *)
THEOREM TransferTypeCorrect == TransferSpec => []TransferTypeOK
<1>1. Coherent => TransferTypeOK
  BY DEF Coherent, Shaped
<1> QED
  BY <1>1, AlwaysCoherent, PTL

(* What is on disk is the beginning of the file: after any number of       *)
(* crashes, sessions and attempts, on every path that only one worker      *)
(* wrote and no retry wrote over.                                          *)
THEOREM PrefixesOnDisk == TransferSpec => []PrefixOnDisk
<1>1. Coherent => PrefixOnDisk
  BY DEF Coherent
<1> QED
  BY <1>1, AlwaysCoherent, PTL

-----------------------------------------------------------------------------
(* Without --rewrite, no step loses what an earlier session has stored.    *)
LEMMA StepKeepsData ==
  ASSUME Coherent, [TransferNext]_transferVars, NEW p \in before
  PROVE  /\ Exists(p)' /\ Len(disk'[p]) >= Len(disk[p])
         /\ \A i \in 1..Len(disk[p]) : disk'[p][i] = disk[p][i]
<1>0. /\ p \in Paths /\ disk[p] \in Chunks /\ Len(disk[p]) \in Nat
      /\ disk \in [Paths -> Chunks \cup {None}] /\ None \notin Chunks
      /\ \A w \in Workers : make[w] # p /\ (Open(w, p) => pc[w] = "append")
  <2>1. None \notin Chunks
    BY TransferAssumption, SeqMonotonic, 0..Size \subseteq Nat DEF Chunks
  <2> QED
    BY <2>1 DEF Coherent, Shaped, TransferTypeOK, BeforeSafe, Exists, Chunks
<1>1. disk'[p] = disk[p] \/ \E x \in 0..Size : disk'[p] = Append(disk[p], x)
  <2>1. CASE \E w \in Workers, q \in paths : AppendChunk(w, q)
    <3>1. PICK w \in Workers, q \in paths : AppendChunk(w, q)
      BY <2>1
    <3>2. chunk[w] \in 0..Size
      BY <3>1, TransferAssumption DEF AppendChunk, Coherent, Shaped, TransferTypeOK
    <3> QED
      BY <1>0, <3>1, <3>2 DEF AppendChunk
  <2>2. CASE \E w \in Workers, q \in paths : Create(w, q)
    BY <1>0, <2>2 DEF Create
  <2>3. CASE \E w \in Workers : Write(w) \/ DownloadAgain(w) \/ DownloadFails(w)
    <3>1. PICK w \in Workers : Write(w) \/ DownloadAgain(w) \/ DownloadFails(w)
      BY <2>3
    <3>2. ~Open(w, p)
      BY <1>0, <3>1 DEF Write, DownloadAgain, DownloadFails
    <3>3. ~Linked(w, p)
      BY <3>2, TransferAssumption DEF Open, Linked
    <3> QED
      BY <1>0, <3>1, <3>2, <3>3 DEF Write, DownloadAgain, DownloadFails, Store, Removed
  <2>4. CASE UNCHANGED disk
    BY <2>4
  <2> QED
    BY <2>1, <2>2, <2>3, <2>4
    DEF TransferNext, Prepare, Resume, Stream, Cancel, Restart, Take, Stat, StatFails, Check,
        CreateFails, Skip, Begin, ResumeOpen, ResumeComplete, ResumeFails, Resumed,
        ResumeAgain, AppendFails, Downloaded, transferVars
<1>2. ASSUME NEW x \in 0..Size, disk'[p] = Append(disk[p], x)
      PROVE  /\ disk'[p] \in Chunks /\ Len(disk'[p]) = Len(disk[p]) + 1
             /\ \A i \in 1..Len(disk[p]) : disk'[p][i] = disk[p][i]
  BY <1>0, <1>2, AppendProperties DEF Chunks
<1>3. disk'[p] \in Chunks /\ disk[p] # None
  BY <1>0, <1>1, <1>2
<1> QED
  BY <1>0, <1>1, <1>2, <1>3 DEF Exists

(* Whatever happens in a session without --rewrite, the files that earlier *)
(* sessions left keep every chunk they had.                                *)
THEOREM EarlierDataIsKept == TransferSpec => EarlierDataKept
<1> DEFINE Kept ==
      \A p \in before :
        /\ Exists(p)' /\ Len(disk'[p]) >= Len(disk[p])
        /\ \A i \in 1..Len(disk[p]) : disk'[p][i] = disk[p][i]
<1>1. Coherent /\ [TransferNext]_transferVars => [Kept]_transferVars
  BY StepKeepsData
<1> QED
  BY <1>1, AlwaysCoherent, PTL DEF TransferSpec, EarlierDataKept

-----------------------------------------------------------------------------
(* A resumed file is not counted before all of it is on disk.              *)
LEMMA CountsResumedWhole ==
  ASSUME Coherent, NEW w \in Workers, CountsResumed(w), NEW p \in paths, p \notin mixed
  PROVE  disk[p] = Whole
<1>0. /\ Size \in Nat /\ Size > 0 /\ p \in Paths
      /\ disk \in [Paths -> Chunks \cup {None}]
  BY TransferAssumption DEF Coherent, Shaped, TransferTypeOK, Chunks
<1>1. Exists(p) /\ Len(disk[p]) >= Size
  <2>1. PICK q \in paths : ResumeComplete(w, q) \/ Resumed(w, q)
    BY DEF CountsResumed
  <2>2. q = p
    BY <2>1 DEF ResumeComplete, Resumed, Coherent, Shaped, OnePathResumed
  <2>3. Length(p) >= Size
    BY <2>1, <2>2 DEF ResumeComplete, Resumed, LongEnough
  <2> QED
    BY <1>0, <2>3 DEF Length
<1>2. disk[p] \in Chunks /\ IsPart(disk[p])
  BY <1>0, <1>1 DEF Exists, Coherent, PrefixOnDisk
<1> QED
  BY <1>1, <1>2, PartIsWhole

(* What a fresh download has at its paths is what its stream has brought.  *)
LEMMA CountsWhatCame ==
  ASSUME Coherent, NEW w \in Workers, Downloaded(w),
         NEW p \in paths, p \notin mixed, Linked(w, p)
  PROVE  disk[p] = Received(w)
<1>0. /\ Size \in Nat /\ p \in Paths
      /\ disk \in [Paths -> Chunks \cup {None}]
      /\ chunk[w] \in 1..(Size + 1)
  BY TransferAssumption DEF Coherent, Shaped, TransferTypeOK, Chunks
<1>1. Exists(p)
  BY <1>0 DEF Downloaded, Coherent, Shaped, OpenExists
<1>2. chunk[w] = Len(disk[p]) + 1
  BY <1>0, <1>1 DEF Downloaded, Coherent, WriterAtEnd, Fresh
<1>3. disk[p] \in Seq(0..Size) /\ IsPart(disk[p])
  BY <1>0, <1>1 DEF Exists, Coherent, PrefixOnDisk, Chunks
<1>4. chunk[w] - 1 = Len(disk[p])
  BY <1>2, <1>3
<1>5. \A i \in 1..Len(disk[p]) : disk[p][i] = i
  BY <1>3 DEF IsPart
<1>6. disk[p] = [i \in 1..Len(disk[p]) |-> disk[p][i]]
  BY <1>3
<1> QED
  BY <1>4, <1>5, <1>6 DEF Received

(* A resumed file is counted when it is whole, whatever attempts, sessions *)
(* and crashes its parts are from; a fresh one with exactly what its stream*)
(* has brought.  For the paths that are not mixed.                         *)
THEOREM CountsWholeFiles == TransferSpec => CountedWhole
<1> DEFINE Honest ==
      \A w \in Workers : \A p \in paths \ mixed :
        /\ CountsResumed(w) => disk[p] = Whole
        /\ Downloaded(w) /\ Linked(w, p) => disk[p] = Received(w)
<1>1. Coherent => [Honest]_transferVars
  BY CountsResumedWhole, CountsWhatCame
<1> QED
  BY <1>1, AlwaysCoherent, PTL DEF CountedWhole
=============================================================================
