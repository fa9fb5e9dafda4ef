---------------------------- MODULE PromptHistory -----------------------------
(***************************************************************************)
(* The history of the prompt over several sessions: the file, the store    *)
(* that a session keeps of it (promptHistoryStore, prompt_history.go), and *)
(* the list the screen recalls lines from (prompt_model.go).  A line is    *)
(* recorded in memory, then on the disk, and then told to the screen; the  *)
(* disk may fail or the process die in between.                            *)
(***************************************************************************)
EXTENDS Naturals, Sequences, SequencesExt

CONSTANTS
  Lines,        \* what the user enters, as far as lines differ
  Long,         \* those that bufio.Scanner cannot read again: over 64 KiB
  Limits,       \* what the configuration may say of the number of entries
  MaxArgs,      \* bound: the arguments of a command
  MaxSessions, MaxFaults, MaxEntered  \* bounds

ASSUME HistoryAssumption ==
  /\ Long \subseteq Lines
  /\ Limits \subseteq Nat \ {0}
  /\ MaxArgs \in Nat /\ MaxSessions \in Nat /\ MaxFaults \in Nat /\ MaxEntered \in Nat

(* The arguments: a word, a flag, a flag with a secret name that only the  *)
(* arguments give away or that the text does, and one with its value.      *)
Arg == {"word", "flag", "pass", "password", "pass="}
Args == {<<>>, <<"exit">>}
        \cup UNION {{<<"word">> \o s : s \in [1..n -> Arg]} : n \in 0..(MaxArgs - 1)}

(* An entry is a line and whether it carries the value of a secret.  What  *)
(* is left of a write that failed, alone or glued to the next line, is     *)
(* Torn.                                                                   *)
Torn == [line |-> "torn", secret |-> FALSE]
Entry == [line : Lines, secret : BOOLEAN] \cup {Torn}

VARIABLES
  disk,      \* the file, <<>> when it is absent
  torn,      \* its last line has no end
  on,        \* the session has a store
  limit,     \* maxEntries
  entries, lastEntry,
  history, historyIndex,  \* the screen's list and the place in it
  phase,     \* "down", "idle", "append", "rewrite", "remove" or "rename"
  loading,   \* the write belongs to newPromptHistoryStore
  logged,    \* what the store began with and what it took since
  clean,     \* it began with a whole file, and no write has failed since
  stored,    \* the last line that was accepted without an error
  sessions, faults, entered

file == <<disk, torn>>
store == <<on, limit, entries, lastEntry>>
screen == <<history, historyIndex>>
ghosts == <<logged, clean, stored>>
counts == <<sessions, faults, entered>>
vars == <<file, store, screen, phase, loading, ghosts, counts>>

None == [line |-> "none", secret |-> FALSE]

(* Every entry has its place, the recall its place in the list.            *)
TypeOK ==
  /\ disk \in Seq(Entry) /\ torn \in BOOLEAN
  /\ on \in BOOLEAN /\ limit \in Limits
  /\ entries \in Seq(Entry) /\ lastEntry \in Entry \cup {None}
  /\ on /\ phase = "idle" => Len(entries) <= limit
  /\ history \in Seq(Entry) /\ historyIndex \in 0..Len(history)
  /\ phase \in {"down", "idle", "append", "rewrite", "remove", "rename"}
  /\ loading \in BOOLEAN
  /\ logged \in Seq(Entry) /\ clean \in BOOLEAN /\ stored \in Entry \cup {None}
  /\ sessions \in 0..MaxSessions /\ faults \in 0..MaxFaults /\ entered \in 0..MaxEntered

Init ==
  /\ disk = <<>> /\ torn = FALSE
  /\ on = FALSE /\ limit \in Limits /\ entries = <<>> /\ lastEntry = None
  /\ history = <<>> /\ historyIndex = 0
  /\ phase = "down" /\ loading = FALSE
  /\ logged = <<>> /\ clean = TRUE /\ stored = None
  /\ sessions = 0 /\ faults = 0 /\ entered = 0

-----------------------------------------------------------------------------
(* s[len(s)-n:]                                                            *)
Newest(s, n) == IF Len(s) > n THEN SubSeq(s, Len(s) - n + 1, Len(s)) ELSE s

(* hasSensitivePromptArgs: what it knows after each argument.              *)
(* (A definition whose name ends in _Slip is not part of the model: it is  *)
(* the definition after it with a mistake in it, used to see that the      *)
(* properties notice the mistake.)                                         *)
Expects_Slip(seen, arg) ==
  IF arg = "pass=" THEN "found" ELSE IF arg \in {"pass", "password"} THEN "expects"
  ELSE IF arg = "word" /\ seen = "expects" THEN "found" ELSE "clear"
Expects(seen, arg) ==
  IF seen \in {"found", "expects"} \/ arg = "pass=" THEN "found"
  ELSE IF arg \in {"pass", "password"} THEN "expects"
  ELSE "clear"

HasSensitivePromptArgs(args) ==
  LET seen[i \in 0..Len(args)] == IF i = 0 THEN "clear" ELSE Expects(seen[i-1], args[i])
  IN  seen[Len(args)] = "found"
HasSensitivePromptText(args) == "password" \in Range(args)

ShouldSkip(args) ==
  \/ args = <<>> \/ args[1] = "exit"
  \/ HasSensitivePromptArgs(args) \/ HasSensitivePromptText(args)

(* What "secret" means: a flag with a secret name has got a value.         *)
CarriesSecret(args) ==
  \E i \in 1..Len(args) :
    \/ args[i] = "pass="
    \/ args[i] \in {"pass", "password"} /\ i < Len(args)

-----------------------------------------------------------------------------
Begin(loaded) ==
  /\ on' = TRUE /\ entries' = Newest(loaded, limit')
  /\ lastEntry' = (IF loaded = <<>> THEN None ELSE Last(loaded))
  /\ logged' = loaded
  /\ IF Len(loaded) > limit'
     THEN /\ phase' = "rewrite" /\ loading' = TRUE /\ UNCHANGED screen
     ELSE /\ phase' = "idle" /\ history' = entries' /\ historyIndex' = Len(entries')
          /\ UNCHANGED loading

Disabled ==
  /\ on' = FALSE /\ phase' = "idle" /\ loading' = FALSE
  /\ entries' = <<>> /\ lastEntry' = None /\ history' = <<>> /\ historyIndex' = 0

(* newPromptHistoryStore.  A session goes on without a history that it     *)
(* cannot load.                                                            *)
Load ==
  /\ phase = "down" /\ sessions < MaxSessions /\ sessions' = sessions + 1
  /\ limit' \in Limits /\ clean' = ~torn /\ stored' = None
  /\ IF \E i \in 1..Len(disk) : disk[i].line \in Long
     THEN Disabled /\ logged' = disk
     ELSE Begin(disk)
  /\ UNCHANGED <<file, faults, entered>>

(* finishCommand, with what persistPromptHistory says of the line.         *)
Recall_Slip(e, kept) ==
  /\ history' = (IF kept THEN Append(history, e) ELSE history)
  /\ historyIndex' = Len(history')
Recall(e, kept) ==
  /\ history' = (IF kept THEN Newest(Append(history, e), limit) ELSE history)
  /\ historyIndex' = Len(history')

(* Record, up to its write.                                                *)
Record(e, args) ==
  IF e = lastEntry \/ ShouldSkip(args)
  THEN /\ Recall(e, FALSE)
       /\ stored' = (IF ShouldSkip(args) THEN None ELSE e)
       /\ UNCHANGED <<store, phase, logged>>
  ELSE /\ entries' = Newest(Append(entries, e), limit) /\ lastEntry' = e
       /\ phase' = (IF Len(entries) + 1 > limit THEN "rewrite" ELSE "append")
       /\ logged' = Append(logged, e) /\ stored' = None
       /\ UNCHANGED <<on, limit, screen>>

Enter ==
  /\ phase = "idle" /\ entered < MaxEntered /\ entered' = entered + 1
  /\ \E l \in Lines, args \in Args :
       \/ /\ on /\ Record([line |-> l, secret |-> CarriesSecret(args)], args)
       \/ /\ ~on /\ Recall(None, FALSE) /\ stored' = None
          /\ UNCHANGED <<store, phase, logged>>
  /\ UNCHANGED <<file, loading, clean, sessions, faults>>

Written ==
  /\ phase' = "idle" /\ loading' = FALSE
  /\ IF loading
     THEN history' = entries /\ historyIndex' = Len(entries) /\ UNCHANGED stored
     ELSE Recall(lastEntry, TRUE) /\ stored' = lastEntry
  /\ UNCHANGED <<store, logged, clean, counts>>

(* The store keeps the line that could not be written; the screen does not *)
(* get it.  A store that cannot be rewritten when it begins is not used.   *)
WriteFails ==
  /\ faults < MaxFaults /\ faults' = faults + 1 /\ clean' = FALSE
  /\ IF loading
     THEN Disabled /\ UNCHANGED limit
     ELSE /\ phase' = "idle" /\ Recall(lastEntry, FALSE)
          /\ UNCHANGED <<store, loading>>
  /\ UNCHANGED <<logged, stored, sessions, entered>>

(* append: O_APPEND.  A line without its end swallows the next one.        *)
AppendLine ==
  /\ phase = "append"
  /\ \/ /\ Written /\ torn' = FALSE
        /\ disk' = (IF torn THEN [disk EXCEPT ![Len(disk)] =
                                    IF lastEntry.line \in Long THEN lastEntry ELSE Torn]
                            ELSE Append(disk, lastEntry))
     \/ /\ WriteFails
        /\ \/ UNCHANGED file
           \/ ~torn /\ torn' = TRUE /\ disk' = Append(disk, Torn)

(* rewrite: the temporary file, then away with the old one, then rename.   *)
Temporary_Slip ==
  /\ phase = "rewrite" /\ phase' = "remove" /\ disk' = <<>> /\ torn' = FALSE
  /\ UNCHANGED <<store, screen, loading, ghosts, counts>>
Temporary ==
  /\ phase = "rewrite"
  /\ \/ /\ phase' = "remove" /\ UNCHANGED <<file, store, screen, loading, ghosts, counts>>
     \/ WriteFails /\ UNCHANGED file

RemoveOld ==
  /\ phase = "remove"
  /\ \/ /\ phase' = "rename" /\ disk' = <<>> /\ torn' = FALSE
        /\ UNCHANGED <<store, screen, loading, ghosts, counts>>
     \/ WriteFails /\ UNCHANGED file

Rename ==
  /\ phase = "rename"
  /\ \/ Written /\ disk' = entries /\ torn' = FALSE
     \/ WriteFails /\ UNCHANGED file

(* The keys Up and Down.                                                   *)
HistoryPrevious ==
  /\ phase = "idle" /\ historyIndex > 0 /\ historyIndex' = historyIndex - 1
  /\ UNCHANGED <<file, store, history, phase, loading, ghosts, counts>>

HistoryNext ==
  /\ phase = "idle" /\ historyIndex < Len(history) /\ historyIndex' = historyIndex + 1
  /\ UNCHANGED <<file, store, history, phase, loading, ghosts, counts>>

(* The session ends, or the process dies wherever it is.                   *)
Down ==
  /\ phase # "down" /\ phase' = "down"
  /\ on' = FALSE /\ entries' = <<>> /\ lastEntry' = None /\ history' = <<>>
  /\ historyIndex' = 0 /\ loading' = FALSE /\ stored' = None
  /\ clean' = (clean /\ phase # "rename")
  /\ UNCHANGED <<file, limit, logged, counts>>

Next ==
  \/ Load \/ Enter \/ AppendLine \/ Temporary \/ RemoveOld \/ Rename
  \/ HistoryPrevious \/ HistoryNext \/ Down

Spec == Init /\ [][Next]_vars

-----------------------------------------------------------------------------
(* Memory, screen and disk tell the same story: the newest of the lines    *)
(* taken so far, as long as no write has failed and no fragment is there.  *)
RecallMatches ==
  on /\ phase = "idle" =>
    /\ entries = Newest(logged, limit)
    /\ clean => history = entries /\ disk = entries

(* The next session finds what the last one has taken, but for the line it *)
(* was just about to write when it died, unless a write has failed or the  *)
(* death came between the removal of the old file and the renaming.        *)
NothingLost ==
  [][Load /\ clean =>
       LET n == Len(logged) IN
       \/ Newest(disk, limit) = Newest(logged, limit)
       \/ n > 0 /\ Newest(disk, limit) = Newest(SubSeq(logged, 1, n - 1), limit)]_vars

(* The value of a secret reaches neither the file nor what Up recalls.     *)
NoSecrets ==
  \A e \in Range(disk) \cup Range(entries) \cup Range(history) : ~e.secret

(* The design says "Accepted valid commands are stored".                   *)
AcceptedStored == phase = "idle" /\ stored # None => stored \in Range(disk)
=============================================================================
