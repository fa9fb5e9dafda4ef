-------------------------- MODULE PromptHistoryProofs --------------------------
(***************************************************************************)
(* Proofs about PromptHistory, for any lines, any limits and any number of *)
(* sessions and faults: what the store, the screen and the file have of    *)
(* the lines taken is the same, the newest ones.                           *)
(*                                                                         *)
(* RecallMatches speaks of the times between two commands.  Consistent     *)
(* says what holds while a line is being written: what the file and the    *)
(* screen lack then is exactly that line.  NothingLost follows from        *)
(* Follows, what the file has of the lines at every step of a write.       *)
(* NoSecrets is about the loop that looks for them: induction over the     *)
(* arguments, by the least number for which it fails.                      *)
(***************************************************************************)
EXTENDS PromptHistory, SequenceTheorems, WellFoundedInduction, TLAPS

Writing == {"append", "rewrite", "remove", "rename"}

(* The store has the newest lines; file and screen follow it.              *)
Consistent ==
  /\ phase \in Writing => on
  /\ on => entries = Newest(logged, limit)
  /\ on /\ phase = "idle" /\ clean => history = entries /\ disk = entries
  /\ clean /\ phase # "down" => ~torn
  /\ torn => disk # <<>>
  /\ loading => phase \in Writing \ {"append"}
  /\ phase \in Writing /\ ~loading =>
       /\ lastEntry \in Entry
       /\ clean => entries = Newest(Append(history, lastEntry), limit)
  /\ phase = "append" /\ clean => entries = Append(disk, lastEntry)

IndInv == TypeOK /\ Consistent

-----------------------------------------------------------------------------
(* The newest n of a sequence.                                             *)

LEMMA NewestProperties ==
  ASSUME NEW S, NEW s \in Seq(S), NEW n \in Nat \ {0}
  PROVE  /\ Newest(s, n) \in Seq(S)
         /\ Len(Newest(s, n)) <= n
         /\ Len(s) <= n => Newest(s, n) = s
<1>1. CASE Len(s) <= n
  BY <1>1, LenProperties DEF Newest
<1>2. CASE Len(s) > n
  <2>1. Len(s) \in Nat /\ \A i \in (Len(s) - n + 1)..Len(s) : s[i] \in S
    BY <1>2, LenProperties, ElementOfSeq
  <2>2. SubSeq(s, Len(s) - n + 1, Len(s)) \in Seq(S) /\ Len(SubSeq(s, Len(s) - n + 1, Len(s))) = n
    BY <1>2, <2>1, SubSeqProperties
  <2> QED
    BY <1>2, <2>1, <2>2 DEF Newest
<1> QED
  BY <1>1, <1>2, LenProperties

(* The last k elements but none, as a function of the place.               *)
LEMMA LastOf ==
  ASSUME NEW S, NEW s \in Seq(S), NEW k \in Nat, k <= Len(s)
  PROVE  LET t == SubSeq(s, Len(s) - k + 1, Len(s))
         IN  t \in Seq(S) /\ Len(t) = k /\ \A i \in 1..k : t[i] = s[Len(s) - k + i]
<1> DEFINE m == Len(s) - k + 1
           n == Len(s)
           t == SubSeq(s, m, n)
<1>1. m \in Int /\ n \in Int /\ \A i \in m..n : s[i] \in S
  BY LenProperties, ElementOfSeq
<1>2. /\ t \in Seq(S)
      /\ Len(t) = IF m <= n THEN n - m + 1 ELSE 0
      /\ \A i \in 1..(n - m + 1) : t[i] = s[m + i - 1]
  <2> HIDE DEF m, n
  <2> QED
    BY <1>1, SubSeqProperties
<1>3. n - m + 1 = k /\ (m <= n <=> k > 0) /\ \A i \in 1..k : m + i - 1 = Len(s) - k + i
  BY LenProperties
<1>4. Len(t) = k
  BY <1>2, <1>3
<1>5. \A i \in 1..k : t[i] = s[Len(s) - k + i]
  BY <1>2, <1>3
<1> QED
  BY <1>2, <1>4, <1>5

(* To drop what is old before a line is added or after makes no difference.*)
LEMMA NewestAppend ==
  ASSUME NEW S, NEW s \in Seq(S), NEW e \in S, NEW n \in Nat \ {0}
  PROVE  Newest(Append(Newest(s, n), e), n) = Newest(Append(s, e), n)
<1>1. CASE Len(s) <= n
  BY <1>1, NewestProperties
<1>2. CASE Len(s) > n
  <2> DEFINE L == Len(s)
             t == Newest(s, n)
  <2>1. L \in Nat /\ L > n
    BY <1>2, LenProperties
  <2>2. t = SubSeq(s, L - n + 1, L)
    BY <1>2 DEF Newest
  <2>3. t \in Seq(S) /\ Len(t) = n /\ \A i \in 1..n : t[i] = s[L - n + i]
    BY <2>1, <2>2, LastOf
  <2> DEFINE u == Append(s, e)
             v == Append(t, e)
             a == SubSeq(u, Len(u) - n + 1, Len(u))
             b == SubSeq(v, Len(v) - n + 1, Len(v))
  <2>4. u \in Seq(S) /\ Len(u) = L + 1 /\ (\A i \in 1..L : u[i] = s[i]) /\ u[L + 1] = e
    BY <2>1
  <2>5. v \in Seq(S) /\ Len(v) = n + 1 /\ (\A i \in 1..n : v[i] = t[i]) /\ v[n + 1] = e
    BY <2>3
  <2> HIDE DEF t, L, u, v
  <2>6. Newest(u, n) = a /\ Newest(v, n) = b
    BY <2>1, <2>4, <2>5 DEF Newest
  <2>7. a \in Seq(S) /\ Len(a) = n /\ \A i \in 1..n : a[i] = u[L + 1 - n + i]
    BY <2>1, <2>4, LastOf
  <2>8. b \in Seq(S) /\ Len(b) = n /\ \A i \in 1..n : b[i] = v[1 + i]
    BY <2>5, LastOf
  <2> HIDE DEF a, b
  <2>9. \A i \in 1..n : a[i] = b[i]
    <3> SUFFICES ASSUME NEW i \in 1..n PROVE a[i] = b[i]
      OBVIOUS
    <3>1. CASE i = n
      BY <3>1, <2>1, <2>4, <2>5, <2>7, <2>8
    <3>2. CASE i # n
      <4>1. b[i] = t[i + 1] /\ t[i + 1] = s[L - n + 1 + i]
        BY <3>2, <2>1, <2>3, <2>5, <2>8
      <4>2. a[i] = s[L - n + 1 + i]
        BY <3>2, <2>1, <2>4, <2>7
      <4> QED
        BY <4>1, <4>2
    <3> QED
      BY <3>1, <3>2
  <2>10. a = b
    BY <2>7, <2>8, <2>9, SeqEqual
  <2> QED
    BY <2>6, <2>10 DEF t, u, v
<1> QED
  BY <1>1, <1>2, LenProperties

(* A line that fits is added at the end.                                   *)
LEMMA AppendFits ==
  ASSUME NEW S, NEW s \in Seq(S), NEW e \in S, NEW n \in Nat \ {0}, Len(s) + 1 <= n
  PROVE  Newest(Append(s, e), n) = Append(s, e)
<1>1. Append(s, e) \in Seq(S) /\ Len(Append(s, e)) = Len(s) + 1
  OBVIOUS
<1> QED
  BY <1>1, NewestProperties

-----------------------------------------------------------------------------
(* Type correctness and consistency, step by step.                         *)

LEMMA InitHolds == Init => IndInv
<1> SUFFICES ASSUME Init PROVE IndInv
  OBVIOUS
<1>1. TypeOK
  <2>1. torn \in BOOLEAN /\ on \in BOOLEAN /\ loading \in BOOLEAN /\ clean \in BOOLEAN
    BY Zenon DEF Init
  <2>2. disk = <<>> /\ entries = <<>> /\ history = <<>> /\ logged = <<>> /\ <<>> \in Seq(Entry)
    BY EmptySeq DEF Init
  <2>3. /\ limit \in Limits /\ lastEntry = None /\ historyIndex = 0 /\ phase = "down" /\ stored = None
        /\ sessions = 0 /\ faults = 0 /\ entered = 0
    BY DEF Init
  <2> QED
    BY <2>1, <2>2, <2>3, HistoryAssumption, EmptySeq DEF TypeOK
<1>2. Consistent
  BY DEF Init, Consistent, Writing
<1> QED
  BY <1>1, <1>2 DEF IndInv

(* The screen takes a line, or only goes back to its end.                  *)
LEMMA RecallTyped ==
  ASSUME TypeOK, NEW e, NEW kept \in BOOLEAN, Recall(e, kept), kept => e \in Entry
  PROVE  /\ history' \in Seq(Entry) /\ historyIndex' \in 0..Len(history')
         /\ ~kept => history' = history
         /\ kept => history' = Newest(Append(history, e), limit)
<1>1. limit \in Nat \ {0} /\ history \in Seq(Entry)
  BY HistoryAssumption DEF TypeOK
<1>2. history' \in Seq(Entry)
  <2>1. CASE kept
    <3>1. Append(history, e) \in Seq(Entry)
      BY <1>1, <2>1
    <3> QED
      BY <1>1, <2>1, <3>1, NewestProperties DEF Recall
  <2>2. CASE ~kept
    BY <1>1, <2>2 DEF Recall
  <2> QED
    BY <2>1, <2>2
<1> QED
  BY <1>2, LenProperties DEF Recall

LEMMA LoadKeeps == ASSUME IndInv, Load PROVE IndInv'
<1> USE DEF IndInv
<1>1. limit' \in Nat \ {0} /\ disk \in Seq(Entry)
  BY HistoryAssumption DEF Load, TypeOK
<1>2. /\ UNCHANGED file /\ clean' = ~torn /\ stored' = None /\ logged' = disk
      /\ sessions' \in 0..MaxSessions /\ faults' = faults /\ entered' = entered
  BY HistoryAssumption DEF Load, Begin, Disabled, TypeOK
<1>3. CASE Disabled
  <2>1. TypeOK'
    <3>1. torn' \in BOOLEAN /\ on' \in BOOLEAN /\ loading' \in BOOLEAN /\ clean' \in BOOLEAN
      BY <1>2, <1>3, Zenon DEF Disabled, TypeOK, file
    <3>2. entries' = <<>> /\ history' = <<>> /\ <<>> \in Seq(Entry) /\ Len(<<>>) = 0
      BY <1>3, EmptySeq DEF Disabled
    <3>3. /\ disk' = disk /\ limit' \in Limits /\ ~on' /\ lastEntry' = None
          /\ historyIndex' = 0 /\ phase' = "idle"
      BY <1>2, <1>3 DEF Load, Disabled, file
    <3> QED
      BY <1>1, <1>2, <3>1, <3>2, <3>3 DEF TypeOK
  <2>2. Consistent'
    BY <1>2, <1>3 DEF Disabled, Consistent, Writing, file
  <2> QED
    BY <2>1, <2>2
<1>4. CASE Begin(disk)
  <2>1. /\ entries' = Newest(disk, limit') /\ entries' \in Seq(Entry) /\ Len(entries') <= limit'
        /\ (Len(disk) <= limit' => entries' = disk)
    BY <1>1, <1>4, NewestProperties DEF Begin
  <2>2. lastEntry' \in Entry \cup {None}
    BY <1>1, <1>4, ElementOfSeq, LenProperties, EmptySeq DEF Begin, Last
  <2>3. CASE Len(disk) > limit'
    <3>1. phase' = "rewrite" /\ loading' = TRUE /\ UNCHANGED screen /\ on' = TRUE
      BY <1>4, <2>3 DEF Begin
    <3> QED
      BY <1>1, <1>2, <2>1, <2>2, <3>1 DEF Load, TypeOK, Consistent, Writing, file, screen
  <2>4. CASE Len(disk) <= limit'
    <3>1. phase' = "idle" /\ history' = entries' /\ historyIndex' = Len(entries') /\ on' = TRUE
          /\ loading' = loading
      BY <1>1, <1>4, <2>4, LenProperties DEF Begin
    <3>2. ~loading
      BY DEF Load, Consistent, Writing
    <3> QED
      BY <1>1, <1>2, <2>1, <2>2, <2>4, <3>1, <3>2, LenProperties DEF Load, TypeOK, Consistent, Writing, file
  <2> QED
    BY <1>1, <2>3, <2>4, LenProperties
<1> QED
  BY <1>3, <1>4 DEF Load

LEMMA EnterKeeps == ASSUME IndInv, Enter PROVE IndInv'
<1> USE DEF IndInv
<1>1. PICK l \in Lines, args \in Args :
        \/ on /\ Record([line |-> l, secret |-> CarriesSecret(args)], args)
        \/ ~on /\ Recall(None, FALSE) /\ stored' = None /\ UNCHANGED <<store, phase, logged>>
  BY DEF Enter
<1>2. /\ phase = "idle" /\ UNCHANGED <<file, loading, clean, sessions, faults>>
      /\ entered' \in 0..MaxEntered /\ ~loading
  BY HistoryAssumption DEF Enter, TypeOK, Consistent, Writing
<1> DEFINE e == [line |-> l, secret |-> CarriesSecret(args)]
<1>3. e \in Entry
  BY DEF Entry, CarriesSecret
<1> HIDE DEF e
<1>4. limit \in Nat \ {0} /\ entries \in Seq(Entry) /\ history \in Seq(Entry) /\ logged \in Seq(Entry)
  BY HistoryAssumption DEF TypeOK
<1>5. ASSUME Recall(e, FALSE) \/ Recall(None, FALSE), stored' \in Entry \cup {None},
             UNCHANGED <<store, phase, logged>>
      PROVE IndInv'
  <2>1. history' = history /\ historyIndex' \in 0..Len(history')
    BY <1>5, RecallTyped
  <2> QED
    BY <1>2, <1>5, <2>1 DEF TypeOK, Consistent, Writing, store, file
<1>6. CASE ~on
  BY <1>1, <1>5, <1>6
<1>7. CASE on /\ (e = lastEntry \/ ShouldSkip(args))
  BY <1>1, <1>3, <1>5, <1>7 DEF Record, e
<1>8. CASE on /\ ~(e = lastEntry \/ ShouldSkip(args))
  <2>1. /\ entries' = Newest(Append(entries, e), limit) /\ lastEntry' = e
        /\ phase' = (IF Len(entries) + 1 > limit THEN "rewrite" ELSE "append")
        /\ logged' = Append(logged, e) /\ stored' = None
        /\ UNCHANGED <<on, limit, screen>>
    BY <1>1, <1>8 DEF Record, e
  <2>2. entries' \in Seq(Entry) /\ Len(entries') <= limit
    <3>1. Append(entries, e) \in Seq(Entry)
      BY <1>3, <1>4
    <3> QED
      BY <1>4, <2>1, <3>1, NewestProperties
  <2>3. entries' = Newest(logged', limit)
    BY <1>3, <1>4, <1>8, <2>1, NewestAppend DEF Consistent
  <2>4. clean => history = entries /\ disk = entries
    BY <1>2, <1>8 DEF Consistent
  <2>5. phase' = "append" => entries' = Append(entries, e)
    BY <1>3, <1>4, <2>1, AppendFits, LenProperties
  <2>6. phase' \in {"rewrite", "append"} /\ logged' \in Seq(Entry)
    BY <1>3, <1>4, <2>1
  <2>7. TypeOK'
    BY <1>2, <1>3, <1>8, <2>1, <2>2, <2>6 DEF TypeOK, file, screen
  <2>8. Consistent'
    BY <1>2, <1>3, <1>8, <2>1, <2>3, <2>4, <2>5, <2>6 DEF Consistent, Writing, file, screen
  <2> QED
    BY <2>7, <2>8
<1> QED
  BY <1>6, <1>7, <1>8

(* A write that is over: the screen takes the line, or at a start the      *)
(* whole of what was loaded.                                               *)
LEMMA WrittenKeeps ==
  ASSUME IndInv, Written, phase \in Writing, disk' \in Seq(Entry), torn' = FALSE,
         clean => disk' = entries
  PROVE  IndInv'
<1> USE DEF IndInv
<1>1. /\ phase' = "idle" /\ loading' = FALSE /\ UNCHANGED <<store, logged, clean, counts>> /\ on
  BY DEF Written, Consistent
<1>2. limit \in Nat \ {0} /\ entries \in Seq(Entry) /\ entries = Newest(logged, limit)
      /\ logged \in Seq(Entry) /\ Len(entries) <= limit
  BY <1>1, HistoryAssumption, NewestProperties DEF TypeOK, Consistent
<1>3. CASE loading
  <2>1. history' = entries /\ historyIndex' = Len(entries) /\ stored' = stored
    BY <1>3 DEF Written
  <2>2. historyIndex' \in 0..Len(history')
    BY <1>2, <2>1, LenProperties
  <2> QED
    BY <1>1, <1>2, <2>1, <2>2 DEF TypeOK, Consistent, Writing, store, counts
<1>4. CASE ~loading
  <2>1. Recall(lastEntry, TRUE) /\ stored' = lastEntry /\ lastEntry \in Entry
    BY <1>4 DEF Written, Consistent
  <2>2. /\ history' \in Seq(Entry) /\ historyIndex' \in 0..Len(history')
        /\ history' = Newest(Append(history, lastEntry), limit)
    BY <2>1, RecallTyped
  <2>3. clean => history' = entries
    BY <1>4, <2>2 DEF Consistent
  <2> QED
    BY <1>1, <1>2, <2>1, <2>2, <2>3 DEF TypeOK, Consistent, Writing, store, counts
<1> QED
  BY <1>3, <1>4

(* A write that has failed.                                                *)
LEMMA FailureKeeps ==
  ASSUME IndInv, WriteFails, phase \in Writing, disk' \in Seq(Entry), torn' \in BOOLEAN,
         torn' => disk' # <<>>
  PROVE  IndInv'
<1> USE DEF IndInv
<1>1. /\ faults' \in 0..MaxFaults /\ clean' = FALSE /\ on
      /\ UNCHANGED <<logged, stored, sessions, entered>>
  BY HistoryAssumption DEF WriteFails, TypeOK, Consistent
<1>2. limit \in Nat \ {0} /\ entries \in Seq(Entry) /\ entries = Newest(logged, limit)
      /\ logged \in Seq(Entry) /\ Len(entries) <= limit
  BY <1>1, HistoryAssumption, NewestProperties DEF TypeOK, Consistent
<1>3. CASE loading
  <2>1. /\ on' = FALSE /\ phase' = "idle" /\ loading' = FALSE /\ limit' = limit
        /\ entries' = <<>> /\ lastEntry' = None /\ history' = <<>> /\ historyIndex' = 0
    BY <1>3 DEF WriteFails, Disabled
  <2>2. <<>> \in Seq(Entry) /\ Len(<<>>) = 0
    BY EmptySeq
  <2>3. on' \in BOOLEAN /\ loading' \in BOOLEAN /\ clean' \in BOOLEAN
    BY <1>1, <2>1, Zenon
  <2>4. limit' \in Limits /\ logged' \in Seq(Entry) /\ stored' \in Entry \cup {None}
        /\ sessions' \in 0..MaxSessions /\ entered' \in 0..MaxEntered
    BY <1>1, <2>1 DEF TypeOK
  <2>5. TypeOK'
    BY <1>1, <2>1, <2>2, <2>3, <2>4 DEF TypeOK
  <2>6. Consistent'
    BY <1>1, <2>1 DEF Consistent, Writing
  <2> QED
    BY <2>5, <2>6
<1>4. CASE ~loading
  <2>1. phase' = "idle" /\ Recall(lastEntry, FALSE) /\ UNCHANGED <<store, loading>>
    BY <1>4 DEF WriteFails
  <2>2. history' = history /\ historyIndex' \in 0..Len(history')
    BY <2>1, RecallTyped
  <2> QED
    BY <1>1, <1>2, <1>4, <2>1, <2>2 DEF TypeOK, Consistent, Writing, store
<1> QED
  BY <1>3, <1>4

(* A line is appended, or its write fails and leaves a part of it.         *)
LEMMA AppendKeeps == ASSUME IndInv, AppendLine PROVE IndInv'
<1> USE DEF IndInv
<1>1. /\ phase = "append" /\ phase \in Writing /\ ~loading /\ lastEntry \in Entry
      /\ disk \in Seq(Entry) /\ Torn \in Entry /\ torn \in BOOLEAN
  BY DEF AppendLine, TypeOK, Consistent, Writing, Entry
<1>2. CASE /\ Written /\ torn' = FALSE
           /\ disk' = (IF torn THEN [disk EXCEPT ![Len(disk)] =
                                    IF lastEntry.line \in Long THEN lastEntry ELSE Torn]
                            ELSE Append(disk, lastEntry))
  <2>1. disk' \in Seq(Entry)
    <3>1. CASE torn
      <4> DEFINE e == IF lastEntry.line \in Long THEN lastEntry ELSE Torn
      <4>1. disk # <<>> /\ e \in Entry
        BY <1>1, <3>1 DEF Consistent
      <4> HIDE DEF e
      <4>2. [disk EXCEPT ![Len(disk)] = e] \in Seq(Entry)
        BY <1>1, <4>1, ExceptSeq, EmptySeq, LenProperties
      <4> QED
        BY <1>2, <3>1, <4>2 DEF e
    <3>2. CASE ~torn
      BY <1>1, <1>2, <3>2
    <3> QED
      BY <3>1, <3>2
  <2>2. clean => disk' = entries
    BY <1>1, <1>2 DEF Consistent
  <2> QED
    BY <1>1, <1>2, <2>1, <2>2, WrittenKeeps
<1>3. CASE WriteFails /\ UNCHANGED file
  BY <1>1, <1>3, FailureKeeps DEF file, Consistent
<1>4. CASE WriteFails /\ ~torn /\ torn' = TRUE /\ disk' = Append(disk, Torn)
  <2>1. disk' \in Seq(Entry) /\ disk' # <<>>
    BY <1>1, <1>4
  <2>2. torn' \in BOOLEAN
    BY <1>4, Zenon
  <2> QED
    BY <1>1, <1>4, <2>1, <2>2, FailureKeeps
<1> QED
  BY <1>2, <1>3, <1>4 DEF AppendLine

(* A step of a rewrite that has not come to its end.                       *)
LEMMA StageKeeps ==
  ASSUME IndInv, phase \in {"rewrite", "remove"}, phase' \in {"remove", "rename"},
         disk' \in Seq(Entry), torn' \in BOOLEAN, torn' => torn /\ disk' = disk,
         UNCHANGED store, UNCHANGED <<screen, loading, ghosts, counts>>
  PROVE  IndInv'
<1> USE DEF IndInv
<1>1. phase \in Writing /\ on
  BY DEF Writing, Consistent
<1>2. TypeOK'
  BY DEF TypeOK, store, screen, ghosts, counts
<1>3. Consistent'
  BY <1>1 DEF Consistent, Writing, store, screen, ghosts, counts
<1> QED
  BY <1>2, <1>3

(* The three steps of a rewrite.                                           *)
LEMMA RewriteKeeps ==
  ASSUME IndInv, Temporary \/ RemoveOld \/ Rename
  PROVE  IndInv'
<1>1. /\ phase \in {"rewrite", "remove", "rename"} /\ phase \in Writing
      /\ disk \in Seq(Entry) /\ torn \in BOOLEAN /\ (torn => disk # <<>>)
      /\ entries \in Seq(Entry) /\ (clean => ~torn)
  BY DEF IndInv, Temporary, RemoveOld, Rename, TypeOK, Consistent, Writing
<1>2. CASE WriteFails /\ UNCHANGED file
  BY <1>1, <1>2, FailureKeeps DEF file
<1>3. CASE /\ phase = "rewrite" /\ phase' = "remove"
           /\ UNCHANGED <<file, store, screen, loading, ghosts, counts>>
  BY <1>1, <1>3, StageKeeps DEF file
<1>4. CASE /\ phase = "remove" /\ phase' = "rename" /\ disk' = <<>> /\ torn' = FALSE
           /\ UNCHANGED <<store, screen, loading, ghosts, counts>>
  <2>1. /\ phase = "remove" /\ phase' = "rename" /\ disk' = <<>> /\ torn' = FALSE
        /\ UNCHANGED store /\ UNCHANGED <<screen, loading, ghosts, counts>>
    BY <1>4
  <2>2. torn' \in BOOLEAN /\ disk' \in Seq(Entry)
    BY <2>1, EmptySeq
  <2> QED
    BY <2>1, <2>2, StageKeeps
<1>5. CASE Rename /\ Written /\ disk' = entries /\ torn' = FALSE
  BY <1>1, <1>5, WrittenKeeps
<1> QED
  BY <1>2, <1>3, <1>4, <1>5 DEF Temporary, RemoveOld, Rename

(* The keys Up and Down move the place in the list.                        *)
LEMMA KeysKeep == ASSUME IndInv, HistoryPrevious \/ HistoryNext PROVE IndInv'
<1> USE DEF IndInv
<1>1. /\ UNCHANGED <<file, store, history, phase, loading, ghosts, counts>>
      /\ historyIndex' \in 0..Len(history)
  BY LenProperties DEF HistoryPrevious, HistoryNext, TypeOK
<1> QED
  BY <1>1 DEF TypeOK, Consistent, Writing, file, store, ghosts, counts

LEMMA DownKeeps == ASSUME IndInv, Down PROVE IndInv'
<1> USE DEF IndInv
<1>1. /\ phase' = "down" /\ entries' = <<>> /\ lastEntry' = None /\ history' = <<>>
      /\ historyIndex' = 0 /\ stored' = None /\ ~on' /\ ~loading'
      /\ UNCHANGED <<file, limit, logged, counts>>
  BY DEF Down
<1>2. on' \in BOOLEAN /\ loading' \in BOOLEAN /\ clean' \in BOOLEAN
  BY Zenon DEF Down
<1>3. <<>> \in Seq(Entry) /\ Len(<<>>) = 0
  BY EmptySeq
<1>4. TypeOK'
  BY <1>1, <1>2, <1>3 DEF TypeOK, file, counts
<1>5. Consistent'
  BY <1>1 DEF Consistent, Writing, file
<1> QED
  BY <1>4, <1>5

LEMMA NextKeeps == ASSUME IndInv, [Next]_vars PROVE IndInv'
<1>1. CASE UNCHANGED vars
  BY <1>1 DEF IndInv, TypeOK, Consistent, Writing, vars, file, store, screen, ghosts, counts
<1>2. CASE Load
  BY <1>2, LoadKeeps
<1>3. CASE Enter
  BY <1>3, EnterKeeps
<1>4. CASE AppendLine
  BY <1>4, AppendKeeps
<1>5. CASE Temporary \/ RemoveOld \/ Rename
  BY <1>5, RewriteKeeps
<1>6. CASE HistoryPrevious \/ HistoryNext
  BY <1>6, KeysKeep
<1>7. CASE Down
  BY <1>7, DownKeeps
<1> QED
  BY <1>1, <1>2, <1>3, <1>4, <1>5, <1>6, <1>7 DEF Next

-----------------------------------------------------------------------------
(* Over all sessions and faults the parts stay consistent.                 *)
THEOREM Inductive == Spec => []IndInv
<1>1. Init => IndInv
  BY InitHolds
<1>2. IndInv /\ [Next]_vars => IndInv'
  BY NextKeeps
<1> QED
  BY <1>1, <1>2, PTL DEF Spec

(* What the store, the screen and the file hold are entries; between two   *)
(* commands the store is within its limit, and the place of the recall is  *)
(* always within the screen's list.                                        *)
THEOREM HistoryTypeCorrect == Spec => []TypeOK
<1>1. IndInv => TypeOK
  BY DEF IndInv
<1> QED
  BY <1>1, Inductive, PTL

(* Between two commands, memory has the newest of the lines taken, and so  *)
(* have the screen and the file as long as no write has failed.            *)
THEOREM RecallIsFaithful == Spec => []RecallMatches
<1>1. IndInv => RecallMatches
  BY DEF IndInv, Consistent, RecallMatches
<1> QED
  BY <1>1, Inductive, PTL
-----------------------------------------------------------------------------
(* From one session to the next: what the file has of the lines taken, at  *)
(* every step of a write that does not fail.                               *)
Found ==
  \/ Newest(disk, limit) = Newest(logged, limit)
  \/ /\ Len(logged) > 0
     /\ Newest(disk, limit) = Newest(SubSeq(logged, 1, Len(logged) - 1), limit)

Behind ==
  \E front \in Seq(Entry) : logged = Append(front, lastEntry) /\ disk = Newest(front, limit)

Follows ==
  clean =>
    /\ phase = "idle" /\ ~on => disk = logged
    /\ phase \in {"rewrite", "remove"} /\ loading => disk = logged
    /\ phase \in {"append", "rewrite", "remove"} /\ ~loading => Behind
    /\ phase = "down" => Found

(* A line taken is all that a sequence has beyond the one before.          *)
LEMMA FrontOfAppend ==
  ASSUME NEW S, NEW s \in Seq(S), NEW e \in S
  PROVE  LET t == Append(s, e) IN Len(t) > 0 /\ SubSeq(t, 1, Len(t) - 1) = s
<1> DEFINE t == Append(s, e)
           f == SubSeq(t, 1, Len(t) - 1)
<1>1. /\ t \in Seq(S) /\ Len(t) = Len(s) + 1 /\ Len(s) \in Nat
      /\ \A i \in 1..Len(s) : t[i] = s[i]
  BY LenProperties
<1> HIDE DEF t
<1>2. f \in Seq(S) /\ Len(f) = Len(s) /\ \A i \in 1..Len(s) : f[i] = t[i]
  <2>1. \A i \in 1..Len(s) : t[i] \in S
    BY <1>1, ElementOfSeq
  <2> QED
    BY <1>1, <2>1, SubSeqProperties
<1> HIDE DEF f
<1>3. f = s
  BY <1>1, <1>2, SeqEqual
<1> QED
  BY <1>1, <1>3 DEF f, t

(* A session that ends leaves what the file has, if no write was between   *)
(* the removal of the old file and the renaming.                           *)
LEMMA DownFollows == ASSUME IndInv, Follows, Down PROVE Follows'
<1>1. /\ phase' = "down" /\ phase # "down" /\ ~loading' /\ disk' = disk /\ limit' = limit
      /\ logged' = logged /\ (clean' => clean /\ phase # "rename")
  BY DEF Down, file
<1> SUFFICES ASSUME clean, phase # "rename" PROVE Found
  BY <1>1 DEF Follows, Found
<1>2. limit \in Nat \ {0} /\ logged \in Seq(Entry) /\ disk \in Seq(Entry)
  BY HistoryAssumption DEF IndInv, TypeOK
<1>3. phase \in {"idle", "append", "rewrite", "remove"} /\ loading \in BOOLEAN
  BY <1>1 DEF IndInv, TypeOK
<1>4. CASE phase = "idle" /\ on
  <2>1. disk = Newest(logged, limit) /\ Len(disk) <= limit
    BY <1>2, <1>4, NewestProperties DEF IndInv, Consistent
  <2> QED
    BY <1>2, <2>1, NewestProperties DEF Found
<1>5. CASE phase = "idle" /\ ~on
  BY <1>5 DEF Follows, Found
<1>6. CASE phase # "idle" /\ loading
  BY <1>3, <1>6 DEF Follows, Found, IndInv, Consistent
<1>7. CASE phase # "idle" /\ ~loading
  <2>1. PICK front \in Seq(Entry) : logged = Append(front, lastEntry) /\ disk = Newest(front, limit)
    BY <1>3, <1>7 DEF Follows, Behind
  <2>2. lastEntry \in Entry
    BY <1>3, <1>7 DEF IndInv, Consistent, Writing
  <2>3. Len(logged) > 0 /\ SubSeq(logged, 1, Len(logged) - 1) = front
    BY <2>1, <2>2, FrontOfAppend
  <2>4. Len(disk) <= limit
    BY <1>2, <2>1, NewestProperties
  <2>5. Newest(disk, limit) = disk
    BY <1>2, <2>4, NewestProperties
  <2> QED
    BY <2>1, <2>3, <2>5 DEF Found
<1> QED
  BY <1>3, <1>4, <1>5, <1>6, <1>7

LEMMA FollowsKept == ASSUME IndInv, Follows, [Next]_vars PROVE Follows'
<1>1. CASE UNCHANGED vars
  BY <1>1 DEF Follows, Behind, Found, vars, file, store, screen, ghosts, counts
<1>2. CASE Load
  <2>1. disk' = disk /\ logged' = disk /\ phase' \in {"idle", "rewrite"}
    BY <1>2 DEF Load, Begin, Disabled, file
  <2>2. phase' = "rewrite" => loading'
    BY <1>2 DEF Load, Begin, Disabled
  <2> QED
    BY <2>1, <2>2 DEF Follows
<1>3. CASE Enter
  <2>1. PICK l \in Lines, args \in Args :
          \/ on /\ Record([line |-> l, secret |-> CarriesSecret(args)], args)
          \/ ~on /\ UNCHANGED <<store, phase, logged>>
    BY <1>3 DEF Enter
  <2>2. disk' = disk /\ clean' = clean /\ loading' = loading /\ phase = "idle"
    BY <1>3 DEF Enter, file
  <2>3. CASE UNCHANGED <<store, phase, logged>>
    BY <2>2, <2>3 DEF Follows, store
  <2>4. CASE on /\ ~UNCHANGED <<store, phase, logged>>
    <3> DEFINE e == [line |-> l, secret |-> CarriesSecret(args)]
    <3>1. /\ logged' = Append(logged, e) /\ lastEntry' = e /\ limit' = limit
          /\ phase' \in {"append", "rewrite"}
      BY <2>1, <2>4 DEF Record
    <3>2. clean => disk = Newest(logged, limit)
      BY <2>2, <2>4 DEF IndInv, Consistent
    <3>3. logged \in Seq(Entry) /\ ~loading
      BY <2>2 DEF IndInv, TypeOK, Consistent, Writing
    <3>4. clean => Behind'
      BY <2>2, <3>1, <3>2, <3>3 DEF Behind
    <3> QED
      BY <2>2, <3>1, <3>3, <3>4 DEF Follows
  <2> QED
    BY <2>1, <2>3, <2>4
<1>4. CASE WriteFails
  BY <1>4 DEF WriteFails, Follows
<1>5. CASE (AppendLine \/ Rename) /\ Written
  <2>1. phase' = "idle" /\ on'
    BY <1>5 DEF AppendLine, Rename, Written, store, IndInv, Consistent, Writing
  <2> QED
    BY <2>1 DEF Follows
<1>6. CASE /\ phase = "rewrite" /\ phase' = "remove"
           /\ UNCHANGED <<file, store, screen, loading, ghosts, counts>>
  BY <1>6 DEF Follows, Behind, file, store, ghosts
<1>7. CASE RemoveOld /\ phase' = "rename"
  BY <1>7 DEF Follows
<1>8. CASE HistoryPrevious \/ HistoryNext
  BY <1>8 DEF HistoryPrevious, HistoryNext, Follows, Behind, Found, file, store, ghosts
<1>9. CASE Down
  BY <1>9, DownFollows
<1> QED
  BY <1>1, <1>2, <1>3, <1>4, <1>5, <1>6, <1>7, <1>8, <1>9
     DEF Next, AppendLine, Temporary, RemoveOld, Rename

(* The next session finds what the last one has taken, but for the line it *)
(* was just about to write when it died, unless a write has failed or the  *)
(* death came between the removal of the old file and the renaming.        *)
THEOREM NothingIsLost == Spec => NothingLost
<1>1. Init => Follows
  BY DEF Init, Follows, Found
<1>2. IndInv /\ Follows /\ [Next]_vars => Follows'
  BY FollowsKept
<1>3. Follows =>
        [Load /\ clean =>
           LET n == Len(logged) IN
           \/ Newest(disk, limit) = Newest(logged, limit)
           \/ n > 0 /\ Newest(disk, limit) = Newest(SubSeq(logged, 1, n - 1), limit)]_vars
  BY DEF Follows, Found, Load
<1> QED
  BY <1>1, <1>2, <1>3, Inductive, PTL DEF Spec, NothingLost

-----------------------------------------------------------------------------
(* Secrets.  hasSensitivePromptArgs goes over the arguments one after the  *)
(* other, so what it finds is a fact about a recursive function.           *)

(* Every set of naturals has a least member, and one that has 0 and the    *)
(* successor of each of its members has all: induction, about sets.        *)
LEMMA LeastMember ==
  ASSUME NEW S \in SUBSET Nat, S # {}
  PROVE  \E n \in S : \A m \in S : n <= m
<1> DEFINE R == OpToRel(<, Nat)
<1>1. IsWellFoundedOn(R, Nat)
  BY NatLessThanWellFounded
<1>2. \A x, y \in Nat : <<x, y>> \in R <=> x < y
  BY DEF OpToRel
<1> HIDE DEF R
<1>3. PICK n \in S : \A m \in S : ~ (<<m, n>> \in R)
  BY <1>1, WFMin
<1>4. \A m \in S : m \in Nat /\ n \in Nat /\ ~(m < n)
  BY <1>2, <1>3
<1>5. \A m \in S : n <= m
  BY <1>4
<1> QED
  BY <1>5

LEMMA Induction ==
  ASSUME NEW S \in SUBSET Nat, 0 \in S, \A n \in S : n + 1 \in S
  PROVE  S = Nat
<1> SUFFICES ASSUME Nat \ S # {} PROVE FALSE
  OBVIOUS
<1>1. PICK n \in Nat \ S : \A m \in Nat \ S : n <= m
  BY LeastMember
<1>2. n # 0 /\ n - 1 \in Nat
  BY <1>1
<1>3. n - 1 \in S
  BY <1>1, <1>2
<1> QED
  BY <1>1, <1>2, <1>3

(* What hasSensitivePromptArgs knows after each of the arguments.          *)
Knows(f, args) ==
  f = [i \in 0..Len(args) |-> IF i = 0 THEN "clear" ELSE Expects(f[i-1], args[i])]

(* There is such a function: it is built from the first argument on.       *)
LEMMA KnowsExists ==
  ASSUME NEW T, NEW args \in Seq(T)
  PROVE  \E f : Knows(f, args)
<1> DEFINE Up(n) == \E f : f = [i \in 0..n |-> IF i = 0 THEN "clear" ELSE Expects(f[i-1], args[i])]
           S == {n \in Nat : Up(n)}
<1>1. 0 \in S
  <2> DEFINE f == [i \in 0..0 |-> "clear"]
  <2>1. f = [i \in 0..0 |-> IF i = 0 THEN "clear" ELSE Expects(f[i-1], args[i])]
    OBVIOUS
  <2> HIDE DEF f
  <2> QED
    BY <2>1
<1>2. ASSUME NEW n \in S PROVE n + 1 \in S
  <2>1. n \in Nat /\ n + 1 \in Nat
    OBVIOUS
  <2>2. PICK f : f = [i \in 0..n |-> IF i = 0 THEN "clear" ELSE Expects(f[i-1], args[i])]
    OBVIOUS
  <2> DEFINE g == [i \in 0..(n + 1) |-> IF i = n + 1 THEN Expects(f[n], args[n + 1]) ELSE f[i]]
  <2>3. ASSUME NEW i \in 0..(n + 1)
        PROVE  g[i] = IF i = 0 THEN "clear" ELSE Expects(g[i-1], args[i])
    <3>1. CASE i = n + 1
      <4>1. g[i] = Expects(f[n], args[n + 1]) /\ g[n] = f[n] /\ i # 0 /\ i - 1 = n
        BY <2>1, <3>1
      <4> HIDE DEF g
      <4> QED
        BY <3>1, <4>1
    <3>2. CASE i # n + 1
      <4>1. i \in 0..n /\ g[i] = f[i] /\ (i # 0 => i - 1 \in 0..n /\ g[i - 1] = f[i - 1])
        BY <2>1, <3>2
      <4>2. f[i] = IF i = 0 THEN "clear" ELSE Expects(f[i-1], args[i])
        BY <2>2, <4>1
      <4> HIDE DEF g
      <4> QED
        BY <4>1, <4>2
    <3> QED
      BY <3>1, <3>2
  <2>4. g = [i \in 0..(n + 1) |-> IF i = 0 THEN "clear" ELSE Expects(g[i-1], args[i])]
    <3>1. g = [i \in 0..(n + 1) |-> g[i]]
      OBVIOUS
    <3> HIDE DEF g
    <3> QED
      BY <2>3, <3>1
  <2> HIDE DEF g
  <2> QED
    BY <2>1, <2>4
<1> HIDE DEF Up
<1>3. S = Nat
  <2>1. S \in SUBSET Nat
    OBVIOUS
  <2> HIDE DEF S
  <2> QED
    BY <1>1, <1>2, <2>1, Induction
<1>4. Up(Len(args))
  BY <1>3, LenProperties
<1> QED
  BY <1>4 DEF Up, Knows

(* What the scan of the arguments returns is what it knows in the end.     *)
LEMMA ScanKnows ==
  ASSUME NEW T, NEW args \in Seq(T)
  PROVE  \E f : Knows(f, args) /\ (HasSensitivePromptArgs(args) <=> f[Len(args)] = "found")
<1> DEFINE f == CHOOSE g : Knows(g, args)
<1>1. Knows(f, args)
  BY KnowsExists
<1>2. HasSensitivePromptArgs(args) <=> f[Len(args)] = "found"
  BY DEF HasSensitivePromptArgs, Knows
<1> HIDE DEF f
<1> QED
  BY <1>1, <1>2

(* Once found, always found.                                               *)
LEMMA FoundStays ==
  ASSUME NEW T, NEW args \in Seq(T), NEW f, Knows(f, args),
         NEW k \in 0..Len(args), f[k] = "found"
  PROVE  f[Len(args)] = "found"
<1> DEFINE S == {n \in Nat : k + n <= Len(args) => f[k + n] = "found"}
<1>1. Len(args) \in Nat /\ k \in Nat /\ k <= Len(args)
  BY LenProperties
<1>2. 0 \in S
  BY <1>1
<1>3. ASSUME NEW n \in S PROVE n + 1 \in S
  <2>1. n \in Nat /\ n + 1 \in Nat
    OBVIOUS
  <2>2. ASSUME k + (n + 1) <= Len(args) PROVE f[k + (n + 1)] = "found"
    <3>1. k + n <= Len(args) /\ k + (n + 1) \in 0..Len(args) /\ k + (n + 1) # 0
          /\ (k + (n + 1)) - 1 = k + n
      BY <1>1, <2>1, <2>2
    <3>2. f[k + n] = "found"
      BY <3>1
    <3>3. f[k + (n + 1)] = Expects(f[k + n], args[k + (n + 1)])
      <4> HIDE DEF S
      <4> QED
        BY <3>1 DEF Knows
    <3> QED
      BY <3>2, <3>3 DEF Expects
  <2> QED
    BY <2>1, <2>2
<1>4. S = Nat
  <2>1. S \in SUBSET Nat
    OBVIOUS
  <2> HIDE DEF S
  <2> QED
    BY <1>2, <1>3, <2>1, Induction
<1>5. Len(args) - k \in Nat /\ k + (Len(args) - k) = Len(args)
  BY <1>1
<1>6. Len(args) - k \in S
  <2> HIDE DEF S
  <2> QED
    BY <1>4, <1>5
<1> QED
  BY <1>1, <1>5, <1>6

(* A line that carries the value of a secret is one that is skipped.       *)
LEMMA SecretsAreSkipped ==
  ASSUME NEW T, NEW args \in Seq(T), CarriesSecret(args)
  PROVE  ShouldSkip(args)
<1>1. PICK f : Knows(f, args) /\ (HasSensitivePromptArgs(args) <=> f[Len(args)] = "found")
  BY ScanKnows
<1>2. PICK i \in 1..Len(args) :
        args[i] = "pass=" \/ (args[i] \in {"pass", "password"} /\ i < Len(args))
  BY DEF CarriesSecret
<1>3. Len(args) \in Nat /\ i \in Nat /\ i # 0 /\ i \in 0..Len(args)
  BY LenProperties
<1>4. f[i] = Expects(f[i - 1], args[i])
  BY <1>1, <1>3 DEF Knows
<1>5. CASE f[i] = "found"
  BY <1>1, <1>3, <1>5, FoundStays DEF ShouldSkip
<1>6. CASE f[i] # "found"
  <2>1. f[i] = "expects" /\ i < Len(args)
    BY <1>2, <1>4, <1>6 DEF Expects
  <2>2. i + 1 \in 0..Len(args) /\ i + 1 # 0 /\ (i + 1) - 1 = i
    BY <1>3, <2>1
  <2>3. f[i + 1] = Expects(f[i], args[i + 1])
    BY <1>1, <2>2 DEF Knows
  <2>4. f[i + 1] = "found"
    BY <2>1, <2>3 DEF Expects
  <2> QED
    BY <1>1, <2>2, <2>4, FoundStays DEF ShouldSkip
<1> QED
  BY <1>5, <1>6

(* Whatever a command is entered with is a sequence of arguments.          *)
LEMMA ArgsAreSeq == ASSUME NEW args \in Args PROVE args \in Seq(Arg \cup {"exit"})
<1> DEFINE T == Arg \cup {"exit"}
<1>1. CASE args = <<>>
  BY <1>1, EmptySeq
<1>2. CASE args = <<"exit">>
  BY <1>2
<1>3. CASE args \in UNION {{<<"word">> \o s : s \in [1..n -> Arg]} : n \in 0..(MaxArgs - 1)}
  <2>0. PICK n \in 0..(MaxArgs - 1) : args \in {<<"word">> \o s : s \in [1..n -> Arg]}
    BY <1>3
  <2>1. PICK s \in [1..n -> Arg] : args = <<"word">> \o s
    BY <2>0
  <2>2. n \in Nat /\ s \in [1..n -> T]
    BY HistoryAssumption
  <2>3. s \in Seq(T)
    BY <2>2, SeqDef
  <2>4. "word" \in T
    BY DEF Arg
  <2> HIDE DEF T
  <2>5. <<"word">> \in Seq(T)
    BY <2>4
  <2> QED
    BY <2>1, <2>3, <2>5, ConcatProperties DEF T
<1> QED
  BY <1>1, <1>2, <1>3 DEF Args

-----------------------------------------------------------------------------
(* The file, the store and the screen have only entries without secrets.   *)
Plain == {e \in Entry : ~e.secret}

Discreet ==
  /\ disk \in Seq(Plain) /\ entries \in Seq(Plain) /\ history \in Seq(Plain)
  /\ lastEntry \in Plain \cup {None}

LEMMA PlainTorn == Torn \in Plain /\ Plain \subseteq Entry
BY DEF Plain, Entry, Torn

(* A line that is not skipped has none.                                    *)
LEMMA TakenIsPlain ==
  ASSUME NEW l \in Lines, NEW args \in Args, ~ShouldSkip(args)
  PROVE  [line |-> l, secret |-> CarriesSecret(args)] \in Plain
<1>1. CarriesSecret(args) \in BOOLEAN
  BY Zenon DEF CarriesSecret
<1>2. ~CarriesSecret(args)
  BY ArgsAreSeq, SecretsAreSkipped
<1> QED
  BY <1>1, <1>2 DEF Plain, Entry

(* A line that is being written is there to be written.                    *)
LEMMA WritingPlain ==
  ASSUME IndInv, Discreet, phase \in Writing, ~loading
  PROVE  lastEntry \in Plain
<1>1. lastEntry \in Entry
  BY DEF IndInv, Consistent
<1>2. lastEntry = None => ~lastEntry.secret
  BY DEF None
<1> QED
  BY <1>1, <1>2 DEF Discreet, Plain

LEMMA DiscreetStep == ASSUME IndInv, Discreet, [Next]_vars PROVE Discreet'
<1> USE DEF Discreet
<1>0. /\ limit \in Nat \ {0} /\ <<>> \in Seq(Plain)
      /\ \A s \in Seq(Plain), n \in Nat \ {0} : Newest(s, n) \in Seq(Plain)
      /\ \A s \in Seq(Plain), e \in Plain : Append(s, e) \in Seq(Plain)
  BY HistoryAssumption, NewestProperties, EmptySeq DEF IndInv, TypeOK
<1>1. CASE UNCHANGED vars
  BY <1>1 DEF vars, file, store, screen
<1>2. CASE Load
  <2>1. limit' \in Nat \ {0} /\ disk' = disk
    BY <1>2, HistoryAssumption DEF Load, file
  <2>2. CASE Disabled
    BY <1>0, <2>1, <2>2 DEF Disabled
  <2>3. CASE Begin(disk)
    <3>1. entries' \in Seq(Plain)
      BY <1>0, <2>1, <2>3 DEF Begin
    <3>2. lastEntry' \in Plain \cup {None}
      BY <2>3, ElementOfSeq, LenProperties, EmptySeq DEF Begin, Last
    <3>3. history' \in Seq(Plain)
      BY <2>3, <3>1 DEF Begin, screen
    <3> QED
      BY <2>1, <3>1, <3>2, <3>3
  <2> QED
    BY <1>2, <2>2, <2>3 DEF Load
<1>3. CASE Enter
  <2>1. PICK l \in Lines, args \in Args :
          \/ on /\ Record([line |-> l, secret |-> CarriesSecret(args)], args)
          \/ ~on /\ Recall(None, FALSE) /\ stored' = None /\ UNCHANGED <<store, phase, logged>>
    BY <1>3 DEF Enter
  <2> DEFINE e == [line |-> l, secret |-> CarriesSecret(args)]
  <2>2. disk' = disk
    BY <1>3 DEF Enter, file
  <2>3. CASE UNCHANGED <<store, history>>
    BY <2>2, <2>3 DEF store
  <2>4. CASE ~UNCHANGED <<store, history>>
    <3>1. /\ ~ShouldSkip(args) /\ entries' = Newest(Append(entries, e), limit)
          /\ lastEntry' = e /\ history' = history
      BY <2>1, <2>4 DEF Record, Recall, screen
    <3>2. e \in Plain
      BY <3>1, TakenIsPlain
    <3> HIDE DEF e
    <3>3. entries' \in Seq(Plain)
      BY <1>0, <3>1, <3>2
    <3> QED
      BY <2>2, <3>1, <3>2, <3>3
  <2> QED
    BY <2>3, <2>4
<1>4. ASSUME Written, phase \in Writing, disk' \in Seq(Plain) PROVE Discreet'
  <2>1. entries' = entries /\ lastEntry' = lastEntry
    BY <1>4 DEF Written, store
  <2>2. CASE loading
    BY <1>4, <2>1, <2>2 DEF Written
  <2>3. CASE ~loading
    <3>1. lastEntry \in Plain
      BY <1>4, <2>3, WritingPlain
    <3>2. history' = Newest(Append(history, lastEntry), limit)
      BY <1>4, <2>3 DEF Written, Recall
    <3> QED
      BY <1>0, <1>4, <2>1, <3>1, <3>2
  <2> QED
    BY <2>2, <2>3
<1>5. ASSUME WriteFails, disk' \in Seq(Plain) PROVE Discreet'
  BY <1>0, <1>5 DEF WriteFails, Disabled, Recall, store
<1>6. CASE AppendLine
  <2>0. phase \in Writing /\ ~loading /\ (torn => disk # <<>>)
    BY <1>6 DEF AppendLine, IndInv, Consistent, Writing
  <2>1. lastEntry \in Plain /\ disk \in Seq(Plain) /\ (torn => disk # <<>>) /\ phase \in Writing
    BY <2>0, WritingPlain
  <2>2. CASE Written /\ disk' = (IF torn THEN [disk EXCEPT ![Len(disk)] =
                                    IF lastEntry.line \in Long THEN lastEntry ELSE Torn]
                            ELSE Append(disk, lastEntry))
    <3>1. CASE torn
      <4> DEFINE e == IF lastEntry.line \in Long THEN lastEntry ELSE Torn
      <4>1. e \in Plain /\ disk' = [disk EXCEPT ![Len(disk)] = e]
        BY <2>1, <2>2, <3>1, PlainTorn
      <4> HIDE DEF e
      <4>2. disk' \in Seq(Plain)
        BY <2>1, <3>1, <4>1, ExceptSeq, EmptySeq, LenProperties
      <4> QED
        BY <1>4, <2>1, <2>2, <4>2
    <3>2. CASE ~torn
      BY <1>0, <1>4, <2>1, <2>2, <3>2
    <3> QED
      BY <3>1, <3>2
  <2>3. CASE WriteFails /\ (UNCHANGED file \/ disk' = Append(disk, Torn))
    BY <1>0, <1>5, <2>1, <2>3, PlainTorn DEF file
  <2> QED
    BY <1>6, <2>2, <2>3 DEF AppendLine
<1>7. CASE Temporary \/ RemoveOld \/ Rename
  <2>1. CASE WriteFails /\ UNCHANGED file
    BY <1>5, <2>1 DEF file
  <2>2. CASE UNCHANGED <<store, screen>> /\ (UNCHANGED file \/ disk' = <<>>)
    BY <1>0, <2>2 DEF store, screen, file
  <2>3. CASE Rename /\ Written /\ disk' = entries
    BY <1>4, <2>3 DEF Rename, Writing
  <2> QED
    BY <1>7, <2>1, <2>2, <2>3 DEF Temporary, RemoveOld, Rename
<1>8. CASE HistoryPrevious \/ HistoryNext
  BY <1>8 DEF HistoryPrevious, HistoryNext, file, store
<1>9. CASE Down
  BY <1>0, <1>9 DEF Down, file
<1> QED
  BY <1>1, <1>2, <1>3, <1>6, <1>7, <1>8, <1>9 DEF Next

(* The value of a secret, given to a flag in whatever position of a line   *)
(* of whatever length, reaches neither the file nor what Up recalls.       *)
THEOREM SecretsStayOut == Spec => []NoSecrets
<1>1. Init => Discreet
  BY EmptySeq DEF Init, Discreet
<1>2. IndInv /\ Discreet /\ [Next]_vars => Discreet'
  BY DiscreetStep
<1>3. Discreet => NoSecrets
  <2>1. ASSUME NEW s \in Seq(Plain), NEW e \in Range(s) PROVE ~e.secret
    <3>1. PICK i \in 1..Len(s) : e = s[i]
      BY LenProperties DEF Range
    <3> QED
      BY <3>1, ElementOfSeq DEF Plain
  <2> QED
    BY <2>1 DEF Discreet, NoSecrets
<1> QED
  BY <1>1, <1>2, <1>3, Inductive, PTL DEF Spec

=============================================================================
