-------------------------- MODULE ProgressRowsProofs --------------------------
(***************************************************************************)
(* Proofs about ProgressRows, for any number of trackers, of goroutines    *)
(* that use one, and any room in the channel: the end of a row is the last *)
(* that is heard of it, and Wait returns when all that it waited for has   *)
(* its end on the way to the output, and the counters stay within the work.*)
(*                                                                         *)
(* Ledger follows each tracker through its mutex, Screen what has left it, *)
(* and Balance says what p.active counts.  What concerns EnablePS, Wait    *)
(* and Stop is apart, in Awaited: no step of a tracker depends on them.    *)
(* Tally, for the types, counts the signals that have been given.          *)
(***************************************************************************)
EXTENDS ProgressRows, FiniteSetTheorems, WellFoundedInduction, TLAPS

Holding == {"create", "update", "end"}

Typed ==
  /\ user \in [All -> [1..Users -> Uses]]
  /\ terminal \subseteq All
  /\ sink \in {"screen", "terminal"}
  /\ events \in Seq({"row", "end"} \X All) /\ transcript \in Seq(All)
  /\ live \in All \cup {None}
  /\ rows \in Seq(All)

(* Each sink has its own part of the state.                                *)
Screen ==
  /\ LastWord
  /\ sink = "screen" => live = None
  /\ sink = "terminal" => events = <<>> /\ rows = <<>>

(* One tracker: who holds its mutex, and that its end is emitted by the    *)
(* one that set terminal, who is then the only one to count it down.       *)
Tracker(t) ==
  /\ Made(t) => \A u \in 1..Users : user[t][u] \notin {"none", "create"}
  /\ ~Made(t) =>
       /\ t \notin terminal
       /\ \A u \in 1..Users : u # 1 => user[t][u] \in {"none", "left"}
  /\ \A u, v \in 1..Users :
       /\ user[t][u] \in Holding /\ user[t][v] \in Holding => u = v
       /\ user[t][u] \in {"end", "count"} /\ user[t][v] \in {"end", "count"} => u = v
  /\ \A u \in 1..Users :
       /\ user[t][u] = "end" => t \in terminal
       /\ user[t][u] = "count" => EndEmitted(t) /\ t # Ps
       /\ EndEmitted(t) => user[t][u] \notin Holding
  /\ EndEmitted(t) => t \in terminal
  /\ t \in terminal => EndEmitted(t) \/ \E u \in 1..Users : user[t][u] = "end"

(* Nobody else uses the tracker of EnablePS.                               *)
Status ==
  /\ \A u \in 1..Users : u # 1 => user[Ps][u] = "left"
  /\ user[Ps][1] = "left" => Ps \in terminal

Ledger == (\A t \in All : Tracker(t)) /\ Status

(* p.active: the rows that are made and not counted down.                  *)
IsOpen(t) ==
  /\ user[t][1] # "none"
  /\ ~(EndEmitted(t) /\ \A u \in 1..Users : user[t][u] # "count")
Open == {t \in Rows : IsOpen(t)}
Balance == active = Cardinality(Open)

Core == Typed /\ Screen /\ Ledger /\ Balance

(* Wait and Stop.                                                          *)
Awaited ==
  /\ before \subseteq {t \in Rows : Made(t)}
  /\ stopped => main \in {"join", "over"}
  /\ WaitedFor
  /\ main = "over" => StatusOver

IInv == Core /\ Awaited

-----------------------------------------------------------------------------
(* Sequences and what is in them.                                          *)

LEMMA InRange ==
  ASSUME NEW S, NEW q \in Seq(S), NEW x
  PROVE  x \in Range(q) <=> \E i \in 1..Len(q) : q[i] = x
  BY DEF Range

LEMMA OneMore ==
  ASSUME NEW S, NEW q \in Seq(S), NEW e \in S
  PROVE  /\ Append(q, e) \in Seq(S) /\ Len(Append(q, e)) = Len(q) + 1
         /\ \A i \in 1..Len(q) : Append(q, e)[i] = q[i]
         /\ Append(q, e)[Len(q) + 1] = e
         /\ Range(Append(q, e)) = Range(q) \cup {e}
         /\ IsInjective(q) /\ e \notin Range(q) => IsInjective(Append(q, e))
<1>. DEFINE r == Append(q, e)
<1>1. /\ r \in Seq(S) /\ Len(r) = Len(q) + 1 /\ Len(q) \in Nat
      /\ \A i \in 1..Len(q) : r[i] = q[i]
      /\ r[Len(q) + 1] = e
  OBVIOUS
<1>2. DOMAIN q = 1..Len(q) /\ DOMAIN r = 1..(Len(q) + 1)
  BY <1>1
<1>. HIDE DEF r
<1>3. Range(r) = Range(q) \cup {e}
  <2>1. ASSUME NEW i \in 1..(Len(q) + 1) PROVE r[i] \in Range(q) \cup {e}
    BY <1>1, <1>2 DEF Range
  <2>2. ASSUME NEW i \in 1..Len(q) PROVE q[i] \in Range(r)
    BY <1>1, <1>2 DEF Range
  <2>3. e \in Range(r)
    BY <1>1, <1>2 DEF Range
  <2>. QED
    BY <1>2, <2>1, <2>2, <2>3 DEF Range
<1>4. ASSUME IsInjective(q), e \notin Range(q) PROVE IsInjective(r)
  <2>1. \A i \in 1..Len(q) : r[i] # e
    BY <1>1, <1>2, <1>4 DEF Range
  <2>. QED
    BY <1>1, <1>2, <1>4, <2>1 DEF IsInjective
<1>. QED
  BY <1>1, <1>3, <1>4 DEF r

LEMMA OneLess ==
  ASSUME NEW S, NEW q \in Seq(S), q # <<>>
  PROVE  /\ Tail(q) \in Seq(S) /\ Len(Tail(q)) = Len(q) - 1 /\ Len(q) \in Nat \ {0}
         /\ \A i \in 1..Len(Tail(q)) : Tail(q)[i] = q[i + 1] /\ i + 1 \in 1..Len(q)
         /\ Head(q) = q[1] /\ Head(q) \in S
         /\ Range(q) = {Head(q)} \cup Range(Tail(q))
<1>. DEFINE r == Tail(q)
<1>1. /\ r \in Seq(S) /\ Len(r) = Len(q) - 1 /\ Len(q) \in Nat \ {0}
      /\ \A i \in 1..Len(r) : r[i] = q[i + 1] /\ i + 1 \in 1..Len(q)
      /\ Head(q) = q[1] /\ Head(q) \in S
  OBVIOUS
<1>2. DOMAIN q = 1..Len(q) /\ DOMAIN r = 1..(Len(q) - 1)
  BY <1>1
<1>. HIDE DEF r
<1>3. ASSUME NEW i \in 1..Len(q) PROVE q[i] \in {q[1]} \cup Range(r)
  <2>1. CASE i = 1
    BY <2>1
  <2>2. CASE i # 1
    <3>1. i - 1 \in 1..Len(r) /\ r[i - 1] = q[i]
      BY <1>1, <2>2
    <3>. QED
      BY <1>1, <1>2, <3>1 DEF Range
  <2>. QED
    BY <2>1, <2>2
<1>4. ASSUME NEW i \in 1..Len(r) PROVE r[i] \in Range(q)
  BY <1>1, <1>2 DEF Range
<1>5. q[1] \in Range(q)
  BY <1>1, <1>2 DEF Range
<1>6. Range(q) = {Head(q)} \cup Range(r)
  BY <1>1, <1>2, <1>3, <1>4, <1>5 DEF Range
<1>. QED
  BY <1>1, <1>6 DEF r

LEMMA LeastMember ==
  ASSUME NEW S \in SUBSET Nat, S # {}
  PROVE  Min(S) \in S /\ \A m \in S : Min(S) <= m
<1>. DEFINE R == OpToRel(<, Nat)
<1>1. IsWellFoundedOn(R, Nat)
  BY NatLessThanWellFounded
<1>2. \A x, y \in Nat : <<x, y>> \in R <=> x < y
  BY DEF OpToRel
<1>. HIDE DEF R
<1>3. PICK n \in S : \A m \in S : ~ (<<m, n>> \in R)
  BY <1>1, WFMin
<1>4. \A m \in S : n <= m
  <2>1. \A m \in S : m \in Nat /\ n \in Nat /\ ~(m < n)
    BY <1>2, <1>3
  <2>. QED
    BY <2>1
<1>. QED
  BY <1>4 DEF Min

LEMMA Concatenated ==
  ASSUME NEW S, NEW a \in Seq(S), NEW b \in Seq(S)
  PROVE  /\ a \o b \in Seq(S) /\ Len(a \o b) = Len(a) + Len(b)
         /\ \A i \in 1..(Len(a) + Len(b)) :
              (a \o b)[i] = IF i <= Len(a) THEN a[i] ELSE b[i - Len(a)]
  OBVIOUS

(* A sequence without its first x: removeActiveRowID.                      *)
LEMMA OneRemoved ==
  ASSUME NEW S, NEW q \in Seq(S), NEW x, IsInjective(q)
  PROVE  /\ RemoveFirst(q, x) \in Seq(S) /\ IsInjective(RemoveFirst(q, x))
         /\ Range(RemoveFirst(q, x)) = Range(q) \ {x}
<1>1. CASE ~ \E i \in 1..Len(q) : q[i] = x
  BY <1>1, InRange DEF RemoveFirst
<1>2. CASE \E i \in 1..Len(q) : q[i] = x
  <2>. DEFINE I == {i \in 1..Len(q) : q[i] = x}
              k == Min(I)
              r == SubSeq(q, 1, k - 1) \o SubSeq(q, k + 1, Len(q))
  <2>1. k \in 1..Len(q) /\ q[k] = x
    <3>1. I \in SUBSET Nat /\ I # {}
      BY <1>2
    <3>2. k \in I
      BY <3>1, LeastMember
    <3>. QED
      BY <3>2
  <2>2. RemoveFirst(q, x) = r
    BY <1>2 DEF RemoveFirst, RemoveAt, SelectInSeq
  <2>. HIDE DEF I, k
  <2>3. /\ r \in Seq(S) /\ Len(r) = Len(q) - 1 /\ Len(q) \in Nat
        /\ \A i \in 1..Len(r) : r[i] = q[IF i < k THEN i ELSE i + 1]
    <3>. DEFINE a == SubSeq(q, 1, k - 1)
                b == SubSeq(q, k + 1, Len(q))
    <3>1. /\ a \in Seq(S) /\ Len(a) = k - 1 /\ k \in Nat /\ Len(q) \in Nat
          /\ \A i \in 1..(k - 1) : a[i] = q[i]
      BY <2>1
    <3>2. /\ b \in Seq(S) /\ Len(b) = Len(q) - k
          /\ \A i \in 1..(Len(q) - k) : b[i] = q[i + k]
      BY <2>1
    <3>. HIDE DEF a, b
    <3>3. /\ a \o b \in Seq(S) /\ Len(a \o b) = Len(q) - 1
          /\ \A i \in 1..(Len(q) - 1) : (a \o b)[i] = IF i < k THEN a[i] ELSE b[i - (k - 1)]
      <4>1. /\ a \o b \in Seq(S) /\ Len(a \o b) = Len(a) + Len(b)
            /\ \A i \in 1..(Len(a) + Len(b)) :
                 (a \o b)[i] = IF i <= Len(a) THEN a[i] ELSE b[i - Len(a)]
        BY ONLY <3>1, <3>2, Concatenated
      <4>2. Len(a) + Len(b) = Len(q) - 1
        BY <2>1, <3>1, <3>2
      <4>3. ASSUME NEW i \in 1..(Len(q) - 1) PROVE i <= Len(a) <=> i < k
        BY <2>1, <3>1
      <4>. QED
        BY <3>1, <4>1, <4>2, <4>3
    <3>4. ASSUME NEW i \in 1..(Len(q) - 1)
          PROVE  (a \o b)[i] = q[IF i < k THEN i ELSE i + 1]
      <4>1. CASE i < k
        BY <2>1, <3>1, <3>3, <4>1
      <4>2. CASE ~(i < k)
        <5>1. i - (k - 1) \in 1..(Len(q) - k) /\ (i - (k - 1)) + k = i + 1
          BY <2>1, <3>1, <4>2
        <5>. QED
          BY <3>2, <3>3, <4>2, <5>1
      <4>. QED
        BY <4>1, <4>2
    <3>. QED
      BY <3>1, <3>3, <3>4 DEF a, b
  <2>. HIDE DEF r
  <2>4. DOMAIN q = 1..Len(q) /\ DOMAIN r = 1..Len(r)
    BY <2>3
  <2>5. IsInjective(r)
    BY <2>1, <2>3, <2>4 DEF IsInjective
  <2>6. ASSUME NEW i \in 1..Len(r) PROVE r[i] \in Range(q) /\ r[i] # x
    BY <2>1, <2>3, <2>4 DEF IsInjective, Range
  <2>7. ASSUME NEW i \in 1..Len(q), q[i] # x PROVE q[i] \in Range(r)
    <3>1. CASE i < k
      BY <2>1, <2>3, <2>4, <3>1 DEF Range
    <3>2. CASE i > k
      <4>1. i - 1 \in 1..Len(r) /\ r[i - 1] = q[i]
        BY <2>1, <2>3, <3>2
      <4>. QED
        BY <2>4, <4>1 DEF Range
    <3>. QED
      BY <2>1, <2>7, <3>1, <3>2
  <2>8. Range(r) = Range(q) \ {x}
    BY <2>3, <2>4, <2>6, <2>7 DEF Range
  <2>. QED
    BY <2>2, <2>3, <2>5, <2>8
<1>. QED
  BY <1>1, <1>2

-----------------------------------------------------------------------------
(* What an emission does to what has been heard of the rows.               *)

LEMMA Queued ==
  ASSUME Typed, Screen, NEW k \in {"row", "end"}, NEW t \in All, ~EndEmitted(t),
         sink = "screen", events' = Append(events, <<k, t>>), UNCHANGED <<shown, sink>>
  PROVE  /\ events' \in Seq({"row", "end"} \X All)
         /\ Range(events') = Range(events) \cup {<<k, t>>}
         /\ Screen'
<1>. DEFINE e == <<k, t>>
<1>0. e \in {"row", "end"} \X All /\ e[1] = k /\ e[2] = t
      /\ events' = Append(events, e)
  OBVIOUS
<1>1. /\ Len(events') = Len(events) + 1 /\ Len(events) \in Nat
      /\ \A i \in 1..Len(events) : events'[i] = events[i]
      /\ events'[Len(events) + 1] = e
      /\ events' \in Seq({"row", "end"} \X All)
      /\ Range(events') = Range(events) \cup {e}
  <2>. HIDE DEF e
  <2>1. events \in Seq({"row", "end"} \X All) /\ Len(events) \in Nat
    BY DEF Typed
  <2>2. /\ Append(events, e) \in Seq({"row", "end"} \X All)
        /\ Len(Append(events, e)) = Len(events) + 1
        /\ \A i \in 1..Len(events) : Append(events, e)[i] = events[i]
        /\ Append(events, e)[Len(events) + 1] = e
        /\ Range(Append(events, e)) = Range(events) \cup {e}
    BY ONLY <1>0, <2>1, OneMore
  <2>. QED
    BY <1>0, <2>1, <2>2
<1>2. ASSUME NEW i \in 1..Len(events), events[i][1] = "end" PROVE events[i][2] # t
  <2>1. events[i] = <<"end", events[i][2]>> /\ events[i] \in Range(events)
    BY <1>2, InRange DEF Typed
  <2>. QED
    BY <2>1 DEF EndEmitted
<1>3. LastWord'
  <2>1. \A i, j \in 1..Len(events') :
          i < j /\ events'[i][1] = "end" => events'[j][2] # events'[i][2]
    <3>. HIDE DEF e
    <3>1. ASSUME NEW i \in 1..Len(events'), NEW j \in 1..Len(events'), i < j,
                 events'[i][1] = "end"
          PROVE  events'[j][2] # events'[i][2]
      <4>1. i \in 1..Len(events) /\ events'[i] = events[i]
        BY <1>1, <3>1
      <4>2. CASE j = Len(events) + 1
        BY <1>0, <1>1, <1>2, <3>1, <4>1, <4>2
      <4>3. CASE j # Len(events) + 1
        <5>1. j \in 1..Len(events) /\ events'[j] = events[j]
          BY <1>1, <4>3
        <5>. QED
          BY <3>1, <4>1, <5>1 DEF Screen, LastWord
      <4>. QED
        BY <4>2, <4>3
    <3>. QED
      BY <3>1
  <2>2. \A i \in 1..Len(events') : events'[i][2] \notin Range(transcript)
    BY <1>1 DEF Screen, LastWord, EndEmitted
  <2>. QED
    BY <2>1, <2>2 DEF LastWord, Screen, shown
<1>. QED
  BY <1>1, <1>3 DEF Screen, shown

LEMMA RowEmitted ==
  ASSUME Typed, Screen, NEW t \in All, ~EndEmitted(t), Emit("row", t), UNCHANGED sink
  PROVE  /\ events' \in Seq({"row", "end"} \X All) /\ transcript' \in Seq(All)
         /\ live' \in All \cup {None} /\ rows' \in Seq(All)
         /\ Screen'
         /\ \A s \in All : EndEmitted(s)' <=> EndEmitted(s)
<1>1. CASE sink = "screen" /\ events' = Append(events, <<"row", t>>) /\ UNCHANGED shown
  <2>1. /\ events' \in Seq({"row", "end"} \X All)
        /\ Range(events') = Range(events) \cup {<<"row", t>>}
        /\ Screen'
    BY <1>1, Queued
  <2>. QED
    BY <1>1, <2>1 DEF Typed, EndEmitted, shown
<1>2. CASE sink = "terminal" /\ ShowLive(t) /\ UNCHANGED events
  BY <1>2 DEF ShowLive, Screen, Typed, EndEmitted, LastWord
<1>. QED
  BY <1>1, <1>2 DEF Emit

LEMMA EndShown ==
  ASSUME Typed, Screen, NEW t \in All, ~EndEmitted(t), Emit("end", t), UNCHANGED sink
  PROVE  /\ events' \in Seq({"row", "end"} \X All) /\ transcript' \in Seq(All)
         /\ live' \in All \cup {None} /\ rows' \in Seq(All)
         /\ Screen'
         /\ \A s \in All : EndEmitted(s)' <=> (EndEmitted(s) \/ s = t)
<1>1. CASE sink = "screen" /\ events' = Append(events, <<"end", t>>) /\ UNCHANGED shown
  <2>1. /\ events' \in Seq({"row", "end"} \X All)
        /\ Range(events') = Range(events) \cup {<<"end", t>>}
        /\ Screen'
    BY <1>1, Queued
  <2>. QED
    BY <1>1, <2>1 DEF Typed, EndEmitted, shown
<1>2. CASE sink = "terminal" /\ ShowEnded(t) /\ UNCHANGED events
  <2>1. /\ transcript' \in Seq(All)
        /\ Range(transcript') = Range(transcript) \cup {t}
        /\ IsInjective(transcript')
    BY <1>2, OneMore DEF Typed, ShowEnded, Screen, LastWord, EndEmitted
  <2>2. events = <<>> /\ Len(events) = 0 /\ IsInjective(rows) /\ Range(rows) = {}
    BY <1>2 DEF Screen, LastWord, Range
  <2>3. live' \notin Range(transcript')
    <3>1. None \notin Range(transcript')
      BY <2>1, InRange, RowsAssumption DEF All
    <3>. QED
      BY <1>2, <2>1, <3>1 DEF ShowEnded, Screen, LastWord
  <2>4. LastWord'
    BY <1>2, <2>1, <2>2, <2>3 DEF LastWord, ShowEnded
  <2>. QED
    BY <1>2, <2>1, <2>2, <2>4 DEF Screen, Typed, EndEmitted, ShowEnded
<1>. QED
  BY <1>1, <1>2 DEF Emit

(* The screen takes an event: nothing that was heard is forgotten.         *)
LEMMA Applied ==
  ASSUME Typed, Screen, Apply
  PROVE  /\ events' \in Seq({"row", "end"} \X All) /\ transcript' \in Seq(All)
         /\ rows' \in Seq(All)
         /\ Screen'
         /\ \A s \in All : EndEmitted(s)' <=> EndEmitted(s)
<1>. DEFINE kind == Head(events)[1]
            t == Head(events)[2]
<1>1. /\ events[1] = <<kind, t>> /\ kind \in {"row", "end"} /\ t \in All
      /\ Len(events') = Len(events) - 1 /\ Len(events) \in Nat \ {0}
      /\ \A i \in 1..Len(events') : events'[i] = events[i + 1] /\ i + 1 \in 1..Len(events)
      /\ events' \in Seq({"row", "end"} \X All)
      /\ Range(events) = {<<kind, t>>} \cup Range(events')
  <2>1. events \in Seq({"row", "end"} \X All) /\ events # <<>> /\ events' = Tail(events)
    BY DEF Apply, Typed
  <2>2. /\ Len(events') = Len(events) - 1 /\ Len(events) \in Nat \ {0}
        /\ \A i \in 1..Len(events') : events'[i] = events[i + 1] /\ i + 1 \in 1..Len(events)
        /\ events' \in Seq({"row", "end"} \X All)
        /\ Head(events) = events[1] /\ Head(events) \in {"row", "end"} \X All
        /\ Range(events) = {Head(events)} \cup Range(events')
    BY ONLY <2>1, OneLess
  <2>3. Head(events) = <<kind, t>> /\ kind \in {"row", "end"} /\ t \in All
    BY <2>2
  <2>. QED
    BY <2>2, <2>3
<1>2. sink = "screen" /\ live = None /\ UNCHANGED <<sink, live>>
  BY <1>1 DEF Apply, Screen, Typed
<1>3. ASSUME NEW i \in 1..Len(events'), NEW j \in 1..Len(events'), i < j,
             events'[i][1] = "end"
      PROVE  events'[j][2] # events'[i][2]
  <2>1. /\ i + 1 \in 1..Len(events) /\ events'[i] = events[i + 1]
        /\ j + 1 \in 1..Len(events) /\ events'[j] = events[j + 1] /\ i + 1 < j + 1
    BY <1>1, <1>3
  <2>. QED
    BY <1>3, <2>1 DEF Screen, LastWord
<1>4. ASSUME kind = "end", NEW i \in 1..Len(events') PROVE events'[i][2] # t
  <2>1. /\ 1 \in 1..Len(events) /\ i + 1 \in 1..Len(events) /\ 1 < i + 1
        /\ events[1][1] = "end" /\ events[1][2] = t /\ events'[i] = events[i + 1]
    BY <1>1, <1>4
  <2>. QED
    BY <2>1 DEF Screen, LastWord
<1>5. ASSUME NEW i \in 1..Len(events') PROVE events'[i][2] \notin Range(transcript)
  <2>1. i + 1 \in 1..Len(events) /\ events'[i] = events[i + 1]
    BY <1>1
  <2>. QED
    BY <2>1 DEF Screen, LastWord
<1>6. CASE /\ UNCHANGED transcript /\ (kind = "row" \/ t \in Range(transcript))
           /\ \/ rows' = rows
              \/ t \notin Range(transcript) \cup Range(rows) /\ rows' = Append(rows, t)
  <2>1. /\ rows' \in Seq(All) /\ IsInjective(rows')
        /\ Range(rows') \cap Range(transcript) = {}
    <3>1. /\ t \in All /\ rows \in Seq(All) /\ IsInjective(rows)
          /\ Range(rows) \cap Range(transcript) = {}
      BY <1>1 DEF Typed, Screen, LastWord
    <3>. HIDE DEF t
    <3>2. CASE rows' = rows
      BY <1>6, <3>1, <3>2
    <3>3. CASE t \notin Range(transcript) \cup Range(rows) /\ rows' = Append(rows, t)
      <4>1. /\ Append(rows, t) \in Seq(All) /\ IsInjective(Append(rows, t))
            /\ Range(Append(rows, t)) = Range(rows) \cup {t}
        BY ONLY <3>1, <3>3, OneMore
      <4>. QED
        BY <1>6, <3>1, <3>3, <4>1
    <3>. QED
      BY <1>6, <3>2, <3>3
  <2>2. LastWord'
    BY <1>2, <1>3, <1>5, <1>6, <2>1 DEF Screen, LastWord
  <2>. QED
    BY <1>1, <1>2, <1>6, <2>1, <2>2 DEF Screen, EndEmitted, Typed
<1>7. CASE /\ t \notin Range(transcript) /\ kind = "end" /\ transcript' = Append(transcript, t)
           /\ rows' = RemoveFirst(rows, t)
  <2>1. /\ transcript' \in Seq(All)
        /\ Range(transcript') = Range(transcript) \cup {t}
        /\ IsInjective(transcript')
    BY <1>1, <1>7, OneMore DEF Typed, Screen, LastWord
  <2>2. None \notin Range(transcript')
    BY <2>1, InRange, RowsAssumption DEF All
  <2>3. /\ rows' \in Seq(All) /\ IsInjective(rows')
        /\ Range(rows') \cap Range(transcript') = {}
    BY <1>7, <2>1, OneRemoved DEF Typed, Screen, LastWord
  <2>4. LastWord'
    BY <1>2, <1>3, <1>4, <1>5, <1>7, <2>1, <2>2, <2>3 DEF LastWord
  <2>. QED
    BY <1>1, <1>2, <1>7, <2>1, <2>3, <2>4 DEF Screen, EndEmitted
<1>. QED
  <2>1. \/ t \in Range(transcript) /\ UNCHANGED <<rows, transcript>>
        \/ /\ t \notin Range(transcript) /\ kind = "end"
           /\ rows' = RemoveFirst(rows, t) /\ transcript' = Append(transcript, t)
        \/ /\ t \notin Range(transcript) /\ kind = "row"
           /\ rows' = (IF t \in Range(rows) THEN rows ELSE Append(rows, t))
           /\ UNCHANGED transcript
    BY DEF Apply
  <2>. QED
    BY <1>6, <1>7, <2>1

-----------------------------------------------------------------------------
(* The steps of the trackers.  Each keeps Core, and whatever was made or   *)
(* has ended stays so.                                                     *)
Onward ==
  /\ Core'
  /\ \A s \in All : (EndEmitted(s) => EndEmitted(s)') /\ (Made(s) => Made(s)')

(* A step that changes one tracker does not concern the others.            *)
Alone(t) ==
  \A s \in All \ {t} : /\ user'[s] = user[s]
                       /\ s \in terminal' <=> s \in terminal
                       /\ EndEmitted(s)' <=> EndEmitted(s)

LEMMA Others ==
  ASSUME Core, NEW t \in All, Alone(t), Tracker(t)', Status'
  PROVE  Ledger'
<1>1. ASSUME NEW s \in All, s # t PROVE Tracker(s)'
  <2>1. /\ Tracker(s) /\ user'[s] = user[s]
        /\ s \in terminal' <=> s \in terminal
        /\ EndEmitted(s)' <=> EndEmitted(s)
    BY <1>1 DEF Core, Ledger, Alone
  <2>. QED
    BY <2>1 DEF Tracker, Made
<1>. QED
  BY <1>1 DEF Ledger

LEMMA Quiet ==
  ASSUME Core, UNCHANGED <<events, shown, sink>>
  PROVE  /\ Screen' /\ \A s \in All : EndEmitted(s)' <=> EndEmitted(s)
         /\ events' \in Seq({"row", "end"} \X All) /\ transcript' \in Seq(All)
         /\ live' \in All \cup {None} /\ rows' \in Seq(All) /\ sink' \in {"screen", "terminal"}
  BY DEF Core, Typed, Screen, LastWord, EndEmitted, shown

(* What the mutex gives: a step of u on t.                                 *)
LEMMA UserTyped ==
  ASSUME Typed, NEW t \in All, NEW u \in 1..Users, NEW x \in Uses,
         user' = [user EXCEPT ![t][u] = x]
  PROVE  /\ user' \in [All -> [1..Users -> Uses]]
         /\ user'[t][u] = x
         /\ \A v \in 1..Users : v # u => user'[t][v] = user[t][v]
         /\ \A s \in All \ {t} : user'[s] = user[s]
  BY DEF Typed

LEMMA OneIsUser == 1 \in 1..Users /\ Users \in Nat \ {0}
  BY RowsAssumption

(* p.active.                                                               *)
LEMMA OpenFinite == IsFiniteSet(Open) /\ Cardinality(Open) \in Nat
  BY RowsAssumption, FS_Subset, FS_CardinalityType DEF Open

LEMMA SameBalance ==
  ASSUME Core, UNCHANGED active, \A s \in Rows : IsOpen(s)' <=> IsOpen(s)
  PROVE  Balance'
<1>1. Open' = Open
  BY DEF Open
<1>. QED
  BY <1>1 DEF Core, Balance

LEMMA SameOpen ==
  ASSUME NEW t \in All, Alone(t)
  PROVE  \A s \in Rows \ {t} : IsOpen(s)' <=> IsOpen(s)
  BY DEF Alone, IsOpen, All

LEMMA NewTrackerGoes ==
  ASSUME Core, NEW t \in All, NewTracker(t)
  PROVE  Onward
<1>1. /\ user[t][1] = "none" /\ user' = [user EXCEPT ![t][1] = "create"]
      /\ UNCHANGED <<sink, terminal, events, shown>>
  BY DEF NewTracker, Use
<1>2. /\ user' \in [All -> [1..Users -> Uses]] /\ user'[t][1] = "create"
      /\ \A v \in 1..Users : v # 1 => user'[t][v] = user[t][v]
      /\ \A s \in All \ {t} : user'[s] = user[s]
  BY <1>1, UserTyped, OneIsUser DEF Core, Uses
<1>3. Typed' /\ Screen' /\ \A s \in All : EndEmitted(s)' <=> EndEmitted(s)
  BY <1>1, <1>2, Quiet DEF Core, Typed
<1>4. Alone(t)
  BY <1>1, <1>2, <1>3 DEF Alone
<1>5. Tracker(t) /\ ~Made(t) /\ ~Made(t)'
  BY <1>1, <1>2 DEF Core, Ledger, Made
<1>6. Tracker(t)'
  BY <1>1, <1>2, <1>3, <1>5, OneIsUser DEF Tracker, Holding
<1>7. Status'
  BY <1>1, <1>2, OneIsUser DEF Core, Ledger, Status, All
<1>8. ~IsOpen(t) /\ IsOpen(t)'
  BY <1>1, <1>2, <1>3, <1>5 DEF IsOpen, Tracker
<1>9. Balance'
  <2>1. CASE t \in Rows
    <3>1. Open' = Open \cup {t} /\ t \notin Open
      BY <1>4, <1>8, <2>1, SameOpen DEF Open
    <3>2. active' = active + 1
      BY <2>1, RowsAssumption DEF NewTracker, Counted
    <3>. QED
      BY <3>1, <3>2, OpenFinite, FS_AddElement DEF Core, Balance
  <2>2. CASE t = Ps
    BY <1>4, <2>2, SameOpen, SameBalance, RowsAssumption DEF NewTracker, Counted
  <2>. QED
    BY <2>1, <2>2 DEF All
<1>. QED
  BY <1>2, <1>3, <1>4, <1>5, <1>6, <1>7, <1>9, Others DEF Onward, Core, Made

LEMMA CreateGoes ==
  ASSUME Core, NEW t \in All, Create(t)
  PROVE  Onward
<1>1. /\ user[t][1] = "create"
      /\ user' = [user EXCEPT ![t] = [u \in 1..Users |-> IF @[u] = "left" THEN "left" ELSE "idle"]]
      /\ UNCHANGED <<sink, terminal, active>> /\ Emit("row", t)
  BY DEF Create, progress
<1>2. /\ user' \in [All -> [1..Users -> Uses]] /\ user'[t][1] = "idle"
      /\ \A v \in 1..Users : user'[t][v] \in {"left", "idle"}
      /\ \A v \in 1..Users : user[t][v] = "left" => user'[t][v] = "left"
      /\ \A s \in All \ {t} : user'[s] = user[s]
  BY <1>1, OneIsUser DEF Core, Typed, Uses
<1>3. Tracker(t) /\ ~Made(t) /\ Made(t)'
  BY <1>1, <1>2 DEF Core, Ledger, Made
<1>4. ~EndEmitted(t) /\ t \notin terminal
  BY <1>3 DEF Tracker
<1>5. Typed' /\ Screen' /\ \A s \in All : EndEmitted(s)' <=> EndEmitted(s)
  BY <1>1, <1>2, <1>4, RowEmitted DEF Core, Typed
<1>6. Alone(t)
  BY <1>1, <1>2, <1>5 DEF Alone
<1>7. Tracker(t)'
  BY <1>1, <1>2, <1>3, <1>4, <1>5 DEF Tracker, Holding
<1>8. Status'
  <2>1. Status /\ Ps \in All
    BY DEF Core, Ledger, All
  <2>2. CASE t = Ps
    BY <1>2, <2>1, <2>2 DEF Status
  <2>3. CASE t # Ps
    <3>1. user'[Ps] = user[Ps]
      BY <1>2, <2>1, <2>3
    <3>. QED
      BY <1>1, <2>1, <3>1 DEF Status
  <2>. QED
    BY <2>2, <2>3
<1>9. IsOpen(t) /\ IsOpen(t)'
  BY <1>1, <1>2, <1>4, <1>5 DEF IsOpen
<1>10. Balance'
  BY <1>1, <1>6, <1>9, SameOpen, SameBalance
<1>. QED
  BY <1>2, <1>3, <1>5, <1>6, <1>7, <1>8, <1>10, Others DEF Onward, Core, Made

LEMMA UpdateGoes ==
  ASSUME Core, NEW t \in All, NEW u \in 1..Users, Update(t, u)
  PROVE  Onward
<1>1. /\ user[t][u] = "idle" /\ user' = [user EXCEPT ![t][u] = "update"]
      /\ UNCHANGED <<sink, terminal, events, shown, active>>
      /\ ~Held(t) /\ t \notin terminal
  BY DEF Update, Use, MayUpdate, progress
<1>2. /\ user' \in [All -> [1..Users -> Uses]] /\ user'[t][u] = "update"
      /\ \A v \in 1..Users : v # u => user'[t][v] = user[t][v]
      /\ \A s \in All \ {t} : user'[s] = user[s]
  BY <1>1, UserTyped DEF Core, Uses
<1>3. Typed' /\ Screen' /\ \A s \in All : EndEmitted(s)' <=> EndEmitted(s)
  BY <1>1, <1>2, Quiet DEF Core, Typed
<1>4. Alone(t)
  BY <1>1, <1>2, <1>3 DEF Alone
<1>5. Tracker(t) /\ Made(t) /\ Made(t)'
  BY <1>1, <1>2, OneIsUser DEF Core, Ledger, Tracker, Made
<1>6. Tracker(t)'
  BY <1>1, <1>2, <1>3, <1>5 DEF Tracker, Holding, Held
<1>7. Status'
  BY <1>1, <1>2, OneIsUser DEF Core, Ledger, Status, All
<1>8. IsOpen(t)' <=> IsOpen(t)
  BY <1>1, <1>2, <1>3, <1>5 DEF IsOpen, Tracker, Made
<1>9. Balance'
  BY <1>1, <1>4, <1>8, SameOpen, SameBalance
<1>. QED
  BY <1>2, <1>3, <1>4, <1>5, <1>6, <1>7, <1>9, Others DEF Onward, Core, Made

LEMMA UpdatedGoes ==
  ASSUME Core, NEW t \in All, NEW u \in 1..Users, Updated(t, u)
  PROVE  Onward
<1>1. /\ user[t][u] = "update" /\ user' = [user EXCEPT ![t][u] = "idle"]
      /\ UNCHANGED <<sink, terminal, active>> /\ Emit("row", t)
  BY DEF Updated, Use, progress
<1>2. /\ user' \in [All -> [1..Users -> Uses]] /\ user'[t][u] = "idle"
      /\ \A v \in 1..Users : v # u => user'[t][v] = user[t][v]
      /\ \A s \in All \ {t} : user'[s] = user[s]
  BY <1>1, UserTyped DEF Core, Uses
<1>3. Tracker(t) /\ Made(t) /\ Made(t)' /\ ~EndEmitted(t)
  BY <1>1, <1>2, OneIsUser DEF Core, Ledger, Tracker, Made, Holding
<1>4. Typed' /\ Screen' /\ \A s \in All : EndEmitted(s)' <=> EndEmitted(s)
  BY <1>1, <1>2, <1>3, RowEmitted DEF Core, Typed
<1>5. Alone(t)
  BY <1>1, <1>2, <1>4 DEF Alone
<1>6. Tracker(t)'
  BY <1>1, <1>2, <1>3, <1>4 DEF Tracker, Holding
<1>7. Status'
  BY <1>1, <1>2, OneIsUser DEF Core, Ledger, Status, All
<1>8. IsOpen(t)' <=> IsOpen(t)
  BY <1>1, <1>2, <1>3, <1>4 DEF IsOpen, Made
<1>9. Balance'
  BY <1>1, <1>5, <1>8, SameOpen, SameBalance
<1>. QED
  BY <1>2, <1>3, <1>4, <1>5, <1>6, <1>7, <1>9, Others DEF Onward, Core, Made

LEMMA FinishGoes ==
  ASSUME Core, NEW t \in All, NEW u \in 1..Users, Finish(t, u)
  PROVE  Onward
<1>. DEFINE x == IF t \in terminal THEN "left" ELSE "end"
<1>1. /\ user[t][u] = "idle" /\ user' = [user EXCEPT ![t][u] = x] /\ x \in Uses
      /\ UNCHANGED <<sink, events, shown, active>> /\ terminal' = terminal \cup {t}
      /\ ~Held(t)
  BY DEF Finish, Use, EndsOnce, progress, Uses
<1>2. /\ user' \in [All -> [1..Users -> Uses]] /\ user'[t][u] = x
      /\ \A v \in 1..Users : v # u => user'[t][v] = user[t][v]
      /\ \A s \in All \ {t} : user'[s] = user[s]
  <2>. HIDE DEF x
  <2>1. Typed
    BY DEF Core
  <2>. QED
    BY <1>1, <2>1, UserTyped
<1>3. Typed' /\ Screen' /\ \A s \in All : EndEmitted(s)' <=> EndEmitted(s)
  BY <1>1, <1>2, Quiet DEF Core, Typed
<1>4. Alone(t)
  BY <1>1, <1>2, <1>3 DEF Alone
<1>5. Tracker(t) /\ Made(t) /\ Made(t)'
  BY <1>1, <1>2, OneIsUser DEF Core, Ledger, Tracker, Made
<1>6. Tracker(t)'
  <2>1. CASE t \in terminal
    BY <1>1, <1>2, <1>3, <1>5, <2>1 DEF Tracker, Holding, Held
  <2>2. CASE t \notin terminal
    <3>1. ~EndEmitted(t) /\ \A v \in 1..Users : user[t][v] \notin Holding \cup {"count"}
      BY <1>1, <1>5, <2>2 DEF Tracker, Holding, Held
    <3>. QED
      BY <1>1, <1>2, <1>3, <1>5, <2>2, <3>1 DEF Tracker, Holding
  <2>. QED
    BY <2>1, <2>2
<1>7. Status'
  BY <1>1, <1>2, OneIsUser DEF Core, Ledger, Status, All
<1>8. IsOpen(t)' <=> IsOpen(t)
  BY <1>1, <1>2, <1>3, <1>5 DEF IsOpen, Made
<1>9. Balance'
  BY <1>1, <1>4, <1>8, SameOpen, SameBalance
<1>. QED
  BY <1>2, <1>3, <1>4, <1>5, <1>6, <1>7, <1>9, Others DEF Onward, Core, Made

LEMMA FinishedGoes ==
  ASSUME Core, NEW t \in All, NEW u \in 1..Users, Finished(t, u)
  PROVE  Onward
<1>. DEFINE x == IF t # Ps THEN "count" ELSE "left"
<1>1. /\ user[t][u] = "end" /\ user' = [user EXCEPT ![t][u] = x] /\ x \in Uses
      /\ UNCHANGED <<sink, terminal, active>> /\ Emit("end", t)
  BY DEF Finished, Use, Counted, progress, Uses
<1>2. /\ user' \in [All -> [1..Users -> Uses]] /\ user'[t][u] = x
      /\ \A v \in 1..Users : v # u => user'[t][v] = user[t][v]
      /\ \A s \in All \ {t} : user'[s] = user[s]
  <2>. HIDE DEF x
  <2>1. Typed
    BY DEF Core
  <2>. QED
    BY <1>1, <2>1, UserTyped
<1>3. Tracker(t) /\ Made(t) /\ Made(t)' /\ ~EndEmitted(t) /\ t \in terminal
  BY <1>1, <1>2, OneIsUser DEF Core, Ledger, Tracker, Made, Holding
<1>4. Typed' /\ Screen' /\ \A s \in All : EndEmitted(s)' <=> (EndEmitted(s) \/ s = t)
  BY <1>1, <1>2, <1>3, EndShown DEF Core, Typed
<1>5. Alone(t)
  BY <1>1, <1>2, <1>4 DEF Alone
<1>6. Tracker(t)'
  BY <1>1, <1>2, <1>3, <1>4 DEF Tracker, Holding
<1>7. Status'
  BY <1>1, <1>2, <1>3, OneIsUser DEF Core, Ledger, Status, All
<1>8. t \in Rows => IsOpen(t)' /\ IsOpen(t)
  <2>1. t \in Rows => x = "count"
    BY RowsAssumption
  <2>. QED
    BY <1>1, <1>2, <1>3, <1>4, <2>1 DEF IsOpen, Made
<1>9. Balance'
  BY <1>1, <1>5, <1>8, SameOpen, SameBalance
<1>. QED
  BY <1>2, <1>3, <1>4, <1>5, <1>6, <1>7, <1>9, Others DEF Onward, Core, Made

LEMMA TrackerDoneGoes ==
  ASSUME Core, NEW t \in All, NEW u \in 1..Users, TrackerDone(t, u)
  PROVE  Onward
<1>1. /\ user[t][u] = "count" /\ user' = [user EXCEPT ![t][u] = "left"]
      /\ UNCHANGED <<sink, terminal, events, shown>>
      /\ active' = IF active > 0 THEN active - 1 ELSE active
  BY DEF TrackerDone, Use
<1>2. /\ user' \in [All -> [1..Users -> Uses]] /\ user'[t][u] = "left"
      /\ \A v \in 1..Users : v # u => user'[t][v] = user[t][v]
      /\ \A s \in All \ {t} : user'[s] = user[s]
  <2>1. "left" \in Uses /\ Typed
    BY DEF Uses, Core
  <2>. QED
    BY <1>1, <2>1, UserTyped
<1>3. Typed' /\ Screen' /\ \A s \in All : EndEmitted(s)' <=> EndEmitted(s)
  BY <1>1, <1>2, Quiet DEF Core, Typed
<1>4. Alone(t)
  BY <1>1, <1>2, <1>3 DEF Alone
<1>5. Tracker(t) /\ Made(t) /\ Made(t)' /\ EndEmitted(t) /\ t # Ps
  BY <1>1, <1>2, OneIsUser DEF Core, Ledger, Tracker, Made
<1>6. Tracker(t)'
  BY <1>1, <1>2, <1>3, <1>5 DEF Tracker, Holding
<1>7. Status'
  BY <1>1, <1>2, <1>5, OneIsUser DEF Core, Ledger, Status, All
<1>8. t \in Rows /\ IsOpen(t) /\ ~IsOpen(t)'
  BY <1>1, <1>2, <1>3, <1>5 DEF IsOpen, Made, Tracker, All
<1>9. Balance'
  <2>1. Open' = Open \ {t} /\ t \in Open
    BY <1>4, <1>8, SameOpen DEF Open
  <2>2. Cardinality(Open') = Cardinality(Open) - 1 /\ Cardinality(Open') \in Nat
    BY <2>1, OpenFinite, FS_RemoveElement, FS_CardinalityType
  <2>. QED
    BY <1>1, <2>2, OpenFinite DEF Core, Balance
<1>. QED
  BY <1>2, <1>3, <1>4, <1>5, <1>6, <1>7, <1>9, Others DEF Onward, Core, Made

LEMMA LeaveGoes ==
  ASSUME Core, NEW t \in Rows, NEW u \in 1..Users, Leave(t, u)
  PROVE  Onward
<1>1. /\ u # 1 /\ user[t][u] = "idle" /\ user' = [user EXCEPT ![t][u] = "left"]
      /\ UNCHANGED <<sink, terminal, events, shown, active>> /\ t \in All /\ t # Ps
  BY RowsAssumption DEF Leave, Use, progress, All
<1>2. /\ user' \in [All -> [1..Users -> Uses]] /\ user'[t][u] = "left"
      /\ \A v \in 1..Users : v # u => user'[t][v] = user[t][v]
      /\ \A s \in All \ {t} : user'[s] = user[s]
  <2>1. "left" \in Uses /\ Typed
    BY DEF Uses, Core
  <2>. QED
    BY <1>1, <2>1, UserTyped
<1>3. Typed' /\ Screen' /\ \A s \in All : EndEmitted(s)' <=> EndEmitted(s)
  BY <1>1, <1>2, Quiet DEF Core, Typed
<1>4. Alone(t)
  BY <1>1, <1>2, <1>3 DEF Alone
<1>5. Tracker(t) /\ Made(t) /\ user'[t][1] = user[t][1]
  BY <1>1, <1>2, OneIsUser DEF Core, Ledger, Tracker, Made
<1>6. Tracker(t)'
  BY <1>1, <1>2, <1>3, <1>5 DEF Tracker, Holding, Made
<1>7. Status'
  BY <1>1, <1>2, OneIsUser DEF Core, Ledger, Status, All
<1>8. IsOpen(t)' <=> IsOpen(t)
  BY <1>1, <1>2, <1>3, <1>5 DEF IsOpen, Made
<1>9. Balance'
  BY <1>1, <1>4, <1>8, SameOpen, SameBalance
<1>. QED
  BY <1>1, <1>2, <1>3, <1>4, <1>5, <1>6, <1>7, <1>9, Others DEF Onward, Core, Made

LEMMA StillGoes ==
  ASSUME Core, UNCHANGED <<user, terminal, active>>, Typed', Screen',
         \A s \in All : EndEmitted(s)' <=> EndEmitted(s)
  PROVE  Onward
<1>1. ASSUME NEW s \in All PROVE Tracker(s)' /\ (IsOpen(s)' <=> IsOpen(s))
  BY DEF Core, Ledger, Tracker, Made, IsOpen
<1>2. Ledger'
  BY <1>1 DEF Core, Ledger, Status
<1>3. Balance'
  BY <1>1, SameBalance DEF All
<1>. QED
  BY <1>2, <1>3 DEF Onward, Core, Made

LEMMA ApplyGoes == ASSUME Core, Apply PROVE Onward
<1>1. Typed' /\ Screen' /\ \A s \in All : EndEmitted(s)' <=> EndEmitted(s)
  BY Applied DEF Core, Typed, Apply
<1>. QED
  BY <1>1, StillGoes DEF Apply, progress

LEMMA AnimateGoes == ASSUME Core, NEW t \in All, Animate(t) PROVE Onward
<1>1. Typed' /\ Screen' /\ \A s \in All : EndEmitted(s)' <=> EndEmitted(s)
  BY DEF Core, Typed, Screen, LastWord, EndEmitted, Animate
<1>. QED
  BY <1>1, StillGoes DEF Animate, progress

LEMMA QuietGoes ==
  ASSUME Core, UNCHANGED <<user, terminal, active, events, shown, sink>>
  PROVE  Onward
<1>1. Typed' /\ Screen' /\ \A s \in All : EndEmitted(s)' <=> EndEmitted(s)
  BY Quiet DEF Core, Typed
<1>. QED
  BY <1>1, StillGoes

-----------------------------------------------------------------------------
(* Wait and Stop.                                                          *)

(* A step in which they do not move.                                       *)
Apart ==
  /\ UNCHANGED <<main, before, stopped>>
  /\ ctxDone => ctxDone'
  /\ StatusOver => StatusOver'

LEMMA StatusEnded ==
  ASSUME Core', StatusOver', user'[Ps][1] # "none"
  PROVE  EndEmitted(Ps)'
<1>1. Tracker(Ps)' /\ Status' /\ user'[Ps][1] = "left"
  BY DEF Core, Ledger, All, StatusOver
<1>2. \A u \in 1..Users : user'[Ps][u] = "left"
  BY <1>1 DEF Status
<1>. QED
  BY <1>1, <1>2 DEF Status, Tracker

LEMMA ApartKeeps ==
  ASSUME Core, Awaited, Onward, Apart
  PROVE  Awaited'
<1>1. before' \subseteq {t \in Rows : Made(t)'}
  BY DEF Awaited, Onward, Apart, All
<1>2. WaitedFor'
  BY <1>1, StatusEnded DEF Awaited, Onward, Apart, WaitedFor, All
<1>. QED
  BY <1>1, <1>2 DEF Awaited, Apart

(* What the users of a tracker do is apart, since they do not come back to *)
(* one that they have left.                                                *)
LEMMA UserStep ==
  ASSUME Core, NEW t \in All, NEW u \in 1..Users,
         user[t][u] \notin {"none", "left"} \/ t # Ps, NEW x,
         user' = [user EXCEPT ![t][u] = x]
  PROVE  StatusOver => StatusOver'
  BY OneIsUser DEF StatusOver, Core, Typed, All

LEMMA WorkSteps ==
  ASSUME Core, NEW t \in Rows, Work(t)
  PROVE  Onward /\ Apart
<1>0. t \in All /\ t # Ps /\ Ps \in All
  BY RowsAssumption DEF All
<1>1. CASE NewTracker(t) /\ UNCHANGED main
  BY <1>0, <1>1, NewTrackerGoes, UserStep, OneIsUser DEF NewTracker, Use, Apart
<1>2. CASE Create(t) /\ UNCHANGED main
  BY <1>0, <1>2, CreateGoes DEF Create, Apart, StatusOver, Core, Typed, progress
<1>3. ASSUME NEW u \in 1..Users, Update(t, u) PROVE Onward /\ Apart
  BY <1>0, <1>3, UpdateGoes, UserStep DEF Update, Use, Apart, progress
<1>4. ASSUME NEW u \in 1..Users, Finish(t, u) PROVE Onward /\ Apart
  BY <1>0, <1>4, FinishGoes, UserStep DEF Finish, Use, Apart, progress
<1>5. ASSUME NEW u \in 1..Users, Leave(t, u) PROVE Onward /\ Apart
  BY <1>0, <1>5, LeaveGoes, UserStep DEF Leave, Use, Apart, progress
<1>. QED
  BY <1>1, <1>2, <1>3, <1>4, <1>5 DEF Work

LEMMA EmissionSteps ==
  ASSUME Core, Emissions
  PROVE  Onward /\ Apart
<1>1. ASSUME NEW t \in All, NEW u \in 1..Users, Updated(t, u) PROVE Onward /\ Apart
  BY <1>1, UpdatedGoes, UserStep DEF Updated, Use, Apart, progress
<1>2. ASSUME NEW t \in All, NEW u \in 1..Users, Finished(t, u) PROVE Onward /\ Apart
  BY <1>2, FinishedGoes, UserStep DEF Finished, Use, Apart, progress
<1>3. ASSUME NEW t \in All, NEW u \in 1..Users, TrackerDone(t, u) PROVE Onward /\ Apart
  BY <1>3, TrackerDoneGoes, UserStep DEF TrackerDone, Use, Apart, progress
<1>. QED
  BY <1>1, <1>2, <1>3 DEF Emissions

LEMMA StatusSteps ==
  ASSUME Core, Update(Ps, 1) \/ StatusEnds
  PROVE  Onward /\ Apart
<1>0. Ps \in All /\ 1 \in 1..Users
  BY OneIsUser DEF All
<1>1. CASE Update(Ps, 1)
  BY <1>0, <1>1, UpdateGoes, UserStep DEF Update, Use, Apart, progress
<1>2. CASE Finish(Ps, 1)
  BY <1>0, <1>2, FinishGoes, UserStep DEF Finish, Use, Apart, progress
<1>. QED
  BY <1>1, <1>2 DEF StatusEnds

LEMMA OtherSteps ==
  ASSUME Core, Cancel \/ Apply \/ (\E t \in All : Animate(t)) \/ UNCHANGED vars
  PROVE  Onward /\ Apart
<1>1. CASE Cancel
  BY <1>1, QuietGoes DEF Cancel, Apart, StatusOver, progress
<1>2. CASE Apply
  BY <1>2, ApplyGoes DEF Apply, Apart, StatusOver, progress
<1>3. ASSUME NEW t \in All, Animate(t) PROVE Onward /\ Apart
  BY <1>3, AnimateGoes DEF Animate, Apart, StatusOver, progress
<1>4. CASE UNCHANGED vars
  BY <1>4, QuietGoes DEF vars, Apart, StatusOver, progress
<1>. QED
  BY <1>1, <1>2, <1>3, <1>4

(* Wait ends without an interruption only when nothing is left to count.   *)
LEMMA NothingOpen ==
  ASSUME Core, Awaited, active = 0
  PROVE  \A t \in before : EndEmitted(t)
<1>1. Open = {}
  BY OpenFinite, FS_EmptySet DEF Core, Balance
<1>. QED
  BY <1>1 DEF Open, IsOpen, Awaited, Made

LEMMA MainSteps ==
  ASSUME Core, Awaited, MainMoves \/ WaitAndStop
  PROVE  Onward /\ Awaited'
<1>0. Ps \in All
  BY DEF All
<1>1. CASE EnablePS
  <2>1. Onward
    BY <1>0, <1>1, NewTrackerGoes DEF EnablePS
  <2>2. main' = "enabling" /\ UNCHANGED <<before, stopped>> /\ main = "enable"
    BY <1>1 DEF EnablePS, NewTracker, Use
  <2>. QED
    BY <2>1, <2>2 DEF Awaited, WaitedFor, Onward, All
<1>2. CASE PSEnabled
  <2>1. Onward
    BY <1>0, <1>2, CreateGoes DEF PSEnabled
  <2>2. main' = "work" /\ UNCHANGED <<before, stopped>> /\ main = "enabling"
    BY <1>2 DEF PSEnabled, Create, progress
  <2>. QED
    BY <2>1, <2>2 DEF Awaited, WaitedFor, Onward, All
<1>3. CASE NoPS
  BY <1>3, QuietGoes DEF NoPS, Main, progress, Awaited, WaitedFor, Onward, All
<1>4. CASE WaitAndStop
  BY <1>4, QuietGoes DEF WaitAndStop, Main, progress, Awaited, WaitedFor, Onward, All
<1>5. CASE Look
  <2>1. Onward
    BY <1>5, QuietGoes DEF Look, Main, progress
  <2>2. CASE main' = "stop"
    BY <1>5, <2>1, <2>2, NothingOpen
       DEF Look, Main, progress, Awaited, WaitedFor, Onward, All
  <2>3. CASE main' = "wait"
    BY <1>5, <2>1, <2>3 DEF Look, Main, progress, Awaited, WaitedFor, Onward, All
  <2>. QED
    BY <1>5, <2>2, <2>3 DEF Look, Main
<1>6. CASE Wake
  BY <1>6, QuietGoes DEF Wake, Main, progress, Awaited, WaitedFor, Onward, All
<1>7. CASE Stop
  BY <1>7, QuietGoes DEF Stop, Main, progress, Awaited, WaitedFor, Onward, All
<1>8. CASE Joined
  <2>1. Onward /\ StatusOver'
    BY <1>8, QuietGoes DEF Joined, Main, progress, StatusOver
  <2>. QED
    BY <1>8, <2>1, StatusEnded
       DEF Joined, Main, progress, Awaited, WaitedFor, Onward, All
<1>. QED
  BY <1>1, <1>2, <1>3, <1>4, <1>5, <1>6, <1>7, <1>8 DEF MainMoves

-----------------------------------------------------------------------------
LEMMA InitHolds == Init => IInv
<1>. SUFFICES ASSUME Init PROVE IInv
  OBVIOUS
<1>1. Typed
  BY RowsAssumption DEF Init, Typed, Uses
<1>2. \A s : ~EndEmitted(s)
  BY DEF Init, EndEmitted, Range
<1>3. Screen
  BY RowsAssumption DEF Init, Screen, LastWord, Range, IsInjective
<1>4. \A t \in All : ~Made(t) /\ \A u \in 1..Users : user[t][u] \in {"none", "left"}
  BY OneIsUser DEF Init, Made
<1>5. Ledger
  <2>1. \A t \in All : Tracker(t)
    BY <1>2, <1>4 DEF Tracker, Holding, Init
  <2>2. Status
    BY OneIsUser, RowsAssumption DEF Status, Init, All
  <2>. QED
    BY <2>1, <2>2 DEF Ledger
<1>6. Balance
  <2>1. Open = {}
    BY OneIsUser DEF Open, IsOpen, Init, All
  <2>. QED
    BY <2>1, FS_EmptySet DEF Balance, Init
<1>7. Awaited
  BY DEF Init, Awaited, WaitedFor
<1>. QED
  BY <1>1, <1>3, <1>5, <1>6, <1>7 DEF IInv, Core

LEMMA StepHolds == IInv /\ [Next]_vars => IInv'
<1>. SUFFICES ASSUME IInv, [Next]_vars PROVE IInv'
  OBVIOUS
<1>. USE DEF IInv
<1>1. ASSUME NEW t \in Rows, Work(t) PROVE IInv'
  BY <1>1, WorkSteps, ApartKeeps DEF Onward
<1>2. CASE Emissions
  BY <1>2, EmissionSteps, ApartKeeps DEF Onward
<1>3. CASE Update(Ps, 1) \/ StatusEnds
  BY <1>3, StatusSteps, ApartKeeps DEF Onward
<1>4. CASE MainMoves \/ WaitAndStop
  BY <1>4, MainSteps DEF Onward
<1>5. CASE Cancel \/ Apply \/ (\E t \in All : Animate(t)) \/ UNCHANGED vars
  BY <1>5, OtherSteps, ApartKeeps DEF Onward
<1>. QED
  BY <1>1, <1>2, <1>3, <1>4, <1>5 DEF Next

LEMMA Invariant == Spec => []IInv
  BY InitHolds, StepHolds, PTL DEF Spec

(* The end of a row is its last word, however many goroutines update and   *)
(* end it: Increment, UpdateMessage, Done and Fail of one tracker emit     *)
(* under its mutex, and none emits after the one that set terminal.        *)
THEOREM EndsLast == Spec => []LastWord
<1>1. IInv => LastWord
  BY DEF IInv, Core, Screen
<1>. QED
  BY <1>1, Invariant, PTL

(* tuiProgress.Wait, when nothing interrupts it, returns when all rows     *)
(* there were have their ends on the way to the output, and after Stop the *)
(* row of EnablePS has: p.active is the number of rows that are made and   *)
(* not counted down, whoever counts.                                       *)
THEOREM WaitIsEnough == Spec => []WaitedFor
<1>1. IInv => WaitedFor
  BY DEF IInv, Awaited
<1>. QED
  BY <1>1, Invariant, PTL

-----------------------------------------------------------------------------
(* What is left of the types: p.changed is closed once for each row that   *)
(* is counted down, and once by Stop, and the rest keeps its bounds.       *)
Passed(t) == EndEmitted(t) /\ \A u \in 1..Users : user[t][u] # "count"

Tally == changed = Cardinality({t \in Rows : Passed(t)}) + (IF stopped THEN 1 ELSE 0)

Flags ==
  /\ ctxDone \in BOOLEAN /\ stopped \in BOOLEAN
  /\ main \in {"enable", "enabling", "work", "look", "wait", "stop", "join", "over"}
  /\ seen \in Nat /\ updates \in 0..MaxUpdates

Room == Len(events) <= Capacity /\ animators \subseteq All

Bounds == Tally /\ Flags /\ Room

LEMMA PassedFinite ==
  LET P == {t \in Rows : Passed(t)}
  IN  IsFiniteSet(P) /\ Cardinality(P) \in Nat /\ Cardinality(P) <= Cardinality(Rows)
  BY RowsAssumption, FS_Subset, FS_CardinalityType

LEMMA SameTally ==
  ASSUME Tally, UNCHANGED <<changed, stopped>>, \A s \in Rows : Passed(s)' <=> Passed(s)
  PROVE  Tally'
<1>1. {t \in Rows : Passed(t)}' = {t \in Rows : Passed(t)}
  OBVIOUS
<1>. QED
  BY <1>1 DEF Tally

(* A user that neither begins nor ends to count.                           *)
LEMMA UserPasses ==
  ASSUME Typed, NEW t \in All, NEW u \in 1..Users, NEW x \in Uses,
         user' = [user EXCEPT ![t][u] = x], user[t][u] # "count", x # "count",
         \A s \in All : EndEmitted(s)' <=> EndEmitted(s)
  PROVE  \A s \in Rows : Passed(s)' <=> Passed(s)
<1>1. /\ user'[t][u] = x
      /\ \A v \in 1..Users : v # u => user'[t][v] = user[t][v]
      /\ \A s \in All \ {t} : user'[s] = user[s]
  BY UserTyped
<1>. QED
  BY <1>1 DEF Passed, All

LEMMA StillTally ==
  ASSUME Bounds, UNCHANGED <<changed, stopped, user>>,
         \A s \in All : EndEmitted(s)' <=> EndEmitted(s)
  PROVE  Tally'
<1>1. \A s \in Rows : Passed(s)' <=> Passed(s)
  BY DEF Passed, All
<1>. QED
  BY <1>1, SameTally DEF Bounds

LEMMA EmitRoom ==
  ASSUME Typed, Room, NEW k \in {"row", "end"}, NEW t \in All, Emit(k, t)
  PROVE  Room'
<1>1. CASE /\ Len(events) < Capacity /\ events' = Append(events, <<k, t>>)
           /\ UNCHANGED shown
  <2>1. events \in Seq({"row", "end"} \X All) /\ <<k, t>> \in {"row", "end"} \X All
    BY DEF Typed
  <2>2. Len(events') = Len(events) + 1 /\ Len(events) \in Nat
    BY <1>1, <2>1
  <2>. QED
    BY <1>1, <2>2, RowsAssumption DEF Room, shown
<1>2. CASE UNCHANGED events /\ (ShowLive(t) \/ ShowEnded(t))
  BY <1>2 DEF ShowLive, ShowEnded, Room
<1>. QED
  BY <1>1, <1>2 DEF Emit

LEMMA NewTrackerBounds ==
  ASSUME Core, Bounds, NEW t \in All, NewTracker(t)
  PROVE  Tally' /\ Room'
<1>1. \A s \in All : EndEmitted(s)' <=> EndEmitted(s)
  BY Quiet DEF NewTracker, Use
<1>2. \A s \in Rows : Passed(s)' <=> Passed(s)
  BY <1>1, UserPasses, OneIsUser DEF NewTracker, Use, Core, Uses
<1>. QED
  BY <1>2, SameTally DEF NewTracker, Bounds, Room, shown

LEMMA CreateBounds ==
  ASSUME Core, Bounds, NEW t \in All, Create(t)
  PROVE  Tally' /\ Room'
<1>1. /\ user[t][1] = "create"
      /\ user' = [user EXCEPT ![t] = [u \in 1..Users |-> IF @[u] = "left" THEN "left" ELSE "idle"]]
      /\ UNCHANGED <<sink, changed, stopped>> /\ Emit("row", t)
  BY DEF Create, progress
<1>2. /\ \A v \in 1..Users : user'[t][v] \in {"left", "idle"}
      /\ \A s \in All \ {t} : user'[s] = user[s]
  BY <1>1 DEF Core, Typed
<1>3. ~EndEmitted(t)
  BY <1>1 DEF Core, Ledger, Tracker, Made
<1>4. \A s \in All : EndEmitted(s)' <=> EndEmitted(s)
  BY <1>1, <1>3, RowEmitted DEF Core
<1>5. \A s \in Rows : Passed(s)' <=> Passed(s)
  BY <1>2, <1>3, <1>4 DEF Passed, All
<1>. QED
  BY <1>1, <1>5, SameTally, EmitRoom DEF Core, Bounds

(* The uses of a tracker that emit nothing.                                *)
LEMMA UseBounds ==
  ASSUME Core, Bounds, NEW t \in All, NEW u \in 1..Users,
         Update(t, u) \/ Finish(t, u) \/ Leave(t, u)
  PROVE  Tally' /\ Room'
<1>1. /\ UNCHANGED <<sink, events, shown, changed, stopped>>
      /\ user[t][u] = "idle"
      /\ \E to \in {"update", "end", "left"} : user' = [user EXCEPT ![t][u] = to]
  <2>1. CASE Update(t, u)
    BY <2>1 DEF Update, Use, progress
  <2>2. CASE Leave(t, u)
    BY <2>2 DEF Leave, Use, progress
  <2>3. CASE Finish(t, u)
    BY <2>3 DEF Finish, Use, progress
  <2>. QED
    BY <2>1, <2>2, <2>3
<1>2. PICK to \in {"update", "end", "left"} : user' = [user EXCEPT ![t][u] = to]
  BY <1>1
<1>3. \A s \in All : EndEmitted(s)' <=> EndEmitted(s)
  BY <1>1, Quiet
<1>4. \A s \in Rows : Passed(s)' <=> Passed(s)
  <2>1. to \in Uses /\ to # "count"
    BY DEF Uses
  <2>. QED
    BY <1>1, <1>2, <1>3, <2>1, UserPasses DEF Core
<1>. QED
  BY <1>1, <1>4, SameTally DEF Bounds, Room, shown

LEMMA UpdatedBounds ==
  ASSUME Core, Bounds, NEW t \in All, NEW u \in 1..Users, Updated(t, u)
  PROVE  Tally' /\ Room'
<1>1. /\ user[t][u] = "update" /\ user' = [user EXCEPT ![t][u] = "idle"]
      /\ UNCHANGED <<sink, changed, stopped>> /\ Emit("row", t)
  BY DEF Updated, Use, progress
<1>2. ~EndEmitted(t)
  BY <1>1 DEF Core, Ledger, Tracker, Holding
<1>3. \A s \in All : EndEmitted(s)' <=> EndEmitted(s)
  BY <1>1, <1>2, RowEmitted DEF Core
<1>4. \A s \in Rows : Passed(s)' <=> Passed(s)
  BY <1>1, <1>3, UserPasses DEF Core, Uses
<1>. QED
  BY <1>1, <1>4, SameTally, EmitRoom DEF Core, Bounds

(* The end of a counted row is emitted before it is counted down.          *)
LEMMA FinishedBounds ==
  ASSUME Core, Bounds, NEW t \in All, NEW u \in 1..Users, Finished(t, u)
  PROVE  Tally' /\ Room'
<1>. DEFINE x == IF t # Ps THEN "count" ELSE "left"
<1>1. /\ user[t][u] = "end" /\ user' = [user EXCEPT ![t][u] = x] /\ x \in Uses
      /\ UNCHANGED <<sink, changed, stopped>> /\ Emit("end", t)
  BY DEF Finished, Use, Counted, progress, Uses
<1>2. /\ user'[t][u] = x
      /\ \A s \in All \ {t} : user'[s] = user[s]
  <2>. HIDE DEF x
  <2>. QED
    BY <1>1, UserTyped DEF Core
<1>3. ~EndEmitted(t)
  BY <1>1 DEF Core, Ledger, Tracker, Holding
<1>4. \A s \in All : EndEmitted(s)' <=> (EndEmitted(s) \/ s = t)
  BY <1>1, <1>3, EndShown DEF Core
<1>5. ASSUME NEW s \in Rows PROVE Passed(s)' <=> Passed(s)
  <2>1. CASE s = t
    BY <1>2, <1>3, <2>1, RowsAssumption DEF Passed
  <2>2. CASE s # t
    BY <1>2, <1>4, <2>2 DEF Passed, All
  <2>. QED
    BY <2>1, <2>2
<1>. QED
  BY <1>1, <1>5, SameTally, EmitRoom DEF Core, Bounds

LEMMA TrackerDoneBounds ==
  ASSUME Core, Bounds, NEW t \in All, NEW u \in 1..Users, TrackerDone(t, u)
  PROVE  Tally' /\ Room'
<1>1. /\ user[t][u] = "count" /\ user' = [user EXCEPT ![t][u] = "left"]
      /\ UNCHANGED <<sink, events, shown, stopped>> /\ changed' = changed + 1
  BY DEF TrackerDone, Use, Signal
<1>2. /\ user'[t][u] = "left"
      /\ \A v \in 1..Users : v # u => user'[t][v] = user[t][v]
      /\ \A s \in All \ {t} : user'[s] = user[s]
  <2>1. "left" \in Uses /\ Typed
    BY DEF Uses, Core
  <2>. QED
    BY <1>1, <2>1, UserTyped
<1>3. \A s \in All : EndEmitted(s)' <=> EndEmitted(s)
  BY <1>1, Quiet
<1>4. EndEmitted(t) /\ t \in Rows /\ \A v \in 1..Users : v # u => user[t][v] # "count"
  BY <1>1 DEF Core, Ledger, Tracker, All
<1>. DEFINE P == {s \in Rows : Passed(s)}
<1>5. P' = P \cup {t} /\ t \notin P
  BY <1>1, <1>2, <1>3, <1>4 DEF Passed, All
<1>6. Cardinality(P') = Cardinality(P) + 1 /\ Cardinality(P) \in Nat
  BY <1>5, PassedFinite, FS_AddElement
<1>7. Tally'
  BY <1>1, <1>6 DEF Bounds, Tally
<1>. QED
  BY <1>1, <1>7 DEF Bounds, Room, shown

LEMMA MainBounds ==
  ASSUME Core, Awaited, Bounds, MainMoves \/ WaitAndStop
  PROVE  Tally' /\ Room'
<1>1. CASE EnablePS
  BY <1>1, NewTrackerBounds DEF EnablePS, All
<1>2. CASE PSEnabled
  BY <1>2, CreateBounds DEF PSEnabled, All
<1>3. CASE NoPS \/ WaitAndStop \/ Look \/ Wake \/ Joined
  <2>1. UNCHANGED <<sink, events, shown, changed, stopped, user>>
    BY <1>3 DEF NoPS, WaitAndStop, Look, Wake, Joined, Main, progress
  <2>2. \A s \in All : EndEmitted(s)' <=> EndEmitted(s)
    BY <2>1, Quiet
  <2>. QED
    BY <2>1, <2>2, StillTally DEF Bounds, Room, shown
<1>4. CASE Stop
  <2>1. /\ UNCHANGED <<sink, events, shown, user>>
        /\ changed' = changed + 1 /\ ~stopped /\ stopped' = TRUE
    BY <1>4 DEF Stop, Main, Awaited
  <2>2. \A s \in All : EndEmitted(s)' <=> EndEmitted(s)
    BY <2>1, Quiet
  <2>3. {t \in Rows : Passed(t)}' = {t \in Rows : Passed(t)}
    BY <2>1, <2>2 DEF Passed, All
  <2>4. Tally'
    BY <2>1, <2>3, PassedFinite DEF Bounds, Tally
  <2>. QED
    BY <2>1, <2>4 DEF Bounds, Room, shown
<1>. QED
  BY <1>1, <1>2, <1>3, <1>4 DEF MainMoves

LEMMA OtherBounds ==
  ASSUME Core, Bounds, Cancel \/ Apply \/ (\E t \in All : Animate(t)) \/ UNCHANGED vars
  PROVE  Tally' /\ Room'
<1>1. CASE Cancel \/ UNCHANGED vars
  <2>1. UNCHANGED <<sink, events, shown, changed, stopped, user>>
    BY <1>1 DEF Cancel, vars, progress
  <2>2. \A s \in All : EndEmitted(s)' <=> EndEmitted(s)
    BY <2>1, Quiet
  <2>. QED
    BY <2>1, <2>2, StillTally DEF Bounds, Room, shown
<1>2. CASE Apply
  <2>1. /\ \A s \in All : EndEmitted(s)' <=> EndEmitted(s)
        /\ UNCHANGED <<changed, stopped, user, animators>>
    BY <1>2, Applied DEF Apply, progress, Core
  <2>2. Len(events') <= Capacity
    <3>1. events \in Seq({"row", "end"} \X All) /\ events # <<>> /\ events' = Tail(events)
      BY <1>2 DEF Apply, Core, Typed
    <3>2. Len(events') = Len(events) - 1 /\ Len(events) \in Nat
      BY <3>1
    <3>. QED
      BY <3>2, RowsAssumption DEF Bounds, Room
  <2>. QED
    BY <2>1, <2>2, StillTally DEF Bounds, Room
<1>3. ASSUME NEW t \in All, Animate(t) PROVE Tally' /\ Room'
  <2>1. /\ UNCHANGED <<transcript, events, changed, stopped, user>>
        /\ animators' = animators \ {t}
    BY <1>3 DEF Animate, progress
  <2>2. \A s \in All : EndEmitted(s)' <=> EndEmitted(s)
    BY <2>1 DEF EndEmitted
  <2>. QED
    BY <2>1, <2>2, StillTally DEF Bounds, Room
<1>. QED
  BY <1>1, <1>2, <1>3

LEMMA FlagsKept ==
  ASSUME Bounds, [Next]_vars
  PROVE  Flags'
<1>. USE DEF Bounds, Flags
<1>0. changed \in Nat
  BY PassedFinite DEF Tally
<1>1. ASSUME NEW t \in Rows, Work(t) PROVE Flags'
  <2>1. UNCHANGED <<ctxDone, stopped, main, seen>>
    BY <1>1 DEF Work, NewTracker, Create, Update, Finish, Leave, Use, progress
  <2>2. updates' \in 0..MaxUpdates
    BY <1>1, RowsAssumption DEF Work, NewTracker, Create, Update, Finish, Leave, Use, progress
  <2>. QED
    BY <2>1, <2>2
<1>2. CASE Emissions
  BY <1>2 DEF Emissions, Updated, Finished, TrackerDone, Use, progress
<1>3. CASE Update(Ps, 1)
  <2>1. UNCHANGED <<ctxDone, stopped, main, seen>>
    BY <1>3 DEF Update, Use, progress
  <2>2. updates' \in 0..MaxUpdates
    BY <1>3, RowsAssumption DEF Update
  <2>. QED
    BY <2>1, <2>2
<1>4. CASE StatusEnds
  BY <1>4 DEF StatusEnds, Finish, Use, progress
<1>5. CASE EnablePS \/ PSEnabled
  BY <1>5 DEF EnablePS, PSEnabled, NewTracker, Create, Use, progress
<1>6. CASE NoPS \/ WaitAndStop \/ Wake \/ Joined
  BY <1>6 DEF NoPS, WaitAndStop, Wake, Joined, Main, progress
<1>7. CASE Look
  BY <1>0, <1>7 DEF Look, Main, progress
<1>8. CASE Stop
  BY <1>8 DEF Stop, Main
<1>9. CASE Cancel
  BY <1>9 DEF Cancel, progress
<1>10. CASE Apply \/ \E t \in All : Animate(t)
  BY <1>10 DEF Apply, Animate, progress
<1>11. CASE UNCHANGED vars
  BY <1>11 DEF vars, progress
<1>. QED
  BY <1>1, <1>2, <1>3, <1>4, <1>5, <1>6, <1>7, <1>8, <1>9, <1>10, <1>11 DEF Next, MainMoves

LEMMA BoundsKept == IInv /\ Bounds /\ [Next]_vars => Bounds'
<1>. SUFFICES ASSUME IInv, Bounds, [Next]_vars PROVE Tally' /\ Room'
  BY FlagsKept DEF Bounds
<1>0. Ps \in All /\ Rows \subseteq All /\ 1 \in 1..Users
  BY OneIsUser DEF All
<1>. USE DEF IInv
<1>1. ASSUME NEW t \in Rows, Work(t) PROVE Tally' /\ Room'
  BY <1>0, <1>1, NewTrackerBounds, CreateBounds, UseBounds DEF Work
<1>2. CASE Emissions
  BY <1>2, UpdatedBounds, FinishedBounds, TrackerDoneBounds DEF Emissions
<1>3. CASE Update(Ps, 1) \/ StatusEnds
  BY <1>0, <1>3, UseBounds DEF StatusEnds
<1>4. CASE MainMoves \/ WaitAndStop
  BY <1>4, MainBounds
<1>5. CASE Cancel \/ Apply \/ (\E t \in All : Animate(t)) \/ UNCHANGED vars
  BY <1>5, OtherBounds
<1>. QED
  BY <1>1, <1>2, <1>3, <1>4, <1>5 DEF Next

LEMMA BoundsAtFirst == Init => Bounds
<1>. SUFFICES ASSUME Init PROVE Bounds
  OBVIOUS
<1>1. {t \in Rows : Passed(t)} = {}
  BY DEF Init, Passed, EndEmitted, Range
<1>2. Tally
  BY <1>1, FS_EmptySet DEF Tally, Init
<1>3. Flags
  <2>1. ctxDone = FALSE /\ stopped = FALSE /\ main = "enable"
    BY DEF Init
  <2>2. seen \in Nat /\ updates \in 0..MaxUpdates
    BY RowsAssumption DEF Init
  <2>. QED
    BY <2>1, <2>2 DEF Flags
<1>4. Room
  BY RowsAssumption DEF Room, Init
<1>. QED
  BY <1>2, <1>3, <1>4 DEF Bounds

(* The counters of a progress stay within the work: no use of a tracker    *)
(* counts it down twice, so that p.active never misses a row, p.changed is *)
(* closed once for each row and once by Stop, and the channel never holds  *)
(* more than its room.                                                     *)
THEOREM TypesHold == Spec => []TypeOK
<1>1. IInv /\ Bounds => TypeOK
  <2>. SUFFICES ASSUME IInv, Bounds PROVE TypeOK
    OBVIOUS
  <2>1. active \in 0..Cardinality(Rows)
    <3>1. Cardinality(Open) <= Cardinality(Rows) /\ Cardinality(Open) \in Nat
      BY RowsAssumption, FS_Subset, FS_CardinalityType DEF Open
    <3>2. Cardinality(Rows) \in Nat
      BY RowsAssumption, FS_CardinalityType
    <3>. QED
      BY <3>1, <3>2 DEF IInv, Core, Balance
  <2>2. changed \in 0..(Cardinality(Rows) + 1)
    <3>1. Cardinality(Rows) \in Nat
      BY RowsAssumption, FS_CardinalityType
    <3>. QED
      BY <3>1, PassedFinite DEF Bounds, Tally
  <2>. QED
    BY <2>1, <2>2 DEF IInv, Core, Typed, Awaited, Bounds, Flags, Room, TypeOK
<1>. QED
  BY <1>1, Invariant, BoundsAtFirst, BoundsKept, PTL DEF Spec

=============================================================================
