------------------------------ MODULE YadiskProofs ------------------------------
(***************************************************************************)
(* Proofs about YadiskTransfer, for any files, folders, histories, sizes,  *)
(* listings and answers of the service: what is found at a target is the   *)
(* whole of one object, and a walk finds every file that was there.        *)
(*                                                                         *)
(* The invariants are those of YadiskInvariants.  The first follows from   *)
(* Content, which says what a target holds while it is written: the        *)
(* beginning of the object its address names.  The second follows from     *)
(* Found, which says where a file is that the walk has not come to yet.    *)
(* Whole and FilesIn are functions; the lemmas on sequences, on the pieces *)
(* of an object and on what a listing holds come first.                    *)
(***************************************************************************)
EXTENDS YadiskInvariants, SequenceTheorems, FiniteSetTheorems, WellFoundedInduction,
  TLAPS

LEMMA FunctionIsSeq ==
  ASSUME NEW S, NEW n \in Nat, NEW f \in [1..n -> S]
  PROVE  f \in Seq(S) /\ Len(f) = n
<1>1. f \in Seq(S)
  BY SeqDef
<1>2. DOMAIN f = 1..n
  OBVIOUS
<1>3. Len(f) \in Nat /\ DOMAIN f = 1..Len(f)
  BY <1>1, LenProperties
<1> QED
  BY <1>1, <1>2, <1>3

(* Ranges of sequences.                                                    *)
LEMMA RangeIs ==
  ASSUME NEW S, NEW s \in Seq(S)
  PROVE  /\ Range(s) = {s[i] : i \in 1..Len(s)} /\ Range(s) \in SUBSET S
         /\ \A x : x \in Range(s) <=> \E i \in 1..Len(s) : s[i] = x
<1>1. DOMAIN s = 1..Len(s) /\ \A i \in 1..Len(s) : s[i] \in S
  BY ElementOfSeq
<1> QED
  BY <1>1 DEF Range

LEMMA RangeOfNone == Range(<<>>) = {}
  BY DEF Range

LEMMA RangeOfAppend ==
  ASSUME NEW S, NEW s \in Seq(S), NEW e \in S
  PROVE  Append(s, e) \in Seq(S) /\ Range(Append(s, e)) = Range(s) \cup {e}
<1> DEFINE r == Append(s, e)
<1>1. /\ r \in Seq(S) /\ Len(r) = Len(s) + 1 /\ Len(s) \in Nat
      /\ \A i \in 1..Len(s) : r[i] = s[i]
      /\ r[Len(s) + 1] = e
  OBVIOUS
<1> HIDE DEF r
<1>2. ASSUME NEW x PROVE x \in Range(r) <=> x \in Range(s) \cup {e}
  <2>1. ASSUME NEW i \in 1..Len(r) PROVE r[i] \in Range(s) \cup {e}
    BY <1>1, <2>1, RangeIs
  <2>2. ASSUME NEW i \in 1..Len(s) PROVE s[i] \in Range(r)
    <3>1. i \in 1..Len(r) /\ r[i] = s[i]
      BY <1>1
    <3> QED
      BY <1>1, <3>1, RangeIs
  <2>3. e \in Range(r)
    <3>1. Len(r) \in 1..Len(r) /\ r[Len(r)] = e
      BY <1>1
    <3> QED
      BY <1>1, <3>1, RangeIs
  <2> QED
    BY <1>1, <2>1, <2>2, <2>3, RangeIs
<1> QED
  BY <1>1, <1>2 DEF r

LEMMA RangeOfTail ==
  ASSUME NEW S, NEW s \in Seq(S), s # <<>>
  PROVE  /\ Tail(s) \in Seq(S) /\ Head(s) \in S
         /\ Range(s) = {Head(s)} \cup Range(Tail(s))
<1> DEFINE r == Tail(s)
<1>1. /\ r \in Seq(S) /\ Len(r) = Len(s) - 1 /\ Len(s) \in Nat \ {0}
      /\ \A i \in 1..Len(r) : r[i] = s[i + 1] /\ i + 1 \in 1..Len(s)
      /\ Head(s) = s[1] /\ Head(s) \in S
  OBVIOUS
<1> HIDE DEF r
<1>2. ASSUME NEW i \in 1..Len(s) PROVE s[i] \in {s[1]} \cup Range(r)
  <2>1. CASE i = 1
    BY <2>1
  <2>2. CASE i # 1
    <3>1. i - 1 \in 1..Len(r) /\ r[i - 1] = s[i]
      BY <1>1, <2>2
    <3> QED
      BY <1>1, <3>1, RangeIs
  <2> QED
    BY <2>1, <2>2
<1>3. ASSUME NEW i \in 1..Len(r) PROVE r[i] \in Range(s)
  BY <1>1, RangeIs
<1>4. s[1] \in Range(s)
  BY <1>1, RangeIs
<1>5. Range(s) = {s[1]} \cup Range(r)
  BY <1>1, <1>2, <1>3, <1>4, RangeIs
<1> QED
  BY <1>1, <1>5 DEF r

LEMMA Joined ==
  ASSUME NEW S, NEW a \in Seq(S), NEW b \in Seq(S)
  PROVE  /\ a \o b \in Seq(S) /\ Len(a \o b) = Len(a) + Len(b)
         /\ \A i \in 1..(Len(a) + Len(b)) :
              (a \o b)[i] = IF i <= Len(a) THEN a[i] ELSE b[i - Len(a)]
  OBVIOUS

LEMMA RangeOfBoth ==
  ASSUME NEW S, NEW a \in Seq(S), NEW b \in Seq(S)
  PROVE  Range(a \o b) = Range(a) \cup Range(b)
<1> DEFINE r == a \o b
<1>1. /\ r \in Seq(S) /\ Len(r) = Len(a) + Len(b) /\ Len(a) \in Nat /\ Len(b) \in Nat
      /\ \A i \in 1..(Len(a) + Len(b)) :
           r[i] = IF i <= Len(a) THEN a[i] ELSE b[i - Len(a)]
  BY Joined, LenProperties
<1> HIDE DEF r
<1>2. ASSUME NEW i \in 1..Len(r) PROVE r[i] \in Range(a) \cup Range(b)
  <2>1. CASE i <= Len(a)
    <3>1. i \in 1..Len(a) /\ r[i] = a[i]
      BY <1>1, <2>1
    <3> QED
      BY <3>1, RangeIs
  <2>2. CASE ~(i <= Len(a))
    <3>1. i - Len(a) \in 1..Len(b) /\ r[i] = b[i - Len(a)]
      BY <1>1, <2>2
    <3> QED
      BY <3>1, RangeIs
  <2> QED
    BY <2>1, <2>2
<1>3. ASSUME NEW i \in 1..Len(a) PROVE a[i] \in Range(r)
  <2>1. i \in 1..Len(r) /\ r[i] = a[i]
    BY <1>1
  <2> QED
    BY <1>1, <2>1, RangeIs
<1>4. ASSUME NEW i \in 1..Len(b) PROVE b[i] \in Range(r)
  <2>1. Len(a) + i \in 1..(Len(a) + Len(b)) /\ ~(Len(a) + i <= Len(a)) /\ (Len(a) + i) - Len(a) = i
    BY <1>1
  <2>2. r[Len(a) + i] = b[i]
    BY <1>1, <2>1
  <2> QED
    BY <1>1, <2>1, <2>2, RangeIs
<1>5. Range(r) = Range(a) \cup Range(b)
  <2>1. ASSUME NEW x \in Range(r) PROVE x \in Range(a) \cup Range(b)
    BY <1>1, <1>2, RangeIs
  <2>2. ASSUME NEW x \in Range(a) PROVE x \in Range(r)
    BY <1>3, RangeIs
  <2>3. ASSUME NEW x \in Range(b) PROVE x \in Range(r)
    BY <1>4, RangeIs
  <2> QED
    BY <2>1, <2>2, <2>3
<1> QED
  BY <1>5 DEF r

(* A part of a sequence.                                                   *)
LEMMA Part ==
  ASSUME NEW S, NEW s \in Seq(S), NEW m \in Nat, NEW n \in Nat, n <= Len(s), m >= 1
  PROVE  /\ SubSeq(s, m, n) \in Seq(S)
         /\ Len(SubSeq(s, m, n)) = IF m <= n THEN n - m + 1 ELSE 0
         /\ \A i \in 1..Len(SubSeq(s, m, n)) : SubSeq(s, m, n)[i] = s[m + i - 1]
  OBVIOUS

LEMMA OneTaken ==
  ASSUME NEW S, NEW s \in Seq(S), NEW k \in 1..Len(s)
  PROVE  /\ RemoveAt(s, k) \in Seq(S) /\ Len(RemoveAt(s, k)) = Len(s) - 1
         /\ \A i \in 1..(Len(s) - 1) :
              RemoveAt(s, k)[i] = s[IF i < k THEN i ELSE i + 1]
<1> DEFINE a == SubSeq(s, 1, k - 1)
           b == SubSeq(s, k + 1, Len(s))
<1>1. /\ a \in Seq(S) /\ Len(a) = k - 1 /\ k \in Nat /\ Len(s) \in Nat
      /\ \A i \in 1..(k - 1) : a[i] = s[i]
  OBVIOUS
<1>2. /\ b \in Seq(S) /\ Len(b) = Len(s) - k
      /\ \A i \in 1..(Len(s) - k) : b[i] = s[i + k]
  OBVIOUS
<1>3. RemoveAt(s, k) = a \o b
  BY DEF RemoveAt
<1> HIDE DEF a, b
<1>4. /\ a \o b \in Seq(S) /\ Len(a \o b) = Len(a) + Len(b)
      /\ \A i \in 1..(Len(a) + Len(b)) :
           (a \o b)[i] = IF i <= Len(a) THEN a[i] ELSE b[i - Len(a)]
  BY ONLY <1>1, <1>2, Joined
<1>5. Len(a) + Len(b) = Len(s) - 1
  BY <1>1, <1>2
<1>6. ASSUME NEW i \in 1..(Len(s) - 1)
      PROVE  (a \o b)[i] = s[IF i < k THEN i ELSE i + 1]
  <2>1. CASE i < k
    <3>1. i <= Len(a) /\ i \in 1..(k - 1)
      BY <1>1, <2>1
    <3> QED
      BY <1>1, <1>4, <1>5, <2>1, <3>1
  <2>2. CASE ~(i < k)
    <3>1. ~(i <= Len(a)) /\ i - (k - 1) \in 1..(Len(s) - k) /\ (i - (k - 1)) + k = i + 1
      BY <1>1, <2>2
    <3>2. (a \o b)[i] = b[i - (k - 1)]
      BY <1>1, <1>4, <1>5, <3>1
    <3> QED
      BY <1>2, <2>2, <3>1, <3>2
  <2> QED
    BY <2>1, <2>2
<1> QED
  BY <1>3, <1>4, <1>5, <1>6

LEMMA OnePut ==
  ASSUME NEW S, NEW s \in Seq(S), NEW k \in 1..(Len(s) + 1), NEW e \in S
  PROVE  /\ InsertAt(s, k, e) \in Seq(S) /\ Len(InsertAt(s, k, e)) = Len(s) + 1
         /\ \A i \in 1..(Len(s) + 1) :
              InsertAt(s, k, e)[i] = IF i < k THEN s[i] ELSE IF i = k THEN e ELSE s[i - 1]
<1> DEFINE a == SubSeq(s, 1, k - 1)
           b == SubSeq(s, k, Len(s))
           o == <<e>>
           ao == a \o o
<1>1. /\ a \in Seq(S) /\ Len(a) = k - 1 /\ k \in Nat /\ Len(s) \in Nat
      /\ \A i \in 1..(k - 1) : a[i] = s[i]
  OBVIOUS
<1>2. /\ b \in Seq(S) /\ Len(b) = (Len(s) - k) + 1
      /\ \A i \in 1..((Len(s) - k) + 1) : b[i] = s[(i + k) - 1]
  OBVIOUS
<1>3. o \in Seq(S) /\ Len(o) = 1 /\ o[1] = e
  OBVIOUS
<1>4. InsertAt(s, k, e) = ao \o b
  BY DEF InsertAt
<1> HIDE DEF a, b, o, ao
<1>5. /\ ao \in Seq(S) /\ Len(ao) = Len(a) + Len(o)
      /\ \A i \in 1..(Len(a) + Len(o)) :
           ao[i] = IF i <= Len(a) THEN a[i] ELSE o[i - Len(a)]
  BY ONLY <1>1, <1>3, Joined DEF ao
<1>6. Len(ao) = k /\ (\A i \in 1..(k - 1) : ao[i] = s[i]) /\ ao[k] = e
  <2>1. Len(ao) = k
    BY <1>1, <1>3, <1>5
  <2>2. ASSUME NEW i \in 1..(k - 1) PROVE ao[i] = s[i]
    <3>1. i \in 1..(Len(a) + Len(o)) /\ i <= Len(a)
      BY <1>1, <1>3
    <3> QED
      BY <1>1, <1>5, <3>1
  <2>3. ao[k] = e
    <3>1. k \in 1..(Len(a) + Len(o)) /\ ~(k <= Len(a)) /\ k - Len(a) = 1
      BY <1>1, <1>3
    <3> QED
      BY <1>3, <1>5, <3>1
  <2> QED
    BY <2>1, <2>2, <2>3
<1>7. /\ ao \o b \in Seq(S) /\ Len(ao \o b) = Len(ao) + Len(b)
      /\ \A i \in 1..(Len(ao) + Len(b)) :
           (ao \o b)[i] = IF i <= Len(ao) THEN ao[i] ELSE b[i - Len(ao)]
  <2>1. ao \in Seq(S)
    BY <1>5
  <2>2. b \in Seq(S)
    BY <1>2
  <2> QED
    BY ONLY <2>1, <2>2, Joined
<1>8. Len(ao) + Len(b) = Len(s) + 1
  BY <1>1, <1>2, <1>6
<1>9. ASSUME NEW i \in 1..(Len(s) + 1)
      PROVE  (ao \o b)[i] = IF i < k THEN s[i] ELSE IF i = k THEN e ELSE s[i - 1]
  <2>1. CASE i <= k
    <3>1. (ao \o b)[i] = ao[i]
      BY <1>6, <1>7, <1>8, <2>1
    <3>2. i # k => i \in 1..(k - 1)
      BY <2>1
    <3> QED
      BY <1>6, <2>1, <3>1, <3>2
  <2>2. CASE ~(i <= k)
    <3>1. i - k \in 1..((Len(s) - k) + 1) /\ ((i - k) + k) - 1 = i - 1 /\ i # k /\ ~(i < k)
      BY <1>1, <2>2
    <3>2. (ao \o b)[i] = b[i - k]
      BY <1>6, <1>7, <1>8, <2>2
    <3>3. b[i - k] = s[i - 1]
      BY <1>2, <3>1
    <3> QED
      BY <3>1, <3>2, <3>3
  <2> QED
    BY <2>1, <2>2
<1> QED
  BY <1>4, <1>7, <1>8, <1>9

(* Recursion over a sequence.  A set of naturals that has 0 and the        *)
(* successor of each of its members has all.                               *)
LEMMA AllNaturals ==
  ASSUME NEW N \in SUBSET Nat, 0 \in N, \A n \in N : n + 1 \in N
  PROVE  N = Nat
<1> DEFINE R == OpToRel(<, Nat)
<1> SUFFICES ASSUME Nat \ N # {} PROVE FALSE
  OBVIOUS
<1>1. IsWellFoundedOn(R, Nat)
  BY NatLessThanWellFounded
<1>2. \A x, y \in Nat : <<x, y>> \in R <=> x < y
  BY DEF OpToRel
<1> HIDE DEF R
<1>3. PICK n \in Nat \ N : \A m \in Nat \ N : ~ (<<m, n>> \in R)
  BY <1>1, WFMin
<1>4. n # 0 /\ n - 1 \in Nat /\ n - 1 < n
  BY <1>3
<1>5. n - 1 \in N
  BY <1>2, <1>3, <1>4
<1> QED
  BY <1>3, <1>4, <1>5

(* What is so at first and from each step to the next is so at the end.    *)
LEMMA Carried ==
  ASSUME NEW S, NEW m \in Nat, NEW f, f[0] \in S,
         \A n \in 1..m : f[n - 1] \in S => f[n] \in S
  PROVE  \A n \in 0..m : f[n] \in S
<1> DEFINE N == {n \in Nat : n <= m => f[n] \in S}
<1>1. 0 \in N
  OBVIOUS
<1>2. ASSUME NEW n \in N PROVE n + 1 \in N
  <2>1. ASSUME n + 1 <= m PROVE f[n + 1] \in S
    <3>1. n + 1 \in 1..m /\ (n + 1) - 1 = n /\ n <= m
      BY <2>1
    <3>2. f[n] \in S
      BY <3>1
    <3> QED
      BY <3>1, <3>2
  <2> QED
    BY <2>1
<1>3. N \in SUBSET Nat
  OBVIOUS
<1> HIDE DEF N
<1>4. N = Nat
  BY <1>1, <1>2, <1>3, AllNaturals
<1> QED
  BY <1>4 DEF N

(* A function is built from its first value on.                            *)
Built(S, f, a, m, g) ==
  f \in [0..m -> S] /\ f = [n \in 0..m |-> IF n = 0 THEN a ELSE g[n][f[n - 1]]]

LEMMA BuildOne ==
  ASSUME NEW S, NEW a \in S, NEW m \in Nat, NEW g \in [1..m -> [S -> S]],
         NEW n \in Nat, n + 1 <= m, NEW f, Built(S, f, a, n, g)
  PROVE  \E h : Built(S, h, a, n + 1, g)
<1> DEFINE h == [i \in 0..(n + 1) |-> IF i = n + 1 THEN g[n + 1][f[n]] ELSE f[i]]
<1>1. n \in 0..n /\ n + 1 \in 1..m /\ n # n + 1
  OBVIOUS
<1>2. f[n] \in S
  BY <1>1 DEF Built
<1>3. g[n + 1][f[n]] \in S
  BY <1>1, <1>2
<1>4. \A i \in 0..(n + 1) : i # n + 1 => i \in 0..n /\ (i # 0 => i - 1 \in 0..n)
  OBVIOUS
<1>5. h \in [0..(n + 1) -> S]
  <2>1. ASSUME NEW i \in 0..(n + 1), i # n + 1 PROVE f[i] \in S
    BY <1>4, <2>1 DEF Built
  <2> QED
    BY <1>3, <2>1
<1>6. \A i \in 0..(n + 1) : h[i] = IF i = n + 1 THEN g[n + 1][f[n]] ELSE f[i]
  OBVIOUS
<1>7. h = [i \in 0..(n + 1) |-> h[i]]
  OBVIOUS
<1> HIDE DEF h
<1>8. ASSUME NEW i \in 0..(n + 1)
      PROVE  h[i] = IF i = 0 THEN a ELSE g[i][h[i - 1]]
  <2>1. CASE i = n + 1
    <3>1. i # 0 /\ i - 1 = n /\ n \in 0..(n + 1)
      BY <2>1
    <3>2. h[n] = f[n] /\ h[i] = g[n + 1][f[n]]
      BY <1>1, <1>6, <2>1, <3>1
    <3> QED
      BY <2>1, <3>1, <3>2
  <2>2. CASE i # n + 1
    <3>1. f[i] = IF i = 0 THEN a ELSE g[i][f[i - 1]]
      BY <1>4, <2>2 DEF Built
    <3>2. h[i] = f[i]
      BY <1>6, <2>2
    <3>3. i # 0 => h[i - 1] = f[i - 1]
      BY <1>6, <2>2
    <3> QED
      BY <3>1, <3>2, <3>3
  <2> QED
    BY <2>1, <2>2
<1>9. h = [i \in 0..(n + 1) |-> IF i = 0 THEN a ELSE g[i][h[i - 1]]]
  BY <1>7, <1>8
<1> QED
  BY <1>5, <1>9 DEF Built

LEMMA Build ==
  ASSUME NEW S, NEW a \in S, NEW m \in Nat, NEW g \in [1..m -> [S -> S]]
  PROVE  \E f : Built(S, f, a, m, g)
<1> DEFINE N == {n \in Nat : n <= m => \E f : Built(S, f, a, n, g)}
<1>1. 0 \in N
  <2> DEFINE f == [n \in 0..0 |-> a]
  <2>1. f \in [0..0 -> S] /\ f = [n \in 0..0 |-> IF n = 0 THEN a ELSE g[n][f[n - 1]]]
    OBVIOUS
  <2> HIDE DEF f
  <2> QED
    BY <2>1 DEF Built
<1>2. ASSUME NEW n \in N PROVE n + 1 \in N
  <2>1. n \in Nat /\ (n <= m => \E f : Built(S, f, a, n, g))
    OBVIOUS
  <2>2. ASSUME n + 1 <= m PROVE \E f : Built(S, f, a, n + 1, g)
    <3>1. PICK f : Built(S, f, a, n, g)
      BY <2>1, <2>2
    <3> QED
      BY <2>1, <2>2, <3>1, BuildOne
  <2> QED
    BY <2>1, <2>2
<1>3. N \in SUBSET Nat
  OBVIOUS
<1> HIDE DEF N
<1>4. N = Nat
  BY <1>1, <1>2, <1>3, AllNaturals
<1>5. m \in N
  BY <1>4
<1>6. m <= m
  OBVIOUS
<1> QED
  BY <1>5, <1>6 DEF N

(* The links of the messages that are matched, each message's once.        *)
LEMMA ExtractLinksTyped ==
  ASSUME NEW s \in Seq(Entry)
  PROVE  ExtractLinks(s) \in Seq(Entry)
<1> DEFINE Q == Seq(Entry)
           Is(f) == f = [n \in 0..Len(s) |->
                              IF n = 0 THEN <<>>
                              ELSE IF s[n] \in Range(f[n - 1]) THEN f[n - 1]
                              ELSE Append(f[n - 1], s[n])]
           g == [n \in 1..Len(s) |-> [q \in Q |->
                   IF s[n] \in Range(q) THEN q ELSE Append(q, s[n])]]
           f0 == CHOOSE f : Is(f)
<1>1. /\ Len(s) \in Nat /\ <<>> \in Q
      /\ \A n \in 1..Len(s) : /\ s[n] \in Entry /\ n \in 0..Len(s)
                               /\ n - 1 \in 0..Len(s) /\ n # 0
  OBVIOUS
<1>2. g \in [1..Len(s) -> [Q -> Q]]
  BY <1>1
<1>3. PICK f : Built(Q, f, <<>>, Len(s), g)
  <2> HIDE DEF g, Q
  <2> QED
    BY <1>1, <1>2, Build
<1>4. Is(f)
  <2>1. ASSUME NEW n \in 1..Len(s)
        PROVE  g[n][f[n - 1]] = IF s[n] \in Range(f[n - 1]) THEN f[n - 1] ELSE Append(f[n - 1], s[n])
    <3>1. f[n - 1] \in Q
      BY <1>1, <1>3 DEF Built
    <3> QED
      BY <3>1
  <2>2. f = [n \in 0..Len(s) |-> IF n = 0 THEN <<>> ELSE g[n][f[n - 1]]]
    BY <1>3 DEF Built
  <2> HIDE DEF g
  <2>3. \A n \in 0..Len(s) : n # 0 => n \in 1..Len(s)
    OBVIOUS
  <2> QED
    BY <2>1, <2>2, <2>3
<1>5. Is(f0)
  <2> HIDE DEF Is
  <2> QED
    BY <1>4
<1>6. ExtractLinks(s) = f0[Len(s)]
  BY DEF ExtractLinks
<1> HIDE DEF f0, g
<1>7. f0[0] \in Q
  BY <1>1, <1>5
<1>8. ASSUME NEW n \in 1..Len(s), f0[n - 1] \in Q PROVE f0[n] \in Q
  <2>1. f0[n] = IF s[n] \in Range(f0[n - 1]) THEN f0[n - 1] ELSE Append(f0[n - 1], s[n])
    BY <1>1, <1>5
  <2> HIDE DEF Is
  <2> QED
    BY <1>1, <1>8, <2>1
<1> HIDE DEF Is, Q
<1>9. \A n \in 0..Len(s) : f0[n] \in Q
  BY <1>1, <1>7, <1>8, Carried
<1> QED
  BY <1>1, <1>6, <1>9 DEF Q

(* The files of a link that are wanted.                                    *)
LEMMA FilteredTyped ==
  ASSUME NEW s \in Seq(Files)
  PROVE  Filtered(s) \in Seq(Wanted)
<1> DEFINE Q == Seq(Wanted)
           Is(f) == f = [n \in 0..Len(s) |->
                              IF n = 0 THEN <<>>
                              ELSE IF IsSkippable(s[n]) THEN f[n - 1]
                              ELSE Append(f[n - 1], s[n])]
           g == [n \in 1..Len(s) |-> [q \in Q |->
                   IF IsSkippable(s[n]) THEN q ELSE Append(q, s[n])]]
           f0 == CHOOSE f : Is(f)
<1>1. /\ Len(s) \in Nat /\ <<>> \in Q
      /\ \A n \in 1..Len(s) : /\ (IsSkippable(s[n]) \/ s[n] \in Wanted) /\ n \in 0..Len(s)
                               /\ n - 1 \in 0..Len(s) /\ n # 0
  BY DEF IsSkippable, Wanted
<1>2. g \in [1..Len(s) -> [Q -> Q]]
  BY <1>1
<1>3. PICK f : Built(Q, f, <<>>, Len(s), g)
  <2> HIDE DEF g, Q
  <2> QED
    BY <1>1, <1>2, Build
<1>4. Is(f)
  <2>1. ASSUME NEW n \in 1..Len(s)
        PROVE  g[n][f[n - 1]] = IF IsSkippable(s[n]) THEN f[n - 1] ELSE Append(f[n - 1], s[n])
    <3>1. f[n - 1] \in Q
      BY <1>1, <1>3 DEF Built
    <3> QED
      BY <3>1
  <2>2. f = [n \in 0..Len(s) |-> IF n = 0 THEN <<>> ELSE g[n][f[n - 1]]]
    BY <1>3 DEF Built
  <2> HIDE DEF g
  <2>3. \A n \in 0..Len(s) : n # 0 => n \in 1..Len(s)
    OBVIOUS
  <2> QED
    BY <2>1, <2>2, <2>3
<1>5. Is(f0)
  <2> HIDE DEF Is
  <2> QED
    BY <1>4
<1>6. Filtered(s) = f0[Len(s)]
  BY DEF Filtered
<1> HIDE DEF f0, g
<1>7. f0[0] \in Q
  BY <1>1, <1>5
<1>8. ASSUME NEW n \in 1..Len(s), f0[n - 1] \in Q PROVE f0[n] \in Q
  <2>1. f0[n] = IF IsSkippable(s[n]) THEN f0[n - 1] ELSE Append(f0[n - 1], s[n])
    BY <1>1, <1>5
  <2> HIDE DEF Is
  <2> QED
    BY <1>1, <1>8, <2>1
<1> HIDE DEF Is, Q
<1>9. \A n \in 0..Len(s) : f0[n] \in Q
  BY <1>1, <1>7, <1>8, Carried
<1> QED
  BY <1>1, <1>6, <1>9 DEF Q


LEMMA OfferedTyped ==
  Offered \in Seq(Entry)
<1> DEFINE Q == Seq(Entry)
           Is(f) == f = [n \in 0..Len(History) |->
                              IF n = 0 THEN <<>>
                              ELSE f[n - 1] \o ExtractLinks(History[n])]
           g == [n \in 1..Len(History) |-> [q \in Q |->
                   q \o ExtractLinks(History[n])]]
           f0 == CHOOSE f : Is(f)
<1>1. /\ Len(History) \in Nat /\ <<>> \in Q
      /\ \A n \in 1..Len(History) : /\ ExtractLinks(History[n]) \in Q /\ n \in 0..Len(History)
                               /\ n - 1 \in 0..Len(History) /\ n # 0
  BY ExtractLinksTyped, YadiskAssumption
<1>2. g \in [1..Len(History) -> [Q -> Q]]
  BY <1>1
<1>3. PICK f : Built(Q, f, <<>>, Len(History), g)
  <2> HIDE DEF g, Q
  <2> QED
    BY <1>1, <1>2, Build
<1>4. Is(f)
  <2>1. ASSUME NEW n \in 1..Len(History)
        PROVE  g[n][f[n - 1]] = f[n - 1] \o ExtractLinks(History[n])
    <3>1. f[n - 1] \in Q
      BY <1>1, <1>3 DEF Built
    <3> QED
      BY <3>1
  <2>2. f = [n \in 0..Len(History) |-> IF n = 0 THEN <<>> ELSE g[n][f[n - 1]]]
    BY <1>3 DEF Built
  <2> HIDE DEF g
  <2>3. \A n \in 0..Len(History) : n # 0 => n \in 1..Len(History)
    OBVIOUS
  <2> QED
    BY <2>1, <2>2, <2>3
<1>5. Is(f0)
  <2> HIDE DEF Is
  <2> QED
    BY <1>4
<1> DEFINE every == f0[Len(History)]
<1>6. Offered = SubSeq(every, 1, IF Limit < Len(every) THEN Limit ELSE Len(every))
  BY DEF Offered
<1> HIDE DEF f0, g
<1>7. f0[0] \in Q
  BY <1>1, <1>5
<1>8. ASSUME NEW n \in 1..Len(History), f0[n - 1] \in Q PROVE f0[n] \in Q
  <2>1. f0[n] = f0[n - 1] \o ExtractLinks(History[n])
    BY <1>1, <1>5
  <2> HIDE DEF Is
  <2> QED
    BY <1>1, <1>8, <2>1
<1> HIDE DEF Is, Q
<1>9. \A n \in 0..Len(History) : f0[n] \in Q
  BY <1>1, <1>7, <1>8, Carried
<1>10. every \in Seq(Entry) /\ Limit \in Nat
  BY <1>1, <1>9, YadiskAssumption DEF Q
<1> HIDE DEF every
<1> QED
  BY <1>6, <1>10

(* A page continues the entries that the offset has counted.               *)
LEMMA PageIs ==
  ASSUME NEW S, NEW s \in Seq(S), NEW offset \in Nat
  PROVE  \E m \in Nat :
           /\ Page(s, offset) \in Seq(S) /\ Len(Page(s, offset)) = m
           /\ m # 0 => offset + m <= Len(s)
           /\ \A i \in 1..m : Page(s, offset)[i] = s[offset + i]
           /\ Page(s, offset) = <<>> => Len(s) <= offset
<1> DEFINE J == {j \in 1..PageSize : offset + j <= Len(s)}
<1>1. PICK m \in Nat : /\ J = 1..m /\ (m # 0 => offset + m <= Len(s))
                       /\ m = 0 => Len(s) <= offset
  <2>1. PageSize \in Nat \ {0} /\ Len(s) \in Nat
    BY LenProperties, YadiskAssumption
  <2>2. CASE Len(s) <= offset
    <3>1. J = 1..0
      BY <2>1, <2>2
    <3> QED
      BY <2>2, <3>1
  <2>3. CASE ~(Len(s) <= offset) /\ offset + PageSize <= Len(s)
    <3>1. J = 1..PageSize
      BY <2>1, <2>3
    <3> QED
      BY <2>1, <2>3, <3>1
  <2>4. CASE ~(Len(s) <= offset) /\ ~(offset + PageSize <= Len(s))
    <3>1. J = 1..(Len(s) - offset) /\ Len(s) - offset \in Nat \ {0}
          /\ offset + (Len(s) - offset) <= Len(s)
      BY <2>1, <2>4
    <3> QED
      BY <3>1
  <2> QED
    BY <2>2, <2>3, <2>4
<1>2. Cardinality(J) = m
  <2>1. 1 \in Int /\ m \in Int
    OBVIOUS
  <2>2. Cardinality(1..m) = IF 1 > m THEN 0 ELSE m - 1 + 1
    BY <2>1, FS_Interval
  <2> HIDE DEF J
  <2> QED
    BY <1>1, <2>2
<1> DEFINE p == [i \in 1..m |-> s[offset + i]]
<1>3. Page(s, offset) = p
  BY <1>2 DEF Page
<1>4. ASSUME NEW i \in 1..m PROVE s[offset + i] \in S
  <2>1. offset + i \in 1..Len(s)
    BY <1>1, LenProperties
  <2> QED
    BY <2>1
<1>5. p \in [1..m -> S]
  BY <1>4
<1> HIDE DEF J
<1>6. p \in Seq(S) /\ Len(p) = m
  <2> HIDE DEF p
  <2> QED
    BY <1>5, FunctionIsSeq
<1>7. p = <<>> => m = 0
  BY <1>6
<1>8. \A i \in 1..m : p[i] = s[offset + i]
  OBVIOUS
<1> HIDE DEF p
<1> QED
  BY <1>1, <1>3, <1>6, <1>7, <1>8

(* The parts of a state that a step leaves alone keep their types.         *)
LEMMA Stays ==
  /\ RunTyped /\ UNCHANGED run => RunTyped'
  /\ WalkTyped /\ UNCHANGED walk => WalkTyped' /\ at' = at /\ got' = got /\ todo' = todo
  /\ FilesTyped /\ UNCHANGED <<files, file>> => FilesTyped'
  /\ TransferTyped /\ UNCHANGED transfer => TransferTyped' /\ direct' = direct
  /\ StoreTyped /\ UNCHANGED store => StoreTyped'
  /\ PlaceTyped /\ UNCHANGED <<rows, pc>> => PlaceTyped'
<1>1. ASSUME RunTyped, UNCHANGED run PROVE RunTyped'
  BY <1>1 DEF RunTyped, run
<1>2. ASSUME WalkTyped, UNCHANGED walk PROVE WalkTyped' /\ at' = at /\ got' = got /\ todo' = todo
  BY <1>2 DEF WalkTyped, walk
<1>3. ASSUME FilesTyped, UNCHANGED <<files, file>> PROVE FilesTyped'
  BY <1>3 DEF FilesTyped
<1>4. ASSUME TransferTyped, UNCHANGED transfer PROVE TransferTyped' /\ direct' = direct
  BY <1>4 DEF TransferTyped, transfer
<1>5. ASSUME StoreTyped, UNCHANGED store PROVE StoreTyped'
  BY <1>5 DEF StoreTyped, store
<1>6. ASSUME PlaceTyped, UNCHANGED <<rows, pc>> PROVE PlaceTyped'
  BY <1>6 DEF PlaceTyped
<1> QED
  BY <1>1, <1>2, <1>3, <1>4, <1>5, <1>6

LEMMA TypedParts ==
  Typed <=> /\ RunTyped /\ WalkTyped /\ FilesTyped /\ TransferTyped /\ StoreTyped
            /\ PlaceTyped /\ Shape
  BY DEF Typed, TypeOK, RunTyped, WalkTyped, FilesTyped, TransferTyped, StoreTyped, PlaceTyped

LEMMA TypedPartsNext ==
  ASSUME RunTyped', WalkTyped', FilesTyped', TransferTyped', StoreTyped', PlaceTyped', Shape'
  PROVE  Typed'
  BY DEF Typed, TypeOK, RunTyped, WalkTyped, FilesTyped, TransferTyped, StoreTyped, PlaceTyped

LEMMA IdleTyped ==
  ASSUME Idle
  PROVE  TransferTyped'
<1>1. 0 \in 0..MaxParts
  BY YadiskAssumption
<1>2. declared' \in BOOLEAN
  BY DEF Idle
<1> QED
  BY <1>1, <1>2 DEF Idle, TransferTyped

LEMMA NoWalkTyped ==
  ASSUME WalkTyped, NoWalk
  PROVE  WalkTyped' /\ at' = "none" /\ got' = <<>> /\ todo' = <<>>
<1>1. shrunk' \in BOOLEAN
  BY DEF NoWalk
<1> QED
  BY <1>1 DEF WalkTyped, NoWalk

LEMMA LinkFailsTyped ==
  ASSUME Typed, NEW ended, LinkFails(ended)
  PROVE  /\ RunTyped' /\ WalkTyped' /\ FilesTyped' /\ TransferTyped' /\ PlaceTyped'
         /\ Shape'
         /\ pc' = "loop" /\ at' = "none" /\ todo' = <<>> /\ got' = <<>>
<1>1. RunTyped /\ WalkTyped /\ PlaceTyped
  BY TypedParts
<1>2. TransferTyped'
  BY IdleTyped DEF LinkFails
<1>3. WalkTyped' /\ at' = "none" /\ got' = <<>> /\ todo' = <<>>
  BY <1>1, NoWalkTyped DEF LinkFails
<1>4. RunTyped'
  BY <1>1 DEF RunTyped, LinkFails
<1>5. FilesTyped'
  BY DEF FilesTyped, LinkFails
<1>6. PlaceTyped'
  BY <1>1 DEF PlaceTyped, LinkFails
<1>7. pc' = "loop"
  BY DEF LinkFails
<1>8. Shape'
  BY <1>3, <1>7 DEF Shape, Handling, Writing
<1> QED
  BY <1>2, <1>3, <1>4, <1>5, <1>6, <1>7, <1>8

(* The target of a file that is wanted, and what is written there.         *)
LEMMA SaveTyped ==
  ASSUME StoreTyped, file \in Wanted, NEW b \in Seq(Byte), Save(b)
  PROVE  exists' \in SUBSET Targets /\ disk' \in [Targets -> Seq(Byte)]
         /\ Target[file] \in Targets
<1>1. Target[file] \in Targets
  BY DEF Targets, Wanted
<1> QED
  BY <1>1 DEF Save, StoreTyped

LEMMA UnlinkTyped ==
  ASSUME StoreTyped, file \in Wanted, Unlink
  PROVE  exists' \in SUBSET Targets /\ disk' \in [Targets -> Seq(Byte)]
         /\ Target[file] \in Targets
<1>1. Target[file] \in Targets
  BY DEF Targets, Wanted
<1>2. <<>> \in Seq(Byte)
  OBVIOUS
<1> QED
  BY <1>1, <1>2 DEF Unlink, StoreTyped

LEMMA FileDoneTyped ==
  ASSUME Typed, pc \in Handling, FileDone
  PROVE  /\ RunTyped' /\ WalkTyped' /\ FilesTyped' /\ TransferTyped' /\ PlaceTyped'
         /\ Shape'
         /\ pc' = "item" /\ UNCHANGED <<run, walk, files>>
<1>1. RunTyped /\ WalkTyped /\ FilesTyped /\ PlaceTyped /\ Shape
  BY TypedParts
<1>2. TransferTyped'
  BY IdleTyped DEF FileDone
<1>3. RunTyped' /\ WalkTyped' /\ at' = at /\ got' = got /\ todo' = todo
  BY <1>1, Stays DEF FileDone
<1>4. FilesTyped' /\ PlaceTyped' /\ pc' = "item" /\ files' = files
  BY <1>1 DEF FilesTyped, PlaceTyped, FileDone
<1>5. Shape'
  BY <1>1, <1>3, <1>4 DEF Shape, Handling, Writing
<1> QED
  BY <1>2, <1>3, <1>4, <1>5 DEF FileDone

LEMMA AttemptFailsTyped ==
  ASSUME Typed, pc \in Handling, AttemptFails
  PROVE  /\ RunTyped' /\ WalkTyped' /\ FilesTyped' /\ TransferTyped' /\ PlaceTyped'
         /\ Shape'
         /\ pc' \in {"refresh", "loop"}
<1>1. RunTyped /\ WalkTyped /\ FilesTyped /\ PlaceTyped /\ Shape
  BY TypedParts
<1>2. CASE attempt = 1 /\ file \notin Pathless
  <2>1. TransferTyped'
    BY <1>2, IdleTyped DEF AttemptFails
  <2>2. RunTyped' /\ WalkTyped' /\ at' = at /\ got' = got /\ todo' = todo
    BY <1>1, <1>2, Stays DEF AttemptFails
  <2>3. /\ FilesTyped' /\ PlaceTyped' /\ pc' = "refresh" /\ files' = files
        /\ file' = file
    BY <1>1, <1>2 DEF FilesTyped, PlaceTyped, AttemptFails
  <2>4. Shape'
    BY <1>1, <2>2, <2>3 DEF Shape, Handling, Writing
  <2> QED
    BY <2>1, <2>2, <2>3, <2>4
<1>3. CASE ~(attempt = 1 /\ file \notin Pathless)
  <2>1. LinkFails({"file", "link"})
    BY <1>3 DEF AttemptFails, FileFails
  <2> QED
    BY <2>1, LinkFailsTyped
<1> QED
  BY <1>2, <1>3

(* The bytes of an object, and the first of them.                          *)
LEMMA WholeIs ==
  ASSUME NEW o \in Object
  PROVE  /\ Bytes[o] \in Nat \ {0}
         /\ Whole(o) \in Seq(Byte) /\ Len(Whole(o)) = Bytes[o]
         /\ \A i \in 1..Bytes[o] : Whole(o)[i] = <<o, i>>
<1>1. Bytes[o] \in Nat \ {0}
  BY YadiskAssumption
<1>2. \A i \in 1..Bytes[o] : <<o, i>> \in Byte
  BY <1>1 DEF Byte
<1>3. Whole(o) \in [1..Bytes[o] -> Byte]
  BY <1>2 DEF Whole
<1>4. Whole(o) \in Seq(Byte) /\ Len(Whole(o)) = Bytes[o]
  BY <1>1, <1>3, FunctionIsSeq
<1> QED
  BY <1>1, <1>4 DEF Whole

First(o, n) == SubSeq(Whole(o), 1, n)

LEMMA FirstIs ==
  ASSUME NEW o \in Object, NEW n \in 0..Bytes[o]
  PROVE  /\ First(o, n) \in Seq(Byte) /\ Len(First(o, n)) = n
         /\ \A i \in 1..n : First(o, n)[i] = <<o, i>>
<1> DEFINE W == Whole(o)
<1>1. /\ W \in Seq(Byte) /\ Len(W) = Bytes[o] /\ n \in Nat /\ n <= Len(W) /\ 1 \in Nat
      /\ \A i \in 1..Bytes[o] : W[i] = <<o, i>>
  BY WholeIs
<1> HIDE DEF W
<1>2. /\ SubSeq(W, 1, n) \in Seq(Byte)
      /\ Len(SubSeq(W, 1, n)) = IF 1 <= n THEN n - 1 + 1 ELSE 0
      /\ \A i \in 1..Len(SubSeq(W, 1, n)) : SubSeq(W, 1, n)[i] = W[1 + i - 1]
  <2>1. 1 >= 1
    OBVIOUS
  <2> QED
    BY ONLY <1>1, <2>1, Part
<1>3. Len(SubSeq(W, 1, n)) = n
  BY <1>1, <1>2
<1>4. ASSUME NEW i \in 1..n PROVE SubSeq(W, 1, n)[i] = <<o, i>>
  <2>1. 1 + i - 1 = i /\ i \in 1..Bytes[o]
    BY <1>1
  <2> QED
    BY <1>1, <1>2, <1>3, <2>1
<1> QED
  BY <1>2, <1>3, <1>4 DEF First, W

(* Two sequences with the same elements are the same.                      *)
LEMMA SameElements ==
  ASSUME NEW S, NEW a \in Seq(S), NEW b \in Seq(S), Len(a) = Len(b),
         \A i \in 1..Len(a) : a[i] = b[i]
  PROVE  a = b
  OBVIOUS

LEMMA FirstIsWhole ==
  ASSUME NEW o \in Object
  PROVE  First(o, Bytes[o]) = Whole(o)
<1>1. Bytes[o] \in 0..Bytes[o]
  BY WholeIs
<1>2. /\ First(o, Bytes[o]) \in Seq(Byte) /\ Len(First(o, Bytes[o])) = Bytes[o]
      /\ \A i \in 1..Bytes[o] : First(o, Bytes[o])[i] = <<o, i>>
  BY <1>1, FirstIs
<1>3. /\ Whole(o) \in Seq(Byte) /\ Len(Whole(o)) = Bytes[o]
      /\ \A i \in 1..Bytes[o] : Whole(o)[i] = <<o, i>>
  BY WholeIs
<1>4. \A i \in 1..Len(First(o, Bytes[o])) : First(o, Bytes[o])[i] = Whole(o)[i]
  BY <1>2, <1>3
<1> QED
  BY <1>2, <1>3, <1>4, SameElements

LEMMA FirstOfNone ==
  ASSUME NEW o \in Object
  PROVE  First(o, 0) = <<>>
<1>1. 0 \in 0..Bytes[o]
  BY WholeIs
<1> QED
  BY <1>1, FirstIs

(* The beginning of an object is in order, and so is the whole.            *)
LEMMA FirstInOrder ==
  ASSUME NEW o \in Object, NEW n \in 0..Bytes[o]
  PROVE  InOrder(First(o, n), o)
<1>1. /\ Len(First(o, n)) = n /\ Bytes[o] \in Nat /\ n \in Nat /\ n <= Bytes[o]
      /\ \A i \in 1..n : First(o, n)[i] = <<o, i>>
  BY FirstIs, WholeIs
<1> DEFINE s == First(o, n)
<1> HIDE DEF s
<1>2. ASSUME NEW i \in 1..Len(s)
      PROVE  s[i][1] = o /\ s[i][2] <= Bytes[o] /\ \A j \in 1..(i - 1) : s[j][2] < s[i][2]
  <2>1. i \in Nat /\ i <= Bytes[o] /\ s[i] = <<o, i>>
    BY <1>1 DEF s
  <2>2. ASSUME NEW j \in 1..(i - 1) PROVE s[j][2] < s[i][2]
    <3>1. j \in 1..n /\ j < i
      BY <1>1, <2>1 DEF s
    <3>2. s[j] = <<o, j>>
      BY <1>1, <3>1 DEF s
    <3> QED
      BY <2>1, <3>1, <3>2
  <2> QED
    BY <2>1, <2>2
<1>3. InOrder(s, o)
  BY <1>2 DEF InOrder
<1> QED
  BY <1>3 DEF s

LEMMA WholeInOrder ==
  ASSUME NEW o \in Object
  PROVE  InOrder(Whole(o), o)
<1>1. Bytes[o] \in 0..Bytes[o]
  BY WholeIs
<1> QED
  BY <1>1, FirstInOrder, FirstIsWhole

LEMMA NoneInOrder ==
  ASSUME NEW o
  PROVE  InOrder(<<>>, o)
BY DEF InOrder

(* A segment goes behind those before it.                                  *)
Within(s, n) == \A i \in 1..Len(s) : s[i][2] <= n

LEMMA NextInOrder ==
  ASSUME NEW o \in Object, NEW n \in Nat, n < Bytes[o],
         NEW s \in Seq(Byte), InOrder(s, o), Within(s, n)
  PROVE  LET t == Append(s, Whole(o)[n + 1])
         IN  t \in Seq(Byte) /\ InOrder(t, o) /\ Within(t, n + 1)
<1> DEFINE e == Whole(o)[n + 1]
           t == Append(s, e)
<1>1. n + 1 \in 1..Bytes[o] /\ Bytes[o] \in Nat
  BY WholeIs
<1>2. e = <<o, n + 1>>
  BY <1>1, WholeIs
<1>3. e \in Byte
  <2>1. n + 1 \in Nat \ {0}
    OBVIOUS
  <2> QED
    BY <1>2, <2>1 DEF Byte
<1> HIDE DEF e
<1>4. /\ t \in Seq(Byte) /\ Len(s) \in Nat /\ Len(t) = Len(s) + 1 /\ t[Len(s) + 1] = e
      /\ \A i \in 1..Len(s) : t[i] = s[i]
  BY <1>3
<1> HIDE DEF t
<1>5. e[1] = o /\ e[2] = n + 1
  BY <1>2
<1>6. \A i \in 1..Len(s) : s[i] \in Byte
  BY ElementOfSeq
<1>7. \A i \in 1..Len(s) : s[i][2] \in Nat
  BY <1>6 DEF Byte
<1>8. ASSUME NEW i \in 1..Len(t)
      PROVE  /\ t[i][1] = o /\ t[i][2] <= Bytes[o] /\ t[i][2] <= n + 1
             /\ \A j \in 1..(i - 1) : t[j][2] < t[i][2]
  <2>1. CASE i \in 1..Len(s)
    <3>1. /\ s[i][1] = o /\ s[i][2] <= Bytes[o] /\ s[i][2] <= n /\ s[i][2] \in Nat
          /\ \A j \in 1..(i - 1) : s[j][2] < s[i][2]
      BY <1>7, <2>1 DEF InOrder, Within
    <3>2. \A j \in 1..(i - 1) : t[j] = s[j]
      BY <1>4, <2>1
    <3>3. t[i] = s[i]
      BY <1>4, <2>1
    <3> QED
      BY <3>1, <3>2, <3>3
  <2>2. CASE i \notin 1..Len(s)
    <3>1. i = Len(s) + 1
      BY <1>4, <2>2
    <3>2. t[i] = e
      BY <1>4, <3>1
    <3>3. \A j \in 1..(i - 1) : t[j] = s[j] /\ s[j][2] <= n /\ s[j][2] \in Nat
      BY <1>4, <1>7, <3>1 DEF Within
    <3> QED
      BY <1>1, <1>5, <3>2, <3>3
  <2> QED
    BY <2>1, <2>2
<1>9. InOrder(t, o) /\ Within(t, n + 1)
  BY <1>8 DEF InOrder, Within
<1> QED
  BY <1>4, <1>9 DEF t, e

(* A range continues what is there, or starts it again.                    *)
Continued(o, m, k, n) == SubSeq(First(o, m), 1, k) \o SubSeq(Whole(o), k + 1, n)

LEMMA RangeOfFirst ==
  ASSUME NEW o \in Object, NEW m \in Nat, NEW n \in Nat, NEW k \in Nat,
         k <= m, m <= Bytes[o], k <= n, n <= Bytes[o]
  PROVE  Continued(o, m, k, n) = First(o, n)
<1> DEFINE f == First(o, m)
           W == Whole(o)
           a == SubSeq(f, 1, k)
           b == SubSeq(W, k + 1, n)
           c == First(o, n)
<1>1. f \in Seq(Byte) /\ Len(f) = m /\ (\A i \in 1..m : f[i] = <<o, i>>)
  BY FirstIs, WholeIs
<1>2. W \in Seq(Byte) /\ Len(W) = Bytes[o] /\ (\A i \in 1..Bytes[o] : W[i] = <<o, i>>)
      /\ Bytes[o] \in Nat
  BY WholeIs
<1>3. c \in Seq(Byte) /\ Len(c) = n /\ (\A i \in 1..n : c[i] = <<o, i>>)
  BY FirstIs, WholeIs
<1> HIDE DEF f, W, c
<1>4. a \in Seq(Byte) /\ Len(a) = k /\ (\A i \in 1..k : a[i] = <<o, i>>)
  <2>1. a \in Seq(Byte) /\ Len(a) = k /\ (\A i \in 1..k : a[i] = f[i])
    BY <1>1
  <2>2. \A i \in 1..k : i \in 1..m
    OBVIOUS
  <2> HIDE DEF a
  <2> QED
    BY <1>1, <2>1, <2>2
<1>5. b \in Seq(Byte) /\ Len(b) = n - k /\ (\A i \in 1..(n - k) : b[i] = <<o, k + i>>)
  <2>1. b \in Seq(Byte) /\ Len(b) = n - k /\ (\A i \in 1..(n - k) : b[i] = W[k + i])
    <3>1. k + 1 \in Nat /\ k + 1 >= 1 /\ n <= Len(W)
      BY <1>2
    <3>2. /\ SubSeq(W, k + 1, n) \in Seq(Byte)
          /\ Len(SubSeq(W, k + 1, n)) = IF k + 1 <= n THEN n - (k + 1) + 1 ELSE 0
          /\ \A i \in 1..Len(SubSeq(W, k + 1, n)) : SubSeq(W, k + 1, n)[i] = W[(k + 1) + i - 1]
      <4>1. W \in Seq(Byte) /\ n \in Nat
        BY <1>2
      <4> QED
        BY ONLY <4>1, <3>1, Part
    <3>3. (IF k + 1 <= n THEN n - (k + 1) + 1 ELSE 0) = n - k
      <4>1. CASE k = n
        <5>1. ~(k + 1 <= n) /\ n - k = 0
          BY <4>1
        <5> QED
          BY <5>1
      <4>2. CASE k # n
        <5>1. k + 1 <= n /\ n - (k + 1) + 1 = n - k
          BY <4>2
        <5> QED
          BY <5>1
      <4> QED
        BY <4>1, <4>2
    <3>4. \A i \in 1..(n - k) : (k + 1) + i - 1 = k + i
      OBVIOUS
    <3>5. b \in Seq(Byte) /\ Len(b) = n - k
      BY <3>2, <3>3
    <3>6. ASSUME NEW i \in 1..(n - k) PROVE b[i] = W[k + i]
      BY <3>2, <3>3, <3>4
    <3> QED
      BY <3>5, <3>6
  <2>2. \A i \in 1..(n - k) : k + i \in 1..Bytes[o]
    BY <1>2
  <2> HIDE DEF b
  <2> QED
    BY <1>2, <2>1, <2>2
<1> HIDE DEF a, b
<1>6. /\ a \o b \in Seq(Byte) /\ Len(a \o b) = Len(a) + Len(b)
      /\ \A i \in 1..(Len(a) + Len(b)) :
           (a \o b)[i] = IF i <= Len(a) THEN a[i] ELSE b[i - Len(a)]
  <2>1. a \in Seq(Byte) /\ b \in Seq(Byte)
    BY <1>4, <1>5
  <2> QED
    BY ONLY <2>1, Joined
<1>7. Len(a) + Len(b) = n
  BY <1>4, <1>5
<1>8. ASSUME NEW i \in 1..n PROVE (a \o b)[i] = c[i]
  <2>1. CASE i <= k
    <3>1. (a \o b)[i] = a[i] /\ i \in 1..k
      BY <1>4, <1>6, <1>7, <2>1
    <3> QED
      BY <1>3, <1>4, <3>1
  <2>2. CASE ~(i <= k)
    <3>1. i - k \in 1..(n - k) /\ k + (i - k) = i
      BY <2>2
    <3>2. (a \o b)[i] = b[i - k]
      BY <1>4, <1>6, <1>7, <2>2
    <3>3. b[i - k] = <<o, i>>
      BY <1>5, <3>1
    <3> QED
      BY <1>3, <3>2, <3>3
  <2> QED
    BY <2>1, <2>2
<1>9. a \o b = c
  BY <1>3, <1>6, <1>7, <1>8, SameElements
<1> QED
  BY <1>9 DEF a, b, c, f, W, Continued

-----------------------------------------------------------------------------
(* Every step keeps the types and the shape.  First the interrupt, the     *)
(* producer and the loop over the links.                                   *)
Parted == RunTyped /\ WalkTyped /\ FilesTyped /\ TransferTyped /\ StoreTyped /\ PlaceTyped /\ Shape

LEMMA LoopTyped ==
  ASSUME Typed,
         Cancel \/ HistoryEnds \/ LoopCancelled \/ LoopEnds \/ TakeLink
  PROVE  Typed'
<1>1. Parted
  BY TypedParts DEF Parted
<1> USE <1>1 DEF Parted
<1>2. WalkTyped' /\ FilesTyped' /\ TransferTyped' /\ StoreTyped'
  BY Stays DEF Cancel, HistoryEnds, LoopCancelled, LoopEnds, TakeLink
<1>3. UNCHANGED <<at, got, todo, files, file, direct>>
  BY DEF walk, transfer, Cancel, HistoryEnds, LoopCancelled, LoopEnds, TakeLink
<1>4. CASE Cancel \/ HistoryEnds
  <2>1. ctxDone' \in BOOLEAN /\ closed' \in BOOLEAN
    BY <1>4 DEF Cancel, HistoryEnds, RunTyped
  <2>2. UNCHANGED <<rewrite, dryRun, links, link, result, failed, pc, rows>>
    BY <1>4 DEF Cancel, HistoryEnds
  <2>3. RunTyped' /\ PlaceTyped'
    BY <2>1, <2>2 DEF RunTyped, PlaceTyped
  <2>4. Shape'
    BY <1>3, <2>2 DEF Shape
  <2> QED
    BY <1>2, <2>3, <2>4, TypedPartsNext
<1>5. CASE LoopCancelled \/ LoopEnds
  <2>1. UNCHANGED <<rewrite, dryRun, closed, ctxDone, links, link, rows>>
        /\ pc = "loop" /\ pc' = "done" /\ result' \in {"nil", "error", "cancel"}
        /\ (failed' = failed \/ failed' = failed + 1)
    BY <1>5 DEF LoopCancelled, LoopEnds
  <2>2. RunTyped' /\ PlaceTyped'
    BY <2>1 DEF RunTyped, PlaceTyped
  <2>3. Shape'
    BY <1>3, <2>1 DEF Shape, Handling, Writing
  <2> QED
    BY <1>2, <2>2, <2>3, TypedPartsNext
<1>6. CASE TakeLink
  <2>1. UNCHANGED <<rewrite, dryRun, closed, ctxDone, result, failed>>
        /\ pc = "loop" /\ pc' = "meta" /\ rows' = rows \cup {"resolve"}
    BY <1>6 DEF TakeLink
  <2>2. links' \in Seq(Entry) /\ link' \in Entry
    BY <1>6 DEF TakeLink, RunTyped
  <2>3. RunTyped' /\ PlaceTyped'
    BY <2>1, <2>2 DEF RunTyped, PlaceTyped
  <2>4. Shape'
    BY <1>3, <2>1 DEF Shape, Handling, Writing
  <2> QED
    BY <1>2, <2>3, <2>4, TypedPartsNext
<1> QED
  BY <1>4, <1>5, <1>6

(* A failed link keeps the store, or its target is removed.                *)
LEMMA LinkFailsKeeps ==
  ASSUME Typed, NEW ended, LinkFails(ended), StoreTyped'
  PROVE  Typed'
  BY LinkFailsTyped, TypedPartsNext

LEMMA StoreStays == ASSUME Typed, UNCHANGED store PROVE StoreTyped'
  BY Stays, TypedParts

(* Resolving a link.                                                       *)
LEMMA FilesOfListing ==
  ASSUME WalkTyped, NEW d \in Dirs
  PROVE  FilesIn(listing[d]) \in SUBSET Files /\ listing[d] \in Seq(Entry)
  BY DEF FilesIn, WalkTyped

LEMMA MetaTyped ==
  ASSUME Typed, Meta
  PROVE  Typed'
<1>1. Parted
  BY TypedParts DEF Parted
<1>2. StoreTyped'
  BY StoreStays DEF Meta
<1>3. CASE LinkFails({"resolve"})
  BY <1>2, <1>3, LinkFailsKeeps
<1>4. CASE ~LinkFails({"resolve"})
  <2>1. RunTyped' /\ FilesTyped' /\ TransferTyped'
    BY <1>1, <1>4, Stays DEF Meta, Parted
  <2>2. link' = link /\ files' = files /\ file' = file /\ direct' = direct /\ rows' = rows
        /\ pc = "meta" /\ todo = <<>>
    BY <1>1, <1>4 DEF Meta, run, transfer, Parted, Shape
  <2>3. CASE link \in Dirs /\ at' = link
    <3>1. /\ pc' = "list" /\ todo' = <<>> /\ got' = <<>>
          /\ stable' = UNION {FilesIn(listing[d]) : d \in Below[link]} /\ shrunk' = FALSE
          /\ UNCHANGED <<listing, changes>>
      BY <1>4, <2>2, <2>3, YadiskAssumption DEF Meta, walk, Entry
    <3>2. stable' \in SUBSET Files
      <4>1. Below[link] \subseteq Dirs
        BY <2>3, YadiskAssumption
      <4> QED
        BY <1>1, <3>1, <4>1, FilesOfListing DEF Parted
    <3>3. WalkTyped'
      <4>0. shrunk' \in BOOLEAN
        BY <3>1
      <4>1. todo' \in Seq(Entry) /\ got' \in Seq(Entry)
        BY <3>1
      <4>2. at' \in Dirs \cup {"none"} /\ listing' = listing /\ changes' = changes
        BY <2>3, <3>1
      <4> QED
        BY <1>1, <3>2, <4>0, <4>1, <4>2 DEF WalkTyped, Parted
    <3>4. PlaceTyped'
      BY <1>1, <2>2, <3>1 DEF PlaceTyped, Parted
    <3>5. Shape'
      BY <2>2, <2>3, <3>1, YadiskAssumption DEF Shape, Handling, Writing, Entry
    <3> QED
      BY <1>2, <2>1, <3>3, <3>4, <3>5, TypedPartsNext
  <2>4. CASE ~(link \in Dirs /\ at' = link)
    <3>1. link \in Files /\ pc' = "fileurl" /\ UNCHANGED walk
      BY <1>4, <2>4 DEF Meta
    <3>2. WalkTyped' /\ at' = at /\ todo' = todo /\ got' = got
      BY <1>1, <3>1, Stays DEF Parted
    <3>3. PlaceTyped'
      BY <1>1, <2>2, <3>1 DEF PlaceTyped, Parted
    <3>4. Shape'
      BY <1>1, <2>2, <3>1, <3>2 DEF Shape, Handling, Writing, Parted
    <3> QED
      BY <1>2, <2>1, <3>2, <3>3, <3>4, TypedPartsNext
  <2> QED
    BY <2>3, <2>4
<1> QED
  BY <1>3, <1>4

LEMMA ListPageTyped ==
  ASSUME Typed, ListPage
  PROVE  Typed'
<1>1. Parted
  BY TypedParts DEF Parted
<1>2. RunTyped' /\ FilesTyped' /\ TransferTyped' /\ StoreTyped'
      /\ UNCHANGED <<link, files, file, direct, rows, listing, changes, stable, shrunk>>
  BY <1>1, Stays DEF ListPage, run, transfer, Parted
<1>3. pc = "list" /\ at \in Dirs /\ link \in Dirs
  BY <1>1 DEF ListPage, Parted, Shape, WalkTyped
<1> DEFINE page == Page(listing[at], Offset(got))
           all == got \o page
<1>4. page \in Seq(Entry)
  <2>1. listing[at] \in Seq(Entry) /\ Len(got) \in Nat
    BY <1>1, <1>3 DEF WalkTyped, Parted
  <2> QED
    BY <2>1, PageIs DEF Offset
<1>5. all \in Seq(Entry) /\ all \o todo \in Seq(Entry)
  BY <1>1, <1>4, Joined DEF WalkTyped, Parted
<1>6. \/ todo' = all \o todo /\ got' = <<>> /\ at' = "none" /\ pc' = "walk"
      \/ got' = all /\ UNCHANGED <<todo, at, pc>>
  BY DEF ListPage
<1> HIDE DEF page, all
<1>7. todo' \in Seq(Entry) /\ got' \in Seq(Entry) /\ at' \in Dirs \cup {"none"}
      /\ pc' \in {"walk", "list"}
  <2>1. todo \in Seq(Entry) /\ <<>> \in Seq(Entry)
    BY <1>1 DEF WalkTyped, Parted
  <2>2. todo' \in Seq(Entry) /\ got' \in Seq(Entry)
    BY <1>5, <1>6, <2>1
  <2>3. at' \in Dirs \cup {"none"} /\ pc' \in {"walk", "list"}
    BY <1>3, <1>6
  <2> QED
    BY <2>2, <2>3
<1>8. WalkTyped' /\ PlaceTyped'
  BY <1>1, <1>2, <1>7 DEF WalkTyped, PlaceTyped, Parted
<1>9. Shape'
  <2>1. pc' = "list" <=> at' # "none"
    BY <1>1, <1>3, <1>6 DEF Shape, Parted
  <2> QED
    BY <1>2, <1>3, <1>6, <1>7, <2>1 DEF Shape, Handling, Writing
<1> QED
  BY <1>2, <1>8, <1>9, TypedPartsNext

LEMMA ListFailsTyped ==
  ASSUME Typed, ListFails
  PROVE  Typed'
  BY LinkFailsKeeps, StoreStays DEF ListFails

(* The owner moves files only.                                             *)
Moved(d, i) ==
  \/ /\ i <= Len(listing[d]) /\ listing[d][i] \in Files
     /\ listing' = [listing EXCEPT ![d] = RemoveAt(@, i)]
     /\ stable' = stable \ {listing[d][i]} /\ shrunk' = TRUE
  \/ \E f \in Files :
       /\ \A e \in Dirs : f \notin Range(listing[e])
       /\ listing' = [listing EXCEPT ![d] = InsertAt(@, i, f)]
       /\ UNCHANGED <<stable, shrunk>>

LEMMA ChangeTyped ==
  ASSUME Typed, Change
  PROVE  Typed'
<1>1. Parted
  BY TypedParts DEF Parted
<1>2. RunTyped' /\ FilesTyped' /\ TransferTyped' /\ StoreTyped' /\ PlaceTyped'
      /\ UNCHANGED <<link, files, file, direct, at, got, todo, pc>>
  BY <1>1, Stays DEF Change, run, transfer, Parted
<1>3. at # "none" /\ changes' \in 0..MaxChanges
  <2>1. changes \in 0..MaxChanges /\ MaxChanges \in Nat
    BY <1>1, YadiskAssumption DEF WalkTyped, Parted
  <2>2. at # "none" /\ changes < MaxChanges /\ changes' = changes + 1
    BY DEF Change
  <2> QED
    BY <2>1, <2>2
<1>4. link \in Dirs /\ Below[link] \subseteq Dirs
  BY <1>1, <1>3, YadiskAssumption DEF Shape, Parted
<1>5. PICK d \in Below[link] : \E i \in 1..(Len(listing[d]) + 1) : Moved(d, i)
  BY DEF Change, Moved
<1>i. PICK i \in 1..(Len(listing[d]) + 1) : Moved(d, i)
  BY <1>5
<1>6. d \in Dirs /\ listing[d] \in Seq(Entry) /\ Len(listing[d]) \in Nat
  BY <1>1, <1>4 DEF WalkTyped, Parted
<1>7. listing' \in [Dirs -> Seq(Entry)] /\ stable' \in SUBSET Files /\ shrunk' \in BOOLEAN
  <2>1. CASE i <= Len(listing[d]) /\ listing' = [listing EXCEPT ![d] = RemoveAt(@, i)]
             /\ stable' = stable \ {listing[d][i]} /\ shrunk' = TRUE
    <3>1. RemoveAt(listing[d], i) \in Seq(Entry)
      BY <1>6, <2>1, OneTaken
    <3>2. shrunk' \in BOOLEAN
      BY <2>1
    <3> QED
      BY <1>1, <2>1, <3>1, <3>2 DEF WalkTyped, Parted
  <2>2. CASE \E f \in Files : /\ listing' = [listing EXCEPT ![d] = InsertAt(@, i, f)]
                              /\ UNCHANGED <<stable, shrunk>>
    <3>1. PICK f \in Files : /\ listing' = [listing EXCEPT ![d] = InsertAt(@, i, f)]
                             /\ UNCHANGED <<stable, shrunk>>
      BY <2>2
    <3>2. f \in Entry
      BY DEF Entry
    <3>3. InsertAt(listing[d], i, f) \in Seq(Entry)
      BY <1>6, <3>2, OnePut
    <3> QED
      BY <1>1, <3>1, <3>3 DEF WalkTyped, Parted
  <2> QED
    BY <1>i, <2>1, <2>2 DEF Moved
<1>8. WalkTyped'
  BY <1>1, <1>2, <1>3, <1>7 DEF WalkTyped, Parted
<1>9. Shape'
  BY <1>1, <1>2 DEF Shape, Parted
<1> QED
  BY <1>2, <1>8, <1>9, TypedPartsNext

LEMMA WalkStepTyped ==
  ASSUME Typed, Walk
  PROVE  Typed'
<1>1. Parted
  BY TypedParts DEF Parted
<1>2. RunTyped' /\ TransferTyped' /\ StoreTyped'
      /\ UNCHANGED <<link, file, direct, rows, listing, changes, stable, shrunk, got>>
  BY <1>1, Stays DEF Walk, run, transfer, Parted
<1>3. pc = "walk" /\ todo # <<>> /\ link \in Dirs /\ got = <<>> /\ at = "none"
  BY <1>1 DEF Walk, Shape, Parted
<1>4. Tail(todo) \in Seq(Entry) /\ Head(todo) \in Entry /\ todo' = Tail(todo)
  BY <1>1, <1>3, RangeOfTail DEF Walk, WalkTyped, Parted
<1>5. CASE Head(todo) \in Dirs
  <2>1. at' = Head(todo) /\ pc' = "list" /\ files' = files
    BY <1>5 DEF Walk
  <2>2. WalkTyped' /\ PlaceTyped' /\ FilesTyped'
    BY <1>1, <1>2, <1>4, <1>5, <2>1 DEF WalkTyped, PlaceTyped, FilesTyped, Parted
  <2>3. Shape'
    BY <1>2, <1>3, <1>5, <2>1, YadiskAssumption DEF Shape, Handling, Writing, Entry
  <2> QED
    BY <1>2, <2>2, <2>3, TypedPartsNext
<1>6. CASE Head(todo) \notin Dirs
  <2>1. UNCHANGED <<at, pc>> /\ Head(todo) \in Files
        /\ files' = (IF IsSkippable(Head(todo)) THEN files ELSE Append(files, Head(todo)))
    BY <1>4, <1>6 DEF Walk, Entry
  <2>2. files' \in Seq(Files)
    BY <1>1, <2>1, RangeOfAppend DEF FilesTyped, Parted
  <2>3. WalkTyped' /\ PlaceTyped' /\ FilesTyped'
    BY <1>1, <1>2, <1>4, <2>1, <2>2 DEF WalkTyped, PlaceTyped, FilesTyped, Parted
  <2>4. Shape'
    BY <1>2, <1>3, <2>1 DEF Shape, Handling, Writing
  <2> QED
    BY <1>2, <2>3, <2>4, TypedPartsNext
<1> QED
  BY <1>5, <1>6

LEMMA FileURLTyped ==
  ASSUME Typed, FileURL
  PROVE  Typed'
<1>1. Parted
  BY TypedParts DEF Parted
<1>2. pc = "fileurl" /\ link \in Files /\ todo = <<>> /\ at = "none"
  BY <1>1 DEF FileURL, Shape, Parted
<1>3. exists' = exists /\ disk' = disk /\ blind' = blind
  BY DEF FileURL
<1>4. PICK u \in Addresses(link) :
        IF u \in Object
        THEN /\ direct' = u /\ files' = <<link>> /\ pc' = "walk"
             /\ UNCHANGED <<run, walk, file, attempt, total, declared, written, parts,
                            rows, refused>>
        ELSE /\ LinkFails({"resolve"})
             /\ refused' = (IF ShouldUseHLSFallback(link, u) THEN refused \cup {link}
                                                             ELSE refused)
  BY DEF FileURL
<1>5. CASE u \in Object
  <2>1. /\ direct' = u /\ files' = <<link>> /\ pc' = "walk"
        /\ UNCHANGED <<run, walk, file, attempt, total, declared, written, parts, rows, refused>>
    BY <1>4, <1>5
  <2>2. RunTyped' /\ WalkTyped' /\ at' = at /\ got' = got /\ todo' = todo /\ link' = link
    BY <1>1, <2>1, Stays DEF Parted, run
  <2>3. <<link>> \in Seq(Files)
    BY <1>2
  <2>4. FilesTyped' /\ PlaceTyped'
    BY <1>1, <2>1, <2>3 DEF FilesTyped, PlaceTyped, Parted
  <2>5. TransferTyped'
    BY <1>1, <1>5, <2>1 DEF TransferTyped, Parted
  <2>6. StoreTyped'
    BY <1>1, <1>3, <2>1 DEF StoreTyped, Parted
  <2>7. got = <<>>
    BY <1>1, <1>2 DEF Shape, Parted
  <2>8. Shape'
    BY <1>1, <1>2, <2>1, <2>2, <2>7 DEF Shape, Handling, Writing, Parted
  <2> QED
    BY <2>2, <2>4, <2>5, <2>6, <2>8, TypedPartsNext
<1>6. CASE u \notin Object
  <2>1. LinkFails({"resolve"})
        /\ refused' = (IF ShouldUseHLSFallback(link, u) THEN refused \cup {link} ELSE refused)
    BY <1>4, <1>6
  <2>2. refused' \in SUBSET Videos
    BY <1>1, <2>1 DEF StoreTyped, ShouldUseHLSFallback, Parted
  <2>3. StoreTyped'
    BY <1>1, <1>3, <2>2 DEF StoreTyped, Parted
  <2> QED
    BY <2>1, <2>3, LinkFailsKeeps
<1> QED
  BY <1>5, <1>6

LEMMA ResolvedTyped ==
  ASSUME Typed, Resolved
  PROVE  Typed'
<1>1. Parted
  BY TypedParts DEF Parted
<1>2. pc = "walk" /\ todo = <<>> /\ StoreTyped'
  BY StoreStays DEF Resolved
<1>3. Filtered(files) \in Seq(Wanted)
  BY <1>1, FilteredTyped DEF FilesTyped, Parted
<1>4. CASE LinkFails({"resolve"})
  BY <1>2, <1>4, LinkFailsKeeps
<1>5. CASE /\ Idle /\ NoWalk /\ rows' = rows \ {"resolve"} /\ files' = <<>> /\ pc' = "loop"
           /\ UNCHANGED <<run, file>>
  <2>1. RunTyped' /\ TransferTyped' /\ link' = link
    BY <1>1, <1>5, Stays, IdleTyped DEF Parted, run
  <2>2. WalkTyped' /\ at' = "none" /\ got' = <<>> /\ todo' = <<>>
    BY <1>1, <1>5, NoWalkTyped DEF Parted
  <2>3. FilesTyped' /\ PlaceTyped'
    BY <1>1, <1>5 DEF FilesTyped, PlaceTyped, Parted
  <2>4. Shape'
    BY <1>5, <2>2 DEF Shape, Handling, Writing
  <2> QED
    BY <1>2, <2>1, <2>2, <2>3, <2>4, TypedPartsNext
<1>6. CASE /\ NoWalk /\ rows' = (rows \ {"resolve"}) \cup {"link"}
           /\ files' = Filtered(files) /\ pc' = "item" /\ UNCHANGED <<run, file, transfer>>
  <2>1. RunTyped' /\ TransferTyped'
    BY <1>1, <1>6, Stays DEF Parted
  <2>2. WalkTyped' /\ at' = "none" /\ got' = <<>> /\ todo' = <<>>
    BY <1>1, <1>6, NoWalkTyped DEF Parted
  <2>3. files' \in Seq(Wanted) /\ files' \in Seq(Files)
    BY <1>3, <1>6 DEF Wanted
  <2>4. FilesTyped' /\ PlaceTyped'
    BY <1>1, <1>6, <2>3 DEF FilesTyped, PlaceTyped, Parted
  <2>5. Shape'
    BY <1>6, <2>2, <2>3 DEF Shape, Handling, Writing
  <2> QED
    BY <1>2, <2>1, <2>2, <2>4, <2>5, TypedPartsNext
<1> QED
  BY <1>4, <1>5, <1>6 DEF Resolved

LEMMA ItemTyped ==
  ASSUME Typed, LinkDone \/ DirFails \/ SkipExisting \/ BeginFile
  PROVE  Typed'
<1>1. Parted
  BY TypedParts DEF Parted
<1>2. pc = "item" /\ StoreTyped' /\ files \in Seq(Wanted) /\ files \in Seq(Files)
  BY <1>1, StoreStays DEF LinkDone, DirFails, SkipExisting, BeginFile, Shape, FilesTyped, Parted
<1>3. CASE LinkDone
  <2>1. /\ rows' = rows \ {"link"} /\ pc' = "loop" /\ file' = "none" /\ Idle
        /\ UNCHANGED <<run, walk, files>>
    BY <1>3 DEF LinkDone
  <2>2. RunTyped' /\ WalkTyped' /\ TransferTyped' /\ at' = at /\ got' = got /\ todo' = todo
    BY <1>1, <2>1, Stays, IdleTyped DEF Parted
  <2>3. FilesTyped' /\ PlaceTyped'
    BY <1>1, <2>1 DEF FilesTyped, PlaceTyped, Parted
  <2>4. Shape'
    BY <1>1, <1>2, <2>1, <2>2 DEF Shape, Handling, Writing, Parted
  <2> QED
    BY <1>2, <2>2, <2>3, <2>4, TypedPartsNext
<1>4. CASE DirFails
  BY <1>2, <1>4, LinkFailsKeeps DEF DirFails
<1>5. CASE SkipExisting \/ BeginFile
  <2>1. /\ files # <<>> /\ files' = Tail(files) /\ UNCHANGED <<run, walk, transfer>>
    BY <1>5 DEF SkipExisting, BeginFile
  <2>2. RunTyped' /\ WalkTyped' /\ TransferTyped' /\ at' = at /\ got' = got /\ todo' = todo
        /\ direct' = direct
    BY <1>1, <2>1, Stays DEF Parted
  <2>3. Tail(files) \in Seq(Wanted) /\ Head(files) \in Wanted /\ Tail(files) \in Seq(Files)
    BY <1>2, <2>1, RangeOfTail
  <2>4. CASE SkipExisting
    <3>1. file' = file /\ pc' = pc /\ rows' = rows
      BY <2>4 DEF SkipExisting
    <3>2. FilesTyped' /\ PlaceTyped'
      BY <1>1, <2>1, <2>3, <3>1 DEF FilesTyped, PlaceTyped, Parted
    <3>3. Shape'
      BY <1>1, <1>2, <2>1, <2>2, <2>3, <3>1 DEF Shape, Handling, Writing, Parted
    <3> QED
      BY <1>2, <2>2, <3>2, <3>3, TypedPartsNext
  <2>5. CASE BeginFile
    <3>1. file' = Head(files) /\ rows' = rows \cup {"file"}
          /\ pc' = (IF direct # "none" THEN "open" ELSE "url")
      BY <2>5 DEF BeginFile
    <3>2. FilesTyped' /\ PlaceTyped'
      BY <1>1, <2>1, <2>3, <3>1 DEF FilesTyped, PlaceTyped, Wanted, Parted
    <3>3. direct # "none" => direct \in Object
      BY <1>1 DEF TransferTyped, Parted
    <3>4. Shape'
      BY <1>1, <1>2, <2>1, <2>2, <2>3, <3>1, <3>3 DEF Shape, Handling, Writing, Parted
    <3> QED
      BY <1>2, <2>2, <3>2, <3>4, TypedPartsNext
  <2> QED
    BY <1>5, <2>4, <2>5
<1> QED
  BY <1>3, <1>4, <1>5

(* The address, and a new attempt.                                         *)
LEMMA AddressTyped ==
  ASSUME Typed, FindURL \/ NoStreams \/ OpenFails \/ Refresh
  PROVE  Typed'
<1>1. Parted
  BY TypedParts DEF Parted
<1>2. pc \in Handling /\ StoreTyped'
  BY StoreStays DEF FindURL, NoStreams, OpenFails, Refresh, Handling
<1>3. ASSUME LinkFails({"file", "link"}) PROVE Typed'
  BY <1>2, <1>3, LinkFailsKeeps
<1>4. CASE NoStreams
  BY <1>3, <1>4 DEF NoStreams, FileFails
<1>5. CASE OpenFails
  BY <1>2, <1>5, AttemptFailsTyped, TypedPartsNext DEF OpenFails
<1>6. ASSUME NEW u \in Object, direct' = u, pc' = "open", attempt' \in {1, 2},
             UNCHANGED <<run, walk, files, file, total, declared, written, parts, rows>>
      PROVE  Typed'
  <2>1. RunTyped' /\ WalkTyped' /\ at' = at /\ got' = got /\ todo' = todo
    BY <1>1, <1>6, Stays DEF Parted
  <2>2. FilesTyped' /\ PlaceTyped'
    BY <1>1, <1>6 DEF FilesTyped, PlaceTyped, Parted
  <2>3. TransferTyped'
    BY <1>1, <1>6 DEF TransferTyped, Parted
  <2>4. Shape'
    BY <1>1, <1>2, <1>6, <2>1 DEF Shape, Handling, Writing, Parted
  <2> QED
    BY <1>2, <2>1, <2>2, <2>3, <2>4, TypedPartsNext
<1>7. CASE FindURL
  <2>1. PICK u \in Addresses(file) :
          \/ /\ u \in Object /\ direct' = u /\ pc' = "open"
             /\ UNCHANGED <<run, walk, files, file, attempt, total, declared, written,
                            parts, rows>>
          \/ /\ ShouldUseHLSFallback(file, u) /\ pc' = "hls"
             /\ UNCHANGED <<run, walk, files, file, transfer, rows>>
          \/ u \notin Object /\ ~ShouldUseHLSFallback(file, u) /\ FileFails
    BY <1>7 DEF FindURL
  <2>2. CASE /\ u \in Object /\ direct' = u /\ pc' = "open"
             /\ UNCHANGED <<run, walk, files, file, attempt, total, declared, written,
                            parts, rows>>
    <3>1. attempt' \in {1, 2}
      BY <1>1, <2>2 DEF TransferTyped, Parted
    <3> QED
      BY <1>6, <2>2, <3>1
  <2>3. CASE pc' = "hls" /\ UNCHANGED <<run, walk, files, file, transfer, rows>>
    <3>1. RunTyped' /\ WalkTyped' /\ TransferTyped' /\ at' = at /\ got' = got /\ todo' = todo
      BY <1>1, <2>3, Stays DEF Parted
    <3>2. FilesTyped' /\ PlaceTyped'
      BY <1>1, <2>3 DEF FilesTyped, PlaceTyped, Parted
    <3>3. Shape'
      BY <1>1, <1>2, <2>3, <3>1 DEF Shape, Handling, Writing, Parted
    <3> QED
      BY <1>2, <3>1, <3>2, <3>3, TypedPartsNext
  <2>4. CASE FileFails
    BY <1>3, <2>4 DEF FileFails
  <2> QED
    BY <2>1, <2>2, <2>3, <2>4
<1>8. CASE Refresh
  <2>1. PICK u \in Addresses(file) :
          IF u \in Object
          THEN /\ direct' = u /\ attempt' = Again /\ pc' = "open"
               /\ UNCHANGED <<run, walk, files, file, total, declared, written, parts,
                              rows>>
          ELSE FileFails
    BY <1>8 DEF Refresh
  <2>2. CASE u \in Object
    <3>1. /\ direct' = u /\ attempt' \in {1, 2} /\ pc' = "open"
          /\ UNCHANGED <<run, walk, files, file, total, declared, written, parts, rows>>
      BY <2>1, <2>2 DEF Again
    <3> QED
      BY <1>6, <2>2, <3>1
  <2>3. CASE u \notin Object
    BY <1>3, <2>1, <2>3 DEF FileFails
  <2> QED
    BY <2>2, <2>3
<1> QED
  BY <1>4, <1>5, <1>7, <1>8

(* What a segment, whole or cut short, leaves in the target.               *)
LEMMA SegmentSaves ==
  ASSUME Typed, Content, Segment
  PROVE  \E b \in Seq(Byte) : Save(b) /\ InOrder(b, direct) /\ Within(b, written + 1)
<1> DEFINE s == disk[Target[file]]
<1>1. Parted
  BY TypedParts DEF Parted
<1>2. /\ pc = "segments" /\ direct \in Object /\ file \in Wanted
      /\ written \in Nat /\ written < Bytes[direct]
      /\ Save(Append(s, Whole(direct)[written + 1])) \/ Save(s)
  BY <1>1 DEF Segment, Shape, Writing, Handling, TransferTyped, Parted
<1>3. s \in Seq(Byte)
  BY <1>1, <1>2 DEF StoreTyped, Parted, Targets, Wanted
<1>4. InOrder(s, direct) /\ Within(s, written)
  BY <1>2 DEF Content, Within
<1> HIDE DEF s
<1>5. \A i \in 1..Len(s) : s[i] \in Byte
  BY <1>3, ElementOfSeq
<1>6. Within(s, written + 1)
  BY <1>2, <1>4, <1>5 DEF Within, Byte
<1> DEFINE t == Append(s, Whole(direct)[written + 1])
<1>7. t \in Seq(Byte) /\ InOrder(t, direct) /\ Within(t, written + 1)
  BY <1>2, <1>3, <1>4, NextInOrder
<1> QED
  BY <1>2, <1>3, <1>4, <1>6, <1>7

(* What goes into the target is bytes of an object.                        *)
LEMMA SavesBytes ==
  ASSUME Typed, Content,
         GetVideoStreams \/ Segment \/ Open \/ Copy \/ Range206Or200
  PROVE  \E b \in Seq(Byte) : Save(b)
<1>1. Parted /\ <<>> \in Seq(Byte)
  BY TypedParts DEF Parted
<1>2. CASE GetVideoStreams \/ Open
  BY <1>1, <1>2 DEF GetVideoStreams, Open
<1>3. CASE Segment
  <2>1. PICK b \in Seq(Byte) : Save(b)
    BY <1>3, SegmentSaves
  <2> QED
    BY <2>1
<1>4. CASE Copy
  <2>1. direct \in Object
    BY <1>1, <1>4 DEF Copy, Shape, Writing, Parted
  <2>2. PICK n \in 0..Bytes[direct] : Save(SubSeq(Whole(direct), 1, n))
    BY <1>4 DEF Copy
  <2>3. First(direct, n) \in Seq(Byte)
    BY <2>1, FirstIs
  <2> QED
    BY <2>2, <2>3 DEF First
<1>5. CASE Range206Or200
  <2>1. direct \in Object /\ written \in Nat /\ written <= Bytes[direct]
        /\ disk[Target[file]] = First(direct, written)
    BY <1>1, <1>5 DEF Range206Or200, Shape, Writing, TransferTyped, Content, First, Parted
  <2>2. PICK status \in {200, 206}, n \in 1..Bytes[direct] :
          LET from == Start(status)
              served == IF status = 206 THEN written ELSE 0
          IN  /\ n > served
              /\ Save(SubSeq(disk[Target[file]], 1, from)
                        \o SubSeq(Whole(direct), served + 1, n))
    BY <1>5 DEF Range206Or200
  <2>3. PICK k \in Nat : /\ k <= written /\ k <= n /\ n <= Bytes[direct] /\ n \in Nat
                         /\ Save(Continued(direct, written, k, n))
    <3>1. status = 200 => 0 \in Nat /\ 0 <= written /\ 0 <= n /\ Save(Continued(direct, written, 0, n))
      BY <2>1, <2>2 DEF Start, Continued
    <3>2. status = 206 => written <= n /\ Save(Continued(direct, written, written, n))
      BY <2>1, <2>2 DEF Start, Continued
    <3>3. n \in Nat /\ n <= Bytes[direct]
      BY <2>1, WholeIs
    <3>4. CASE status = 200
      <4>1. 0 \in Nat /\ 0 <= written /\ 0 <= n /\ Save(Continued(direct, written, 0, n))
        BY <3>1, <3>4
      <4> QED
        BY <3>3, <4>1
    <3>5. CASE status = 206
      <4>1. written <= written /\ written <= n /\ Save(Continued(direct, written, written, n))
        BY <2>1, <3>2, <3>5
      <4> QED
        BY <2>1, <3>3, <4>1
    <3> QED
      BY <3>4, <3>5
  <2>4. Continued(direct, written, k, n) = First(direct, n)
    BY <2>1, <2>3, RangeOfFirst
  <2>5. First(direct, n) \in Seq(Byte)
    BY <2>1, FirstIs
  <2> QED
    BY <2>3, <2>4, <2>5
<1> QED
  BY <1>2, <1>3, <1>4, <1>5

(* The transfer: streams, the first answer, the ranges.                    *)
LEMMA RemovedTyped ==
  ASSUME Typed, file \in Wanted, Unlink, UNCHANGED <<blind, refused>>
  PROVE  StoreTyped'
<1>1. StoreTyped
  BY TypedParts
<1>2. exists' \in SUBSET Targets /\ disk' \in [Targets -> Seq(Byte)]
  BY <1>1, UnlinkTyped
<1> QED
  BY <1>1, <1>2 DEF StoreTyped

LEMMA AcceptTyped ==
  ASSUME Typed, pc \in Handling, file \in Wanted, Accept,
         exists' \in SUBSET Targets, disk' \in [Targets -> Seq(Byte)]
  PROVE  Typed'
<1>1. StoreTyped /\ FileDone /\ refused' = refused
  BY TypedParts DEF Accept
<1>2. Target[file] \in Targets
  BY DEF Targets, Wanted
<1>3. blind' \in SUBSET Targets
  BY <1>1, <1>2 DEF Accept, StoreTyped
<1>4. StoreTyped'
  BY <1>1, <1>3 DEF StoreTyped
<1> QED
  BY <1>1, <1>4, FileDoneTyped, TypedPartsNext

LEMMA StreamTyped ==
  ASSUME Typed, Content,
         GetVideoStreams \/ Segment \/ SegmentFails \/ StreamEnds
  PROVE  Typed'
<1>1. Parted
  BY TypedParts DEF Parted
<1>2. pc \in {"hls", "segments"} /\ pc \in Handling
  BY DEF GetVideoStreams, Segment, SegmentFails, StreamEnds, Handling
<1>3. file \in Wanted /\ files \in Seq(Wanted) /\ todo = <<>> /\ at = "none" /\ got = <<>>
  BY <1>1, <1>2 DEF Shape, Parted
<1>4. CASE GetVideoStreams \/ Segment
  <2>1. PICK b \in Seq(Byte) : Save(b)
    BY <1>4, SavesBytes
  <2>2. exists' \in SUBSET Targets /\ disk' \in [Targets -> Seq(Byte)]
    BY <1>1, <1>3, <2>1, SaveTyped DEF Parted
  <2>3. UNCHANGED <<run, walk, files, file, attempt, total, declared, parts, blind, refused, rows>>
        /\ pc' = "segments"
    BY <1>4 DEF GetVideoStreams, Segment
  <2>4. StoreTyped'
    BY <1>1, <2>2, <2>3 DEF StoreTyped, Parted
  <2>5. RunTyped' /\ WalkTyped' /\ at' = at /\ got' = got /\ todo' = todo
    BY <1>1, <2>3, Stays DEF Parted
  <2>6. FilesTyped' /\ PlaceTyped'
    BY <1>1, <2>3 DEF FilesTyped, PlaceTyped, Parted
  <2>7. direct' \in Object /\ written' \in Nat
    <3>1. CASE GetVideoStreams
      BY <3>1 DEF GetVideoStreams, Object
    <3>2. CASE Segment
      BY <1>1, <3>2 DEF Segment, Shape, Writing, TransferTyped, Parted
    <3> QED
      BY <1>4, <3>1, <3>2
  <2>8. TransferTyped'
    BY <1>1, <2>3, <2>7 DEF TransferTyped, Parted
  <2>9. Shape'
    BY <1>3, <2>3, <2>5, <2>7 DEF Shape, Handling, Writing
  <2> QED
    BY <2>4, <2>5, <2>6, <2>8, <2>9, TypedPartsNext
<1>5. CASE SegmentFails
  <2>1. StoreTyped'
    BY <1>3, <1>5, RemovedTyped DEF SegmentFails
  <2> QED
    BY <1>5, <2>1, LinkFailsKeeps DEF SegmentFails, FileFails
<1>6. CASE StreamEnds
  <2>1. FileDone /\ blind' = blind \cup {Target[file]} /\ UNCHANGED <<exists, disk, refused>>
    BY <1>6 DEF StreamEnds
  <2>2. Target[file] \in Targets
    BY <1>3 DEF Targets, Wanted
  <2>3. StoreTyped'
    BY <1>1, <2>1, <2>2 DEF StoreTyped, Parted
  <2> QED
    BY <1>2, <1>3, <2>1, <2>3, FileDoneTyped, TypedPartsNext
<1> QED
  BY <1>4, <1>5, <1>6

LEMMA BrokenTyped ==
  ASSUME Typed, CopyFails \/ RangeFails
  PROVE  Typed'
<1>1. Parted
  BY TypedParts DEF Parted
<1>2. pc \in Handling /\ Unlink /\ AttemptFails /\ UNCHANGED <<blind, refused>>
  BY DEF CopyFails, RangeFails, Handling
<1>3. file \in Wanted
  BY <1>1, <1>2 DEF Shape, Parted
<1>4. StoreTyped'
  BY <1>2, <1>3, RemovedTyped
<1> QED
  BY <1>2, <1>4, AttemptFailsTyped, TypedPartsNext

LEMMA DirectTyped ==
  ASSUME Typed, Content,
         Open \/ Copy \/ Range206Or200 \/ RangeEnds
  PROVE  Typed'
<1>1. Parted
  BY TypedParts DEF Parted
<1>2. pc \in {"open", "copy", "range"} /\ pc \in Handling
  BY DEF Open, Copy, Range206Or200, RangeEnds, Handling
<1>3. file \in Wanted /\ files \in Seq(Wanted) /\ todo = <<>> /\ at = "none" /\ got = <<>>
      /\ direct \in Object /\ file \in Files
  BY <1>1, <1>2 DEF Shape, Writing, Wanted, Parted
<1>4. CASE RangeEnds
  <2>1. Accept /\ exists' = exists /\ disk' = disk
    BY <1>4 DEF RangeEnds
  <2>2. exists' \in SUBSET Targets /\ disk' \in [Targets -> Seq(Byte)]
    BY <1>1, <2>1 DEF StoreTyped, Parted
  <2> QED
    BY <1>2, <1>3, <2>1, <2>2, AcceptTyped
<1>5. ASSUME Open \/ Copy \/ Range206Or200
      PROVE  exists' \in SUBSET Targets /\ disk' \in [Targets -> Seq(Byte)]
  <2>1. PICK b \in Seq(Byte) : Save(b)
    BY <1>5, SavesBytes
  <2> QED
    BY <1>1, <1>3, <2>1, SaveTyped DEF Parted
<1>6. ASSUME exists' \in SUBSET Targets, disk' \in [Targets -> Seq(Byte)],
             UNCHANGED <<run, walk, files, file, direct, attempt, blind, refused, rows>>,
             pc' \in {"copy", "range"}, total' \in Nat, declared' \in BOOLEAN,
             written' \in Nat, parts' \in 0..MaxParts
      PROVE  Typed'
  <2>1. StoreTyped'
    BY <1>1, <1>6 DEF StoreTyped, Parted
  <2>2. RunTyped' /\ WalkTyped' /\ at' = at /\ got' = got /\ todo' = todo
    BY <1>1, <1>6, Stays DEF Parted
  <2>3. FilesTyped' /\ PlaceTyped'
    BY <1>1, <1>6 DEF FilesTyped, PlaceTyped, Parted
  <2>4. TransferTyped'
    BY <1>1, <1>6 DEF TransferTyped, Parted
  <2>5. Shape'
    BY <1>3, <1>6, <2>2 DEF Shape, Handling, Writing
  <2> QED
    BY <2>1, <2>2, <2>3, <2>4, <2>5, TypedPartsNext
<1>7. CASE Open
  <2>1. total' \in Nat
    BY <1>3, <1>7, WholeIs, YadiskAssumption DEF Open, ResolveDownloadSize
  <2>2. declared' \in BOOLEAN
    BY <1>7 DEF Open
  <2>3. 0 \in 0..MaxParts
    BY YadiskAssumption
  <2>4. /\ UNCHANGED <<run, walk, files, file, direct, attempt, blind, refused, rows>>
        /\ pc' \in {"copy", "range"} /\ written' \in Nat /\ parts' \in 0..MaxParts
    BY <1>7, <2>3 DEF Open
  <2> QED
    BY <1>5, <1>6, <1>7, <2>1, <2>2, <2>4
<1>8. CASE Copy
  <2>1. PICK n \in 0..Bytes[direct] :
          IF n < total
          THEN /\ written' = n /\ pc' = "range"
               /\ UNCHANGED <<run, walk, files, file, direct, attempt, total, declared,
                              parts, rows, blind, refused>>
          ELSE Accept
    BY <1>8 DEF Copy
  <2>2. CASE n < total
    <3>1. n \in Nat
      BY <1>3, WholeIs
    <3>2. total' = total /\ declared' = declared /\ parts' = parts /\ written' = n
          /\ UNCHANGED <<run, walk, files, file, direct, attempt, blind, refused, rows>>
          /\ pc' \in {"copy", "range"}
      BY <2>1, <2>2
    <3>3. total' \in Nat /\ parts' \in 0..MaxParts /\ written' \in Nat
      BY <1>1, <3>1, <3>2 DEF TransferTyped, Parted
    <3>4. declared' \in BOOLEAN
      BY <1>1, <3>2 DEF TransferTyped, Parted
    <3> QED
      BY <1>5, <1>6, <1>8, <3>2, <3>3, <3>4
  <2>3. CASE ~(n < total)
    BY <1>2, <1>3, <1>5, <1>8, <2>1, <2>3, AcceptTyped
  <2> QED
    BY <2>2, <2>3
<1>9. CASE Range206Or200
  <2>1. /\ UNCHANGED <<run, walk, files, file, direct, attempt, total, declared, blind,
                       refused, rows, pc>>
        /\ parts' = parts + 1 /\ parts < MaxParts /\ pc = "range"
    BY <1>9 DEF Range206Or200, PartsLeft
  <2>2. PICK status \in {200, 206}, n \in 1..Bytes[direct] :
          LET served == IF status = 206 THEN written ELSE 0
          IN  n > served /\ written' = Start(status) + (n - served)
    BY <1>9 DEF Range206Or200
  <2>3. written \in Nat /\ parts \in Nat /\ Bytes[direct] \in Nat
    BY <1>1, <1>3, WholeIs DEF TransferTyped, Parted
  <2>4. written' \in Nat
    BY <2>2, <2>3 DEF Start
  <2>5. parts' \in 0..MaxParts
    BY <2>1, <2>3, YadiskAssumption
  <2>6. total' \in Nat /\ pc' \in {"copy", "range"}
    BY <1>1, <2>1 DEF TransferTyped, Parted
  <2>7. declared' \in BOOLEAN
    BY <1>1, <2>1 DEF TransferTyped, Parted
  <2> QED
    BY <1>5, <1>6, <1>9, <2>1, <2>4, <2>5, <2>6, <2>7
<1> QED
  BY <1>4, <1>7, <1>8, <1>9

LEMMA InitTyped ==
  ASSUME Init
  PROVE  Typed /\ Content
<1>1. RunTyped
  BY OfferedTyped DEF Init, RunTyped
<1>2. WalkTyped
  <2>1. shrunk \in BOOLEAN
    BY DEF Init
  <2>2. listing \in [Dirs -> Seq(Entry)] /\ changes \in 0..MaxChanges
    BY YadiskAssumption DEF Init
  <2> QED
    BY <2>1, <2>2 DEF Init, WalkTyped
<1>3. FilesTyped /\ PlaceTyped
  BY DEF Init, FilesTyped, PlaceTyped
<1>4. TransferTyped
  <2>1. declared \in BOOLEAN
    BY DEF Init
  <2>2. parts \in 0..MaxParts
    BY YadiskAssumption DEF Init
  <2> QED
    BY <2>1, <2>2 DEF Init, TransferTyped
<1>5. "old" \in Object
  BY DEF Object
<1>6. StoreTyped
  BY <1>5, WholeIs DEF Init, StoreTyped
<1>7. Shape
  BY DEF Init, Shape, Handling, Writing
<1>8. Content
  <2>1. pc = "loop"
    BY DEF Init
  <2>2. ASSUME NEW t \in exists PROVE Settled(t)
    <3>1. disk[t] = Whole("old")
      BY <2>2 DEF Init
    <3> QED
      BY <1>5, <3>1, WholeInOrder DEF Settled
  <2> QED
    BY <2>1, <2>2 DEF Content
<1> QED
  BY <1>1, <1>2, <1>3, <1>4, <1>6, <1>7, <1>8, TypedParts

-----------------------------------------------------------------------------
(* The content of the targets: what a step leaves alone stays whole.       *)
LEMMA StoreKept ==
  ASSUME Typed, Content, UNCHANGED <<exists, disk, blind>>, pc \notin Writing, pc' \notin Writing
  PROVE  Content'
<1>1. \A t \in exists : Settled(t)
  BY DEF Content
<1>2. \A t \in exists' : Settled(t)'
  BY <1>1 DEF Settled
<1> QED
  BY <1>2 DEF Content, Writing

LEMMA NothingOpened ==
  ASSUME Typed, Content, UNCHANGED <<exists, disk, blind>>,
         \/ Cancel \/ HistoryEnds \/ Change \/ LoopCancelled \/ LoopEnds \/ TakeLink \/ Meta
         \/ ListPage \/ ListFails \/ Walk \/ FileURL \/ Resolved
         \/ LinkDone \/ DirFails \/ SkipExisting \/ BeginFile
         \/ FindURL \/ NoStreams \/ OpenFails \/ Refresh
  PROVE  Content'
<1>1. CASE Cancel \/ HistoryEnds \/ Change
  <2>1. UNCHANGED <<pc, file, written, direct>>
    BY <1>1 DEF Cancel, HistoryEnds, Change, transfer
  <2> QED
    BY <2>1 DEF Content, Settled
<1>2. CASE ~(Cancel \/ HistoryEnds \/ Change)
  <2>1. pc \notin Writing
    BY <1>2 DEF LoopCancelled, LoopEnds, TakeLink, Meta, ListPage, ListFails, Walk, FileURL,
                Resolved, LinkDone, DirFails, SkipExisting, BeginFile, FindURL, NoStreams,
                OpenFails, Refresh, Writing
  <2>2. pc' \notin Writing
    <3>1. CASE LoopCancelled \/ LoopEnds \/ TakeLink \/ Meta \/ ListPage \/ ListFails \/ Walk
      BY <2>1, <3>1 DEF LoopCancelled, LoopEnds, TakeLink, Meta, ListPage, ListFails, Walk,
                        LinkFails, Writing
    <3>2. CASE FileURL \/ Resolved \/ LinkDone \/ DirFails \/ SkipExisting \/ BeginFile
      BY <2>1, <3>2 DEF FileURL, Resolved, LinkDone, DirFails, SkipExisting, BeginFile,
                        LinkFails, Writing
    <3>3. CASE FindURL \/ NoStreams \/ OpenFails \/ Refresh
      BY <2>1, <3>3 DEF FindURL, NoStreams, OpenFails, Refresh, AttemptFails, FileFails,
                        LinkFails, Writing
    <3> QED
      BY <1>2, <3>1, <3>2, <3>3
  <2> QED
    BY <2>1, <2>2, StoreKept
<1> QED
  BY <1>1, <1>2

(* A target that is removed is not there.                                  *)
LEMMA RemovedKeeps ==
  ASSUME Typed, Content, pc \in Handling, Unlink, blind' = blind, pc' \notin Writing
  PROVE  Content'
<1>1. StoreTyped /\ file \in Wanted /\ Target[file] \in Targets
  BY TypedParts DEF Shape, Targets, Wanted
<1>2. ASSUME NEW t \in exists' PROVE Settled(t)'
  <2>1. t # Target[file] /\ t \in exists /\ t \in Targets
    BY <1>1 DEF Unlink, StoreTyped
  <2>2. Settled(t)
    BY <2>1 DEF Content
  <2>3. disk'[t] = disk[t]
    BY <1>1, <2>1 DEF Unlink, StoreTyped
  <2> QED
    BY <2>2, <2>3 DEF Settled
<1> QED
  BY <1>2 DEF Content, Writing

(* While a target is written, the others stay as they are.                 *)
LEMMA OthersKept ==
  ASSUME Typed, Content, pc \in Handling, NEW b, Save(b), blind' = blind,
         NEW t \in exists', t # Target[file]
  PROVE  Settled(t)'
<1>1. StoreTyped /\ file \in Wanted /\ Target[file] \in Targets
  BY TypedParts DEF Shape, Targets, Wanted
<1>2. t \in exists /\ t \in Targets
  BY <1>1 DEF Save, StoreTyped
<1>3. Settled(t)
  BY <1>2 DEF Content
<1>4. disk'[t] = disk[t]
  BY <1>1, <1>2 DEF Save, StoreTyped
<1> QED
  BY <1>3, <1>4 DEF Settled

LEMMA SavedAt ==
  ASSUME StoreTyped, Target[file] \in Targets, NEW b, Save(b)
  PROVE  disk'[Target[file]] = b
  BY DEF Save, StoreTyped

LEMMA WriterAt ==
  ASSUME Typed, pc \in Handling
  PROVE  StoreTyped /\ file \in Wanted /\ Target[file] \in Targets
  BY TypedParts DEF Shape, Targets, Wanted

LEMMA WriterKeeps ==
  ASSUME Typed, Content, pc \in Handling,
         NEW o \in Object, NEW n \in 0..Bytes[o], Save(First(o, n)),
         blind' = blind, file' = file, direct' = o, written' = n, pc' \in {"copy", "range"}
  PROVE  Content'
<1>1. \A t \in exists' : Settled(t)' \/ t = Target[file']
  BY OthersKept
<1>2. disk'[Target[file']] = First(o, n)
  BY WriterAt, SavedAt
<1>3. n <= Bytes[o]
  BY WholeIs
<1> QED
  BY <1>1, <1>2, <1>3 DEF Content, First, Writing

LEMMA StreamKeeps ==
  ASSUME Typed, Content, pc \in Handling,
         NEW o \in Object, NEW n \in 0..Bytes[o], NEW b, Save(b), InOrder(b, o), Within(b, n),
         blind' = blind, file' = file, direct' = o, written' = n, pc' = "segments"
  PROVE  Content'
<1>1. \A t \in exists' : Settled(t)' \/ t = Target[file']
  BY OthersKept
<1>2. disk'[Target[file']] = b
  BY WriterAt, SavedAt
<1>3. n <= Bytes[o]
  BY WholeIs
<1> QED
  BY <1>1, <1>2, <1>3 DEF Content, Within, Writing

LEMMA WritingKeeps ==
  ASSUME Typed, Content, GetVideoStreams \/ Segment \/ Open \/ Range206Or200
  PROVE  Content'
<1>1. TransferTyped /\ Shape
  BY TypedParts
<1>2. CASE GetVideoStreams
  <2>1. /\ Save(<<>>) /\ direct' = "stream" /\ written' = 0 /\ pc' = "segments" /\ pc = "hls"
        /\ UNCHANGED <<file, blind>>
    BY <1>2 DEF GetVideoStreams
  <2>2. "stream" \in Object
    BY DEF Object
  <2>3. 0 \in 0..Bytes["stream"]
    BY <2>2, WholeIs
  <2>4. InOrder(<<>>, "stream") /\ Within(<<>>, 0)
    BY NoneInOrder DEF Within
  <2> QED
    BY <2>1, <2>2, <2>3, <2>4, StreamKeeps DEF Handling
<1>3. CASE Segment
  <2>1. /\ direct \in Object /\ written \in Nat /\ written < Bytes[direct] /\ pc = "segments"
        /\ pc' = pc /\ written' = written + 1 /\ UNCHANGED <<file, direct, blind>>
    BY <1>1, <1>3 DEF Segment, Shape, Writing, TransferTyped
  <2>2. written + 1 \in 0..Bytes[direct]
    BY <2>1, WholeIs
  <2>3. PICK b \in Seq(Byte) : Save(b) /\ InOrder(b, direct) /\ Within(b, written + 1)
    BY <1>3, SegmentSaves
  <2> QED
    BY <2>1, <2>2, <2>3, StreamKeeps DEF Handling
<1>4. CASE Open
  <2>1. /\ Save(<<>>) /\ pc' = "copy" /\ pc = "open" /\ UNCHANGED <<file, direct, blind>>
        /\ written' = 0 /\ direct \in Object
    BY <1>1, <1>4 DEF Open, Shape
  <2>2. 0 \in 0..Bytes[direct] /\ First(direct, 0) = <<>>
    BY <2>1, WholeIs, FirstOfNone
  <2> QED
    BY <2>1, <2>2, WriterKeeps DEF Handling, Writing
<1>5. CASE Range206Or200
  <2>1. /\ direct \in Object /\ written \in Nat /\ written <= Bytes[direct] /\ pc = "range"
        /\ pc' = pc /\ UNCHANGED <<file, direct, blind>>
        /\ disk[Target[file]] = First(direct, written)
    BY <1>1, <1>5 DEF Range206Or200, Shape, Writing, TransferTyped, Content, First
  <2>2. PICK status \in {200, 206}, n \in 1..Bytes[direct] :
          LET from == Start(status)
              served == IF status = 206 THEN written ELSE 0
          IN  /\ n > served
              /\ Save(SubSeq(disk[Target[file]], 1, from)
                        \o SubSeq(Whole(direct), served + 1, n))
              /\ written' = from + (n - served)
    BY <1>5 DEF Range206Or200
  <2>3. n \in Nat /\ n <= Bytes[direct] /\ n \in 0..Bytes[direct]
    BY <2>1, WholeIs
  <2>4. CASE status = 200
    <3>1. Save(Continued(direct, written, 0, n)) /\ written' = n
      BY <2>1, <2>2, <2>3, <2>4 DEF Start, Continued
    <3>2. 0 \in Nat /\ 0 <= written /\ 0 <= n
      BY <2>1, <2>3
    <3>3. Continued(direct, written, 0, n) = First(direct, n)
      <4>1. PICK k \in Nat : k = 0
        OBVIOUS
      <4>2. k <= written /\ k <= n
        BY <3>2, <4>1
      <4>3. Continued(direct, written, k, n) = First(direct, n)
        BY <2>1, <2>3, <4>2, RangeOfFirst
      <4> QED
        BY <4>1, <4>3
    <3>4. Save(First(direct, n))
      BY <3>1, <3>3
    <3> QED
      BY <2>1, <2>3, <3>1, <3>4, WriterKeeps DEF Handling, Writing
  <2>5. CASE status = 206
    <3>1. Save(Continued(direct, written, written, n)) /\ written' = n /\ written <= n
      BY <2>1, <2>2, <2>3, <2>5 DEF Start, Continued
    <3>2. Save(First(direct, n))
      BY <2>1, <2>3, <3>1, RangeOfFirst
    <3> QED
      BY <2>1, <2>3, <3>1, <3>2, WriterKeeps DEF Handling, Writing
  <2> QED
    BY <2>4, <2>5
<1> QED
  BY <1>2, <1>3, <1>4, <1>5

(* What is accepted is the whole, or blind.                                *)
LEMMA AcceptedKeeps ==
  ASSUME Typed, Content, pc \in Writing,
         NEW o \in Object, InOrder(disk'[Target[file]], o),
         Target[file] \notin blind' => disk'[Target[file]] = Whole(o),
         \A t \in exists' : t # Target[file] => Settled(t)',
         pc' \notin Writing
  PROVE  Content'
<1>1. \A t \in exists' : Settled(t)'
  BY DEF Settled
<1> QED
  BY <1>1 DEF Content, Writing

LEMMA AcceptKeeps ==
  ASSUME Typed, Content, Copy \/ RangeEnds \/ StreamEnds
  PROVE  Content'
<1>1. pc \in Writing /\ pc \in Handling
  BY DEF Copy, RangeEnds, StreamEnds, Writing, Handling
<1>2. TransferTyped /\ Shape /\ direct \in Object /\ Bytes[direct] \in Nat /\ total \in Nat
  BY <1>1, TypedParts, WholeIs DEF Shape, TransferTyped
<1>3. StoreTyped /\ Target[file] \in Targets
  BY <1>1, WriterAt
<1>4. CASE Copy
  <2>1. PICK n \in 0..Bytes[direct] :
          /\ Save(First(direct, n))
          /\ IF n < total
             THEN /\ written' = n /\ pc' = "range"
                  /\ UNCHANGED <<run, walk, files, file, direct, attempt, total, declared,
                                 parts, rows, blind, refused>>
             ELSE Accept
    BY <1>4 DEF Copy, First
  <2>2. CASE n < total
    <3>1. written' = n /\ pc' \in {"copy", "range"} /\ UNCHANGED <<file, direct, blind>>
      BY <2>1, <2>2
    <3> QED
      BY <1>1, <1>2, <2>1, <3>1, WriterKeeps
  <2>3. CASE ~(n < total)
    <3>1. /\ blind' = (IF total < Bytes[direct] THEN blind \cup {Target[file]}
                                               ELSE blind \ {Target[file]})
          /\ pc' \notin Writing
      BY <2>1, <2>3 DEF Accept, FileDone, Writing
    <3>2. disk'[Target[file]] = First(direct, n)
      BY <1>3, <2>1, SavedAt
    <3>3. ASSUME Target[file] \notin blind' PROVE disk'[Target[file]] = Whole(direct)
      <4>1. ~(total < Bytes[direct])
        BY <3>1, <3>3
      <4>2. n = Bytes[direct]
        BY <1>2, <2>3, <4>1
      <4> QED
        BY <1>2, <3>2, <4>2, FirstIsWhole
    <3>4. ASSUME NEW t \in exists', t # Target[file] PROVE Settled(t)'
      <4>1. t \in exists /\ disk'[t] = disk[t] /\ (t \in blind <=> t \in blind')
        <5>1. t \in exists /\ t \in Targets
          BY <1>3, <2>1, <3>4 DEF Save, StoreTyped
        <5> QED
          BY <1>3, <2>1, <3>1, <3>4, <5>1 DEF Save, StoreTyped
      <4>2. Settled(t)
        BY <3>4, <4>1 DEF Content
      <4> QED
        BY <4>1, <4>2 DEF Settled
    <3>5. InOrder(disk'[Target[file]], direct)
      BY <1>2, <3>2, FirstInOrder
    <3> QED
      BY <1>1, <1>2, <3>1, <3>3, <3>4, <3>5, AcceptedKeeps
  <2> QED
    BY <2>2, <2>3
<1>5. CASE RangeEnds \/ StreamEnds
  <2>1. exists' = exists /\ disk' = disk /\ pc' \notin Writing /\ pc \in {"range", "segments"}
    BY <1>5 DEF RangeEnds, StreamEnds, Accept, FileDone, Writing
  <2>2. blind \ {Target[file]} \subseteq blind' /\ blind' \subseteq blind \cup {Target[file]}
        /\ ((pc = "range" /\ written = Bytes[direct]) \/ Target[file] \in blind')
    <3>1. CASE StreamEnds
      BY <3>1 DEF StreamEnds
    <3>2. CASE RangeEnds
      <4>1. written >= total /\ written \in Nat /\ written <= Bytes[direct] /\ pc = "range"
        BY <1>2, <2>1, <3>2 DEF RangeEnds, Content, TransferTyped
      <4>2. CASE total < Bytes[direct]
        BY <3>2, <4>2 DEF RangeEnds, Accept
      <4>3. CASE ~(total < Bytes[direct])
        <5>1. written = Bytes[direct]
          BY <1>2, <4>1, <4>3
        <5> QED
          BY <3>2, <4>1, <4>3, <5>1 DEF RangeEnds, Accept
      <4> QED
        BY <4>2, <4>3
    <3> QED
      BY <1>5, <3>1, <3>2
  <2>3. pc = "range" =>
          disk[Target[file]] = First(direct, written) /\ written \in 0..Bytes[direct]
    BY <1>2 DEF Content, First, TransferTyped
  <2>4. Target[file] \notin blind' => disk'[Target[file]] = Whole(direct)
    BY <1>2, <2>1, <2>2, <2>3, FirstIsWhole
  <2>5. InOrder(disk'[Target[file]], direct)
    <3>1. CASE pc = "range"
      BY <1>2, <2>1, <2>3, <3>1, FirstInOrder
    <3>2. CASE pc = "segments"
      BY <2>1, <3>2 DEF Content
    <3> QED
      BY <2>1, <3>1, <3>2
  <2>6. ASSUME NEW t \in exists', t # Target[file] PROVE Settled(t)'
    <3>1. t \in exists /\ (t \in blind <=> t \in blind')
      BY <2>1, <2>2, <2>6
    <3>2. Settled(t)
      BY <2>6, <3>1 DEF Content
    <3> QED
      BY <2>1, <3>1, <3>2 DEF Settled
  <2> QED
    BY <1>1, <1>2, <2>1, <2>4, <2>5, <2>6, AcceptedKeeps
<1> QED
  BY <1>4, <1>5

-----------------------------------------------------------------------------
(* The inductive invariant, without the search of a folder.                *)
StoreSteps ==
  \/ GetVideoStreams \/ Segment \/ SegmentFails \/ StreamEnds
  \/ Open \/ Copy \/ CopyFails \/ Range206Or200 \/ RangeEnds \/ RangeFails

LEMMA ContentKept ==
  ASSUME Typed, Content, Next
  PROVE  Content'
<1>1. CASE SegmentFails \/ CopyFails \/ RangeFails
  <2>1. pc \in Handling /\ Unlink /\ blind' = blind
    BY <1>1 DEF SegmentFails, CopyFails, RangeFails, Handling
  <2>2. pc' \notin Writing
    BY <1>1 DEF SegmentFails, CopyFails, RangeFails, FileFails, AttemptFails, LinkFails, Writing
  <2> QED
    BY <2>1, <2>2, RemovedKeeps
<1>2. CASE Copy \/ RangeEnds \/ StreamEnds
  BY <1>2, AcceptKeeps
<1>3. CASE GetVideoStreams \/ Segment \/ Open \/ Range206Or200
  BY <1>3, WritingKeeps
<1>4. CASE ~StoreSteps
  <2>1. \/ Cancel \/ HistoryEnds \/ Change \/ LoopCancelled \/ LoopEnds \/ TakeLink \/ Meta
        \/ ListPage \/ ListFails \/ Walk \/ FileURL \/ Resolved
        \/ LinkDone \/ DirFails \/ SkipExisting \/ BeginFile
        \/ FindURL \/ NoStreams \/ OpenFails \/ Refresh
    BY <1>4 DEF Next, Download, StoreSteps
  <2>2. UNCHANGED <<exists, disk, blind>>
    BY <2>1 DEF Cancel, HistoryEnds, Change, LoopCancelled, LoopEnds, TakeLink, Meta,
                ListPage, ListFails, Walk, FileURL, Resolved, LinkDone, DirFails,
                SkipExisting, BeginFile, FindURL, NoStreams, OpenFails, Refresh, store
  <2> QED
    BY <2>1, <2>2, NothingOpened
<1> QED
  BY <1>1, <1>2, <1>3, <1>4 DEF StoreSteps

LEMMA TypedKept ==
  ASSUME Typed, Content, Next
  PROVE  Typed'
<1>1. CASE Cancel \/ HistoryEnds \/ LoopCancelled \/ LoopEnds \/ TakeLink
  BY <1>1, LoopTyped
<1>2. CASE Change \/ Meta \/ ListPage \/ ListFails \/ Walk \/ FileURL \/ Resolved
  BY <1>2, ChangeTyped, MetaTyped, ListPageTyped, ListFailsTyped, WalkStepTyped,
     FileURLTyped, ResolvedTyped
<1>3. CASE LinkDone \/ DirFails \/ SkipExisting \/ BeginFile
  BY <1>3, ItemTyped
<1>4. CASE FindURL \/ NoStreams \/ OpenFails \/ Refresh
  BY <1>4, AddressTyped
<1>5. CASE GetVideoStreams \/ Segment \/ SegmentFails \/ StreamEnds
  BY <1>5, StreamTyped
<1>6. CASE Open \/ Copy \/ Range206Or200 \/ RangeEnds
  BY <1>6, DirectTyped
<1>7. CASE CopyFails \/ RangeFails
  BY <1>7, BrokenTyped
<1> QED
  BY <1>1, <1>2, <1>3, <1>4, <1>5, <1>6, <1>7 DEF Next, Download

LEMMA NothingHappens ==
  ASSUME Typed, Content, UNCHANGED vars
  PROVE  Typed' /\ Content'
<1>1. UNCHANGED <<run, walk, transfer, store, files, file, rows, pc>>
  BY DEF vars
<1>2. RunTyped' /\ WalkTyped' /\ FilesTyped' /\ TransferTyped' /\ StoreTyped' /\ PlaceTyped'
  BY <1>1, TypedParts, Stays
<1>3. UNCHANGED <<at, link, todo, got, pc, files, file, direct, exists, blind, disk, written>>
  BY <1>1 DEF run, walk, transfer, store
<1>4. Shape'
  BY <1>3, TypedParts DEF Shape
<1>5. Content'
  BY <1>3 DEF Content, Settled
<1> QED
  BY <1>2, <1>4, <1>5, TypedPartsNext

THEOREM TypedAlways == Spec => [](Typed /\ Content)
<1>1. Init => Typed /\ Content
  BY InitTyped
<1>2. Typed /\ Content /\ [Next]_vars => (Typed /\ Content)'
  BY TypedKept, ContentKept, NothingHappens
<1> QED
  BY <1>1, <1>2, PTL DEF Spec

-----------------------------------------------------------------------------
(* The search of a folder.  A directory that is opened leads to its files, *)
(* or to a directory that it names and that leads to them.                 *)
Standing == \A d \in Dirs : Range(listing[d]) \cap Dirs = Range(Listing[d]) \cap Dirs
Searching == pc \in {"list", "walk"} /\ link \in Dirs /\ ~shrunk

LEMMA Opens ==
  ASSUME Standing, NEW d \in Dirs, NEW f \in Under(d)
  PROVE  \/ f \in Range(listing[d])
         \/ \E e \in Range(listing[d]) \cap Dirs : f \in Under(e)
<1>1. PICK e \in Below[d] : f \in FilesIn(listing[e])
  BY DEF Under
<1>2. e = d \/ \E c \in Range(Listing[d]) \cap Dirs : e \in Below[c]
  BY YadiskAssumption
<1>3. CASE e = d
  BY <1>1, <1>3 DEF FilesIn
<1>4. CASE \E c \in Range(Listing[d]) \cap Dirs : e \in Below[c]
  <2>1. PICK c \in Range(Listing[d]) \cap Dirs : e \in Below[c]
    BY <1>4
  <2>2. c \in Range(listing[d]) \cap Dirs
    BY DEF Standing
  <2>3. f \in Under(c)
    BY <1>1, <2>1 DEF Under
  <2> QED
    BY <2>2, <2>3
<1> QED
  BY <1>2, <1>3, <1>4

(* What comes of a directory whose listing begins.                         *)
LEMMA Begins ==
  ASSUME WalkTyped, NEW d \in Dirs, NEW x \in Range(listing[d]),
         pc' = "list", at' = d, got' = <<>>, listing' = listing
  PROVE  Coming(x)'
<1>1. listing[d] \in Seq(Entry)
  BY DEF WalkTyped
<1>2. PICK i \in 1..Len(listing[d]) : listing[d][i] = x
  BY <1>1, RangeIs
<1>3. i > Len(got') /\ i \in 1..Len(listing'[at']) /\ listing'[at'][i] = x
  BY <1>2
<1> QED
  BY <1>3 DEF Coming

LEMMA OpensSeen ==
  ASSUME WalkTyped, Standing, NEW d \in Dirs, NEW f \in Under(d),
         pc' = "list", at' = d, got' = <<>>, listing' = listing
  PROVE  Seen(f)'
<1>1. CASE f \in Range(listing[d])
  BY <1>1, Begins DEF Seen
<1>2. CASE \E e \in Range(listing[d]) \cap Dirs : f \in Under(e)
  <2>1. PICK e \in Range(listing[d]) \cap Dirs : f \in Under(e)
    BY <1>2
  <2>2. Coming(e)' /\ e \in Dirs
    BY Begins
  <2>3. (f \in Under(e))'
    BY <2>1 DEF Under
  <2> QED
    BY <2>2, <2>3 DEF Seen
<1> QED
  BY <1>1, <1>2, Opens

LEMMA MetaFound ==
  ASSUME Typed, Found, Meta
  PROVE  Found'
<1>1. WalkTyped /\ Standing
  BY TypedParts DEF Found, Standing
<1>2. listing' = listing
  BY DEF Meta, LinkFails, NoWalk, walk
<1>3. ASSUME Searching' PROVE \A f \in stable' : Seen(f)'
  <2>1. link \in Dirs /\ at' = link /\ pc' = "list" /\ got' = <<>> /\ link' = link
        /\ stable' = UNION {FilesIn(listing[d]) : d \in Below[link]}
    BY <1>3 DEF Searching, Meta, LinkFails, run
  <2>2. stable' = Under(link)
    BY <2>1 DEF Under
  <2> QED
    BY <1>1, <1>2, <2>1, <2>2, OpensSeen
<1> QED
  BY <1>1, <1>2, <1>3 DEF Found, Standing, Searching

(* What is seen stays so while what comes and what is found grow.          *)
LEMMA SeenStays ==
  ASSUME NEW f, Seen(f), Range(files) \subseteq Range(files)',
         Coming(f) => Coming(f)' \/ f \in Range(files)' \cup System,
         \A d \in Dirs : Coming(d) /\ f \in Under(d) => (Coming(d) /\ f \in Under(d))' \/ Seen(f)'
  PROVE  Seen(f)'
<1>1. CASE f \in Range(files) \cup System
  BY <1>1 DEF Seen
<1>2. CASE Coming(f)
  BY <1>2 DEF Seen
<1>3. CASE \E d \in Dirs : Coming(d) /\ f \in Under(d)
  BY <1>3 DEF Seen
<1> QED
  BY <1>1, <1>2, <1>3 DEF Seen

LEMMA ListPageFound ==
  ASSUME Typed, Found, ListPage
  PROVE  Found'
<1>1. WalkTyped /\ Standing /\ at \in Dirs /\ pc = "list" /\ link \in Dirs
  BY TypedParts DEF Found, Standing, ListPage, Shape, WalkTyped
<1>2. UNCHANGED <<listing, stable, shrunk, files, link>>
  BY DEF ListPage, run
<1> DEFINE page == Page(listing[at], Offset(got))
           all == got \o page
<1>3. listing[at] \in Seq(Entry) /\ got \in Seq(Entry) /\ todo \in Seq(Entry) /\ Len(got) \in Nat
  BY <1>1 DEF WalkTyped
<1>4. PICK m \in Nat : /\ page \in Seq(Entry) /\ Len(page) = m
                       /\ m # 0 => Len(got) + m <= Len(listing[at])
                       /\ \A i \in 1..m : page[i] = listing[at][Len(got) + i]
                       /\ page = <<>> => Len(listing[at]) <= Len(got)
  BY <1>3, PageIs DEF Offset
<1>5. \/ /\ page = <<>> \/ Len(all) >= Len(listing[at])
         /\ todo' = all \o todo /\ pc' = "walk"
      \/ got' = all /\ UNCHANGED <<todo, at, pc>>
  BY DEF ListPage
<1> HIDE DEF page
<1>6. all \in Seq(Entry) /\ Len(all) = Len(got) + m /\ Range(all) = Range(got) \cup Range(page)
  <2>1. got \in Seq(Entry) /\ page \in Seq(Entry)
    BY <1>3, <1>4
  <2>2. all \in Seq(Entry) /\ Len(all) = Len(got) + Len(page)
    BY ONLY <2>1, Joined
  <2>3. Range(all) = Range(got) \cup Range(page)
    BY ONLY <2>1, RangeOfBoth
  <2> HIDE DEF all
  <2> QED
    BY <1>4, <2>2, <2>3
<1> HIDE DEF all
<1>7. Range(all \o todo) = Range(all) \cup Range(todo)
  <2>1. todo \in Seq(Entry) /\ all \in Seq(Entry)
    BY <1>3, <1>6
  <2> QED
    BY ONLY <2>1, RangeOfBoth
<1>8. ASSUME NEW i \in 1..Len(listing[at]), i > Len(got)
      PROVE  listing[at][i] \in Range(page) \/ (i > Len(all) /\ page # <<>>)
  <2>1. page # <<>>
    BY <1>3, <1>4, <1>8
  <2>2. CASE i <= Len(got) + m
    <3>1. i - Len(got) \in 1..m /\ Len(got) + (i - Len(got)) = i
      BY <1>3, <1>8, <2>2
    <3>2. page[i - Len(got)] = listing[at][i]
      BY <1>4, <3>1
    <3> QED
      BY <1>4, <3>1, <3>2, RangeIs
  <2>3. CASE ~(i <= Len(got) + m)
    BY <1>3, <1>6, <1>8, <2>1, <2>3
  <2> QED
    BY <2>2, <2>3
<1>9. ASSUME NEW x, Coming(x) PROVE Coming(x)'
  <2>1. CASE x \in Range(todo)
    BY <1>5, <1>7, <2>1 DEF Coming
  <2>2. CASE x \in Range(got)
    BY <1>1, <1>5, <1>6, <1>7, <2>2 DEF Coming
  <2>3. CASE \E i \in 1..Len(listing[at]) : i > Len(got) /\ listing[at][i] = x
    <3>1. PICK i \in 1..Len(listing[at]) : i > Len(got) /\ listing[at][i] = x
      BY <2>3
    <3>2. CASE x \in Range(page)
      BY <1>1, <1>5, <1>6, <1>7, <3>2 DEF Coming
    <3>3. CASE i > Len(all) /\ page # <<>>
      <4>1. ~(Len(all) >= Len(listing[at]))
        BY <1>3, <1>6, <3>1, <3>3
      <4>2. got' = all /\ UNCHANGED <<todo, at, pc>>
        BY <1>5, <3>3, <4>1
      <4> QED
        BY <1>1, <1>2, <3>1, <3>3, <4>2 DEF Coming
    <3> QED
      BY <1>8, <3>1, <3>2, <3>3
  <2> QED
    BY <1>9, <2>1, <2>2, <2>3 DEF Coming
<1>10. ASSUME ~shrunk, NEW f \in stable PROVE Seen(f)'
  <2>1. Seen(f)
    BY <1>1, <1>10 DEF Found
  <2>2. Range(files)' = Range(files) /\ \A d \in Dirs : Under(d)' = Under(d)
    BY <1>2 DEF Under
  <2> QED
    BY <1>9, <2>1, <2>2, SeenStays
<1> QED
  BY <1>1, <1>2, <1>10 DEF Found, Standing

LEMMA WalkFound ==
  ASSUME Typed, Found, Walk
  PROVE  Found'
<1>1. WalkTyped /\ Standing /\ FilesTyped /\ pc = "walk" /\ todo # <<>> /\ link \in Dirs
      /\ got = <<>>
  BY TypedParts DEF Found, Standing, Walk, Shape
<1>2. UNCHANGED <<listing, stable, shrunk, got, link>> /\ todo' = Tail(todo)
  BY DEF Walk, run
<1>3. Range(todo) = {Head(todo)} \cup Range(todo') /\ Head(todo) \in Entry
  BY <1>1, <1>2, RangeOfTail DEF WalkTyped
<1>4. \A x : Coming(x) <=> x \in Range(todo)
  BY <1>1 DEF Coming
<1>5. \A x \in Range(todo') : Coming(x)'
  BY DEF Coming
<1>6. \A d \in Dirs : Under(d)' = Under(d)
  BY <1>2 DEF Under
<1>7. ASSUME ~shrunk, NEW f \in stable PROVE Seen(f)'
  <2>1. Seen(f) /\ f \in Files
    BY <1>1, <1>7 DEF Found, WalkTyped
  <2>2. CASE Head(todo) \in Dirs
    <3>1. at' = Head(todo) /\ pc' = "list" /\ files' = files
      BY <2>2 DEF Walk
    <3>2. f # Head(todo)
      BY <2>1, <2>2, YadiskAssumption
    <3>3. ASSUME f \in Under(Head(todo)) PROVE Seen(f)'
      BY <1>1, <1>2, <2>2, <3>1, <3>3, OpensSeen
    <3>4. Coming(f) => Coming(f)'
      BY <1>3, <1>4, <1>5, <3>2
    <3>5. ASSUME NEW d \in Dirs, Coming(d), f \in Under(d)
          PROVE  (Coming(d) /\ f \in Under(d))' \/ Seen(f)'
      BY <1>3, <1>4, <1>5, <1>6, <3>3, <3>5
    <3> QED
      BY <2>1, <3>1, <3>4, <3>5, SeenStays
  <2>3. CASE Head(todo) \notin Dirs
    <3>1. Head(todo) \in Files
          /\ files' = (IF IsSkippable(Head(todo)) THEN files ELSE Append(files, Head(todo)))
      BY <1>3, <2>3 DEF Walk, Entry
    <3>2. Range(files)' = (IF Head(todo) \in System THEN Range(files)
                                                    ELSE Range(files) \cup {Head(todo)})
      <4>1. CASE Head(todo) \in System
        BY <3>1, <4>1 DEF IsSkippable
      <4>2. CASE Head(todo) \notin System
        <5>1. files' = Append(files, Head(todo)) /\ files \in Seq(Files)
          BY <1>1, <3>1, <4>2 DEF FilesTyped, IsSkippable
        <5>2. Range(Append(files, Head(todo))) = Range(files) \cup {Head(todo)}
          BY <3>1, <5>1, RangeOfAppend
        <5> QED
          BY <4>2, <5>1, <5>2
      <4> QED
        BY <4>1, <4>2
    <3>3. Coming(f) => Coming(f)' \/ f \in Range(files)' \cup System
      BY <1>3, <1>4, <1>5, <3>2
    <3>4. ASSUME NEW d \in Dirs, Coming(d), f \in Under(d)
          PROVE  (Coming(d) /\ f \in Under(d))'
      BY <1>3, <1>4, <1>5, <1>6, <2>3, <3>4
    <3>5. Range(files) \subseteq Range(files)'
      BY <3>2
    <3> QED
      BY <2>1, <3>3, <3>4, <3>5, SeenStays
  <2> QED
    BY <2>2, <2>3
<1> QED
  BY <1>1, <1>2, <1>7 DEF Found, Standing

LEMMA RangeOfTaken ==
  ASSUME NEW S, NEW s \in Seq(S), NEW k \in 1..Len(s)
  PROVE  RemoveAt(s, k) \in Seq(S) /\ Range(s) = Range(RemoveAt(s, k)) \cup {s[k]}
<1> DEFINE r == RemoveAt(s, k)
<1>0. /\ r \in Seq(S) /\ Len(r) = Len(s) - 1
      /\ \A i \in 1..(Len(s) - 1) : r[i] = s[IF i < k THEN i ELSE i + 1]
  BY ONLY OneTaken, s \in Seq(S), k \in 1..Len(s)
<1>1. /\ r \in Seq(S) /\ Len(r) = Len(s) - 1 /\ Len(s) \in Nat
      /\ \A i \in 1..(Len(s) - 1) : r[i] = s[IF i < k THEN i ELSE i + 1]
  BY <1>0, LenProperties
<1> HIDE DEF r
<1>2. ASSUME NEW i \in 1..Len(r) PROVE r[i] \in Range(s)
  <2>1. (IF i < k THEN i ELSE i + 1) \in 1..Len(s)
    BY <1>1
  <2> QED
    BY <1>1, <2>1, RangeIs
<1>3. ASSUME NEW i \in 1..Len(s), i # k PROVE s[i] \in Range(r)
  <2>1. CASE i < k
    <3>1. i \in 1..Len(r) /\ r[i] = s[i]
      BY <1>1, <2>1
    <3> QED
      BY <1>1, <3>1, RangeIs
  <2>2. CASE ~(i < k)
    <3>1. i - 1 \in 1..(Len(s) - 1) /\ ~(i - 1 < k) /\ (i - 1) + 1 = i
      BY <1>1, <1>3, <2>2
    <3>2. r[i - 1] = s[i]
      BY <1>1, <3>1
    <3> QED
      BY <1>1, <3>1, <3>2, RangeIs
  <2> QED
    BY <2>1, <2>2
<1>4. s[k] \in Range(s)
  BY RangeIs
<1>5. Range(s) = Range(r) \cup {s[k]}
  <2>1. ASSUME NEW x \in Range(s) PROVE x \in Range(r) \cup {s[k]}
    BY <1>3, RangeIs
  <2>2. ASSUME NEW x \in Range(r) PROVE x \in Range(s)
    BY <1>1, <1>2, RangeIs
  <2> QED
    BY <1>4, <2>1, <2>2
<1> QED
  BY <1>1, <1>5 DEF r

LEMMA RangeOfPut ==
  ASSUME NEW S, NEW s \in Seq(S), NEW k \in 1..(Len(s) + 1), NEW e \in S
  PROVE  InsertAt(s, k, e) \in Seq(S) /\ Range(InsertAt(s, k, e)) = Range(s) \cup {e}
<1> DEFINE r == InsertAt(s, k, e)
<1>1. /\ r \in Seq(S) /\ Len(r) = Len(s) + 1 /\ Len(s) \in Nat
      /\ \A i \in 1..(Len(s) + 1) :
           r[i] = IF i < k THEN s[i] ELSE IF i = k THEN e ELSE s[i - 1]
  <2>1. Len(s) \in Nat
    BY LenProperties
  <2>2. /\ r \in Seq(S) /\ Len(r) = Len(s) + 1
        /\ \A i \in 1..(Len(s) + 1) :
             r[i] = IF i < k THEN s[i] ELSE IF i = k THEN e ELSE s[i - 1]
    <3>1. r \in Seq(S)
      BY OnePut
    <3>2. Len(r) = Len(s) + 1
      BY OnePut
    <3>3. ASSUME NEW i \in 1..(Len(s) + 1)
          PROVE  r[i] = IF i < k THEN s[i] ELSE IF i = k THEN e ELSE s[i - 1]
      BY OnePut
    <3> HIDE DEF r
    <3> QED
      BY <3>1, <3>2, <3>3
  <2> HIDE DEF r
  <2> QED
    BY <2>1, <2>2
<1> HIDE DEF r
<1>2. ASSUME NEW i \in 1..Len(r) PROVE r[i] \in Range(s) \cup {e}
  <2>1. CASE i < k
    <3>1. i \in 1..Len(s) /\ r[i] = s[i]
      BY <1>1, <2>1
    <3> QED
      BY <3>1, RangeIs
  <2>2. CASE i = k
    BY <1>1, <2>2
  <2>3. CASE ~(i < k) /\ i # k
    <3>1. i - 1 \in 1..Len(s) /\ r[i] = s[i - 1]
      BY <1>1, <2>3
    <3> QED
      BY <3>1, RangeIs
  <2> QED
    BY <2>1, <2>2, <2>3
<1>3. ASSUME NEW i \in 1..Len(s) PROVE s[i] \in Range(r)
  <2>1. CASE i < k
    <3>1. i \in 1..Len(r) /\ r[i] = s[i]
      BY <1>1, <2>1
    <3> QED
      BY <1>1, <3>1, RangeIs
  <2>2. CASE ~(i < k)
    <3>1. i + 1 \in 1..(Len(s) + 1) /\ ~(i + 1 < k) /\ i + 1 # k /\ (i + 1) - 1 = i
      BY <1>1, <2>2
    <3>2. r[i + 1] = s[i]
      BY <1>1, <3>1
    <3> QED
      BY <1>1, <3>1, <3>2, RangeIs
  <2> QED
    BY <2>1, <2>2
<1>4. e \in Range(r)
  <2>1. k \in 1..Len(r) /\ r[k] = e
    BY <1>1
  <2> QED
    BY <1>1, <2>1, RangeIs
<1>5. Range(r) = Range(s) \cup {e}
  <2>1. ASSUME NEW x \in Range(r) PROVE x \in Range(s) \cup {e}
    BY <1>1, <1>2, RangeIs
  <2>2. ASSUME NEW x \in Range(s) PROVE x \in Range(r)
    BY <1>3, RangeIs
  <2> QED
    BY <1>4, <2>1, <2>2
<1> QED
  BY <1>1, <1>5 DEF r

(* An entry that is put into a listing moves none before the place that    *)
(* has been read.                                                          *)
Ahead(s, r) ==
  \A n \in Nat : \A i \in 1..Len(s) : i > n => \E j \in 1..Len(r) : j > n /\ r[j] = s[i]

LEMMA StillAhead ==
  ASSUME NEW S, NEW s \in Seq(S), NEW k \in 1..(Len(s) + 1), NEW e \in S
  PROVE  Ahead(s, InsertAt(s, k, e))
<1> SUFFICES ASSUME NEW n \in Nat, NEW i \in 1..Len(s), i > n
             PROVE  \E j \in 1..Len(InsertAt(s, k, e)) : j > n /\ InsertAt(s, k, e)[j] = s[i]
  BY DEF Ahead
<1> DEFINE r == InsertAt(s, k, e)
<1>1. /\ Len(r) = Len(s) + 1 /\ Len(s) \in Nat
      /\ \A j \in 1..(Len(s) + 1) :
           r[j] = IF j < k THEN s[j] ELSE IF j = k THEN e ELSE s[j - 1]
  BY OnePut
<1> HIDE DEF r
<1>2. CASE i < k
  <2>1. i \in 1..Len(r) /\ r[i] = s[i]
    BY <1>1, <1>2
  <2> QED
    BY <2>1 DEF r
<1>3. CASE ~(i < k)
  <2>1. i + 1 \in 1..(Len(s) + 1) /\ ~(i + 1 < k) /\ i + 1 # k /\ (i + 1) - 1 = i
        /\ i + 1 > n
    BY <1>1, <1>3
  <2>2. r[i + 1] = s[i]
    BY <1>1, <2>1
  <2> QED
    BY <1>1, <2>1, <2>2 DEF r
<1> QED
  BY <1>2, <1>3

LEMMA ChangeFound ==
  ASSUME Typed, Found, Change
  PROVE  Found'
<1>1. WalkTyped /\ Standing /\ at \in Dirs /\ pc = "list" /\ link \in Dirs
  BY TypedParts DEF Found, Standing, Change, Shape, WalkTyped
<1>2. UNCHANGED <<at, got, todo, files, pc, link>>
  BY DEF Change, run
<1>3. PICK d \in Below[link] : \E i \in 1..(Len(listing[d]) + 1) : Moved(d, i)
  BY DEF Change, Moved
<1>4. PICK i \in 1..(Len(listing[d]) + 1) : Moved(d, i)
  BY <1>3
<1>5. d \in Dirs /\ listing[d] \in Seq(Entry) /\ Len(listing[d]) \in Nat
  BY <1>1, <1>3, YadiskAssumption DEF WalkTyped
<1>6. \A x \in Files : x \notin Dirs
  BY YadiskAssumption
<1>7. CASE /\ i <= Len(listing[d]) /\ listing[d][i] \in Files
           /\ listing' = [listing EXCEPT ![d] = RemoveAt(@, i)]
           /\ stable' = stable \ {listing[d][i]} /\ shrunk' = TRUE
  <2>1. Range(listing[d]) = Range(RemoveAt(listing[d], i)) \cup {listing[d][i]}
    BY <1>5, <1>7, RangeOfTaken
  <2>2. ASSUME NEW c \in Dirs PROVE Range(listing'[c]) \cap Dirs = Range(listing[c]) \cap Dirs
    <3>1. listing'[c] = IF c = d THEN RemoveAt(listing[d], i) ELSE listing[c]
      BY <1>1, <1>7 DEF WalkTyped
    <3> QED
      BY <1>6, <1>7, <2>1, <3>1
  <2>3. Standing'
    BY <1>1, <2>2 DEF Standing
  <2> QED
    BY <1>7, <2>3 DEF Found, Standing
<1>8. CASE \E f \in Files : /\ listing' = [listing EXCEPT ![d] = InsertAt(@, i, f)]
                            /\ UNCHANGED <<stable, shrunk>>
  <2>1. PICK f0 \in Files : /\ listing' = [listing EXCEPT ![d] = InsertAt(@, i, f0)]
                            /\ UNCHANGED <<stable, shrunk>>
    BY <1>8
  <2>2. f0 \in Entry
    BY DEF Entry
  <2>3. \A c \in Dirs : listing'[c] = IF c = d THEN InsertAt(listing[d], i, f0) ELSE listing[c]
    BY <1>1, <2>1 DEF WalkTyped
  <2>4. Range(InsertAt(listing[d], i, f0)) = Range(listing[d]) \cup {f0}
    <3>1. listing[d] \in Seq(Entry) /\ i \in 1..(Len(listing[d]) + 1)
      BY <1>5
    <3> QED
      BY ONLY <2>2, <3>1, RangeOfPut
  <2>5. ASSUME NEW c \in Dirs
        PROVE  /\ Range(listing'[c]) \cap Dirs = Range(listing[c]) \cap Dirs
               /\ Range(listing[c]) \subseteq Range(listing'[c])
    <3>1. CASE c = d
      BY <1>6, <2>3, <2>4, <3>1
    <3>2. CASE c # d
      BY <2>3, <3>2
    <3> QED
      BY <3>1, <3>2
  <2>6. Standing'
    BY <1>1, <2>5 DEF Standing
  <2>7. ASSUME NEW c \in Dirs PROVE Under(c) \subseteq Under(c)'
    <3>1. Below[c] \subseteq Dirs
      BY YadiskAssumption
    <3>2. ASSUME NEW f \in Under(c) PROVE f \in Under(c)'
      <4>1. PICK b \in Below[c] : f \in Range(listing[b]) \cap Files
        BY DEF Under, FilesIn
      <4>2. f \in Range(listing'[b]) \cap Files
        BY <2>5, <3>1, <4>1
      <4> QED
        BY <4>1, <4>2 DEF Under, FilesIn
    <3> QED
      BY <3>2
  <2>8. ASSUME NEW x, Coming(x) PROVE Coming(x)'
    <3>1. CASE x \in Range(todo) \/ x \in Range(got)
      BY <1>1, <1>2, <3>1 DEF Coming
    <3>2. CASE \E j \in 1..Len(listing[at]) : j > Len(got) /\ listing[at][j] = x
      <4>1. PICK j \in 1..Len(listing[at]) : j > Len(got) /\ listing[at][j] = x
        BY <3>2
      <4>2. CASE at = d
        <5>1. Len(got) \in Nat
          BY <1>1 DEF WalkTyped
        <5>2. PICK k \in 1..Len(InsertAt(listing[d], i, f0)) :
                k > Len(got) /\ InsertAt(listing[d], i, f0)[k] = x
          <6>1. /\ listing[d] \in Seq(Entry) /\ i \in 1..(Len(listing[d]) + 1)
                /\ j \in 1..Len(listing[d]) /\ j > Len(got)
            BY <1>5, <4>1, <4>2
          <6>n. Ahead(listing[d], InsertAt(listing[d], i, f0))
            BY ONLY <2>2, <6>1, StillAhead
          <6>2. \E k \in 1..Len(InsertAt(listing[d], i, f0)) :
                  k > Len(got) /\ InsertAt(listing[d], i, f0)[k] = listing[d][j]
            BY <5>1, <6>1, <6>n DEF Ahead
          <6> QED
            BY <4>1, <4>2, <6>2
        <5>3. listing'[at'] = InsertAt(listing[d], i, f0)
          BY <1>1, <1>2, <2>3, <4>2
        <5> QED
          BY <1>1, <1>2, <5>2, <5>3 DEF Coming
      <4>3. CASE at # d
        <5>1. listing'[at'] = listing[at]
          BY <1>1, <1>2, <2>3, <4>3
        <5> QED
          BY <1>1, <1>2, <4>1, <5>1 DEF Coming
      <4> QED
        BY <4>2, <4>3
    <3> QED
      BY <2>8, <3>1, <3>2 DEF Coming
  <2>9. ASSUME ~shrunk, NEW f \in stable PROVE Seen(f)'
    <3>1. Seen(f)
      BY <1>1, <2>9 DEF Found
    <3>2. ASSUME NEW c \in Dirs, Coming(c), f \in Under(c) PROVE (Coming(c) /\ f \in Under(c))'
      BY <2>7, <2>8, <3>2
    <3>3. Range(files)' = Range(files)
      BY <1>2
    <3> QED
      BY <2>8, <3>1, <3>2, <3>3, SeenStays
  <2> QED
    BY <2>1, <2>6, <2>9 DEF Found, Standing
<1> QED
  BY <1>4, <1>7, <1>8 DEF Moved

LEMMA FoundStays ==
  ASSUME Found, UNCHANGED <<walk, files, pc, link>>
  PROVE  Found'
  BY DEF Found, Seen, Coming, Under, FilesIn, walk

(* Nobody searches.                                                        *)
LEMMA NobodySearches ==
  ASSUME Found, listing' = listing, ~Searching'
  PROVE  Found'
  BY DEF Found, Searching

LEMMA FoundKept ==
  ASSUME Typed, Found, Next
  PROVE  Found'
<1>1. CASE Meta \/ ListPage \/ Walk \/ Change
  BY <1>1, MetaFound, ListPageFound, WalkFound, ChangeFound
<1>2. CASE Cancel \/ HistoryEnds
  BY <1>2, FoundStays DEF Cancel, HistoryEnds
<1>3. CASE LoopCancelled \/ LoopEnds \/ TakeLink \/ LinkDone \/ SkipExisting \/ BeginFile
  <2>1. listing' = listing /\ pc' \notin {"list", "walk"}
    BY <1>3 DEF LoopCancelled, LoopEnds, TakeLink, LinkDone, SkipExisting, BeginFile, walk
  <2> QED
    BY <2>1, NobodySearches DEF Searching
<1>4. CASE ListFails \/ DirFails \/ NoStreams \/ SegmentFails
  <2>1. listing' = listing /\ pc' \notin {"list", "walk"}
    BY <1>4 DEF ListFails, DirFails, NoStreams, SegmentFails, FileFails, LinkFails, NoWalk
  <2> QED
    BY <2>1, NobodySearches DEF Searching
<1>5. CASE FileURL
  <2>1. link \in Files /\ link \notin Dirs
    BY <1>5, TypedParts, YadiskAssumption DEF FileURL, Shape
  <2>2. listing' = listing /\ (link' = link \/ pc' = "loop")
    BY <1>5 DEF FileURL, LinkFails, NoWalk, walk, run
  <2> QED
    BY <2>1, <2>2, NobodySearches DEF Searching
<1>6. CASE Resolved
  <2>1. listing' = listing /\ pc' \notin {"list", "walk"}
    BY <1>6 DEF Resolved, LinkFails, NoWalk
  <2> QED
    BY <2>1, NobodySearches DEF Searching
<1>7. CASE FindURL \/ Refresh
  <2>1. listing' = listing /\ pc' \notin {"list", "walk"}
    BY <1>7 DEF FindURL, Refresh, FileFails, LinkFails, NoWalk, walk
  <2> QED
    BY <2>1, NobodySearches DEF Searching
<1>8. CASE OpenFails \/ CopyFails \/ RangeFails
  <2>1. listing' = listing /\ pc' \notin {"list", "walk"}
    BY <1>8 DEF OpenFails, CopyFails, RangeFails, AttemptFails, FileFails, LinkFails, NoWalk, walk
  <2> QED
    BY <2>1, NobodySearches DEF Searching
<1>9. CASE GetVideoStreams \/ Segment \/ StreamEnds \/ Open \/ Copy \/ Range206Or200 \/ RangeEnds
  <2>1. listing' = listing /\ pc' \notin {"list", "walk"}
    BY <1>9 DEF GetVideoStreams, Segment, StreamEnds, Open, Copy, Range206Or200, RangeEnds,
                Accept, FileDone, walk
  <2> QED
    BY <2>1, NobodySearches DEF Searching
<1> QED
  BY <1>1, <1>2, <1>3, <1>4, <1>5, <1>6, <1>7, <1>8, <1>9 DEF Next, Download

LEMMA InitFound == Init => Found
  BY DEF Init, Found

(* Every variable keeps its type, for any files, folders, histories and    *)
(* answers: YadiskTransfer of download_yadisk.go and pkg/yadisk.           *)
THEOREM YadiskTypeCorrect == Spec => []TypeOK
<1>1. Typed /\ Content => TypeOK
  BY DEF Typed
<1> QED
  BY <1>1, TypedAlways, PTL

(* DiskSound: whatever attempts, ranges and streams a target has seen,     *)
(* between two transfers it is the whole of one object.                    *)
THEOREM TargetsAreWhole == Spec => []DiskSound
<1>1. Typed /\ Content => DiskSound
  BY DEF Content, DiskSound, Settled, Writing
<1> QED
  BY <1>1, TypedAlways, PTL

(* AllListed: the walk of a folder, read in pages of any size while its    *)
(* owner adds to it, finds every file that was there all the time.         *)
THEOREM FoldersAreFound == Spec => []AllListed
<1>1. Init => Found
  BY InitFound
<1>2. Typed /\ Content /\ Found /\ [Next]_vars => Found'
  <2>1. ASSUME Typed, Found, Next PROVE Found'
    BY <2>1, FoundKept
  <2>2. ASSUME Found, UNCHANGED vars PROVE Found'
    BY <2>2, FoundStays DEF vars, run
  <2> QED
    BY <2>1, <2>2
<1>3. Found => AllListed
  <2> SUFFICES ASSUME Found, pc = "walk", todo = <<>>, link \in Dirs, ~shrunk,
                      NEW f \in stable \ System
               PROVE  f \in Range(files)
    BY DEF AllListed
  <2>1. Seen(f)
    BY DEF Found
  <2>2. \A x : ~Coming(x)
    BY RangeOfNone DEF Coming
  <2> QED
    BY <2>1, <2>2 DEF Seen
<1> QED
  BY <1>1, <1>2, <1>3, TypedAlways, PTL DEF Spec
=============================================================================
