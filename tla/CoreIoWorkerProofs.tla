-------------------------- MODULE CoreIoWorkerProofs --------------------------
(***************************************************************************)
(* Proofs about the event buffer and the requests that are taken from it,   *)
(* for any event types, keys, sizes, shares and bounds.                     *)
(*                                                                         *)
(* The argument for the order of the command events: the deque holds them   *)
(* in the order of their numbers (Sorted), a batch is headed by the oldest  *)
(* of them, so that whatever precedes a command event of a request is in    *)
(* front of it in the request or with Core already (Ready), and this stays  *)
(* true of a request the worker has given up on.                            *)
(*                                                                         *)
(* What Keep returns is proved by induction on the length of a prefix, in   *)
(* the form of the least counterexample (theorem WFMin of the library).     *)
(***************************************************************************)
EXTENDS CoreIoWorker, SequenceTheorems, WellFoundedInduction, TLAPS

-----------------------------------------------------------------------------
(* Induction, with a set in the place of a predicate *)

LEMMA LeastNat ==
  ASSUME NEW T \in SUBSET Nat, T # {}
  PROVE  \E m \in T : \A k \in T : m <= k
  <1> DEFINE R == OpToRel(<, Nat)
  <1>1. IsWellFoundedOn(R, Nat)
    BY NatLessThanWellFounded
  <1>2. \A x, y \in Nat : <<x, y>> \in R <=> x < y
    BY DEF OpToRel
  <1> HIDE DEF R
  <1>3. PICK x \in T : \A y \in T : ~(<<y, x>> \in R)
    BY <1>1, WFMin
  <1>4. \A y \in T : x <= y
    <2> TAKE y \in T
    <2>1. ~(y < x)
      BY <1>2, <1>3
    <2> QED BY <2>1
  <1> QED BY <1>4

LEMMA SetInduction ==
  ASSUME NEW S, 0 \in S, \A n \in Nat : n \in S => n + 1 \in S
  PROVE  \A n \in Nat : n \in S
  <1> DEFINE T == {n \in Nat : n \notin S}
  <1> SUFFICES ASSUME T # {} PROVE FALSE
    OBVIOUS
  <1>1. PICK m \in T : \A k \in T : m <= k
    BY LeastNat
  <1>2. m # 0 /\ m - 1 \in Nat /\ m - 1 \notin T
    BY <1>1
  <1> QED BY <1>2

-----------------------------------------------------------------------------
(* Keep *)

\* The next value of the function that Keep is defined by: f[i] is kept of s[1..i].
Step(f, s, S, i) ==
  IF i = 0 THEN <<>> ELSE IF s[i] \in S THEN Append(f[i - 1], s[i]) ELSE f[i - 1]

\* f is that function, up to n.
Keeps(f, s, S, n) == f = [i \in 0 .. n |-> Step(f, s, S, i)]

LEMMA KeepsExists ==
  ASSUME NEW s, NEW S
  PROVE  \A n \in Nat : \E f : Keeps(f, s, S, n)
  <1> DEFINE N == {n \in Nat : \E f : Keeps(f, s, S, n)}
  <1>1. 0 \in N
    <2> DEFINE f == [i \in 0 .. 0 |-> <<>>]
    <2>1. f = [i \in 0 .. 0 |-> Step(f, s, S, i)]
      BY DEF Step
    <2> HIDE DEF f
    <2>2. Keeps(f, s, S, 0)
      BY <2>1 DEF Keeps
    <2> QED BY <2>2
  <1>2. ASSUME NEW n \in Nat, n \in N PROVE n + 1 \in N
    <2>1. PICK f : Keeps(f, s, S, n)
      BY <1>2
    <2> DEFINE g == [i \in 0 .. n + 1 |-> Step(f, s, S, i)]
    <2>2. \A i \in 0 .. n : g[i] = f[i]
      BY <2>1 DEF Keeps
    <2>3. \A i \in 0 .. n + 1 : Step(f, s, S, i) = Step(g, s, S, i)
      <3> HIDE DEF g
      <3> QED BY <2>2 DEF Step
    <2>4. g = [i \in 0 .. n + 1 |-> Step(g, s, S, i)]
      BY <2>3
    <2> HIDE DEF g
    <2>5. Keeps(g, s, S, n + 1)
      BY <2>4 DEF Keeps
    <2> QED BY <2>5
  <1> HIDE DEF N
  <1>3. \A n \in Nat : n \in N
    BY <1>1, <1>2, SetInduction
  <1> QED BY <1>3 DEF N

LEMMA KeepValue ==
  ASSUME NEW s \in Seq(Events), NEW S \in SUBSET Events
  PROVE  \E f : Keeps(f, s, S, Len(s)) /\ Keep(S)[s] = f[Len(s)]
  <1> DEFINE kept == CHOOSE f : Keeps(f, s, S, Len(s))
  <1>1. Keeps(kept, s, S, Len(s))
    BY KeepsExists
  <1>2. Keep(S) = [t \in Seq(Events) |-> (CHOOSE f : Keeps(f, t, S, Len(t)))[Len(t)]]
    BY DEF Keep, Keeps, Step
  <1>3. Keep(S)[s] = kept[Len(s)]
    BY <1>2
  <1> QED BY <1>1, <1>3

\* What f keeps of the first n elements, and that it keeps their order.
KeptWell(t, s, S, n) ==
  /\ t \in Seq(Events) /\ Len(t) <= n
  /\ \A i \in 1 .. Len(t) : t[i] \in S /\ \E a \in 1 .. n : s[a] = t[i]
  /\ \A a \in 1 .. n : s[a] \in S => \E i \in 1 .. Len(t) : t[i] = s[a]
  /\ \A i, j \in 1 .. Len(t) : i < j => \E a, b \in 1 .. n : a < b /\ s[a] = t[i] /\ s[b] = t[j]

LEMMA KeptWellGrows ==
  ASSUME NEW s \in Seq(Events), NEW S \in SUBSET Events, NEW n \in Nat, n + 1 <= Len(s),
         NEW t, KeptWell(t, s, S, n)
  PROVE  KeptWell(IF s[n + 1] \in S THEN Append(t, s[n + 1]) ELSE t, s, S, n + 1)
  <1> DEFINE e == s[n + 1]
  <1>0. e \in Events /\ t \in Seq(Events) /\ Len(t) \in Nat /\ Len(t) <= n
    BY DEF KeptWell
  <1>1. CASE e \notin S
    BY <1>0, <1>1 DEF KeptWell
  <1>2. CASE e \in S
    <2> DEFINE u == Append(t, e)
    <2>1. /\ u \in Seq(Events) /\ Len(u) = Len(t) + 1
          /\ \A i \in 1 .. Len(t) : u[i] = t[i]
          /\ u[Len(t) + 1] = e
      BY <1>0
    <2> HIDE DEF u
    <2>2. \A i \in 1 .. Len(u) : i \in 1 .. Len(t) \/ i = Len(t) + 1
      BY <1>0, <2>1
    <2>3. ASSUME NEW i \in 1 .. Len(u) PROVE u[i] \in S /\ \E a \in 1 .. n + 1 : s[a] = u[i]
      <3>1. CASE i \in 1 .. Len(t)
        <4>1. t[i] \in S /\ \E a \in 1 .. n : s[a] = t[i]
          BY <3>1 DEF KeptWell
        <4> QED BY <2>1, <3>1, <4>1
      <3>2. CASE i = Len(t) + 1
        BY <1>2, <2>1, <3>2
      <3> QED BY <2>2, <3>1, <3>2
    <2>4. ASSUME NEW a \in 1 .. n + 1, s[a] \in S PROVE \E i \in 1 .. Len(u) : u[i] = s[a]
      <3>1. CASE a \in 1 .. n
        <4>1. PICK i \in 1 .. Len(t) : t[i] = s[a]
          BY <2>4, <3>1 DEF KeptWell
        <4>2. i \in 1 .. Len(u) /\ u[i] = s[a]
          BY <1>0, <2>1, <4>1
        <4> QED BY <4>2
      <3>2. CASE a = n + 1
        <4>1. Len(t) + 1 \in 1 .. Len(u) /\ u[Len(t) + 1] = s[a]
          BY <1>0, <2>1, <3>2
        <4> QED BY <4>1
      <3> QED BY <3>1, <3>2
    <2>5. \A i, j \in 1 .. Len(u) : i < j => \E a, b \in 1 .. n + 1 : a < b /\ s[a] = u[i] /\ s[b] = u[j]
      <3> SUFFICES ASSUME NEW i \in 1 .. Len(u), NEW j \in 1 .. Len(u), i < j
                   PROVE  \E a, b \in 1 .. n + 1 : a < b /\ s[a] = u[i] /\ s[b] = u[j]
        OBVIOUS
      <3>1. i \in 1 .. Len(t) /\ u[i] = t[i]
        BY <1>0, <2>1
      <3>2. CASE j \in 1 .. Len(t)
        <4>1. \E a, b \in 1 .. n : a < b /\ s[a] = t[i] /\ s[b] = t[j]
          BY <3>1, <3>2 DEF KeptWell
        <4> QED BY <2>1, <3>1, <3>2, <4>1
      <3>3. CASE j = Len(t) + 1
        <4>1. PICK a \in 1 .. n : s[a] = t[i]
          BY <3>1 DEF KeptWell
        <4>2. a \in 1 .. n + 1 /\ n + 1 \in 1 .. n + 1 /\ a < n + 1 /\ s[n + 1] = u[j]
          BY <2>1, <3>3, <4>1
        <4> QED BY <3>1, <4>1, <4>2
      <3> QED BY <2>2, <3>2, <3>3
    <2>6. KeptWell(u, s, S, n + 1)
      BY <1>0, <2>1, <2>3, <2>4, <2>5 DEF KeptWell
    <2> QED BY <1>2, <2>6 DEF u
  <1> QED BY <1>1, <1>2

LEMMA KeepProperties ==
  ASSUME NEW s \in Seq(Events), NEW S \in SUBSET Events
  PROVE  KeptWell(Keep(S)[s], s, S, Len(s))
  <1>1. PICK f : Keeps(f, s, S, Len(s)) /\ Keep(S)[s] = f[Len(s)]
    BY KeepValue
  <1>2. \A i \in 0 .. Len(s) : f[i] = Step(f, s, S, i)
    BY <1>1 DEF Keeps
  <1> DEFINE N == {n \in Nat : n <= Len(s) => KeptWell(f[n], s, S, n)}
  <1>3. 0 \in N
    <2>1. f[0] = <<>>
      BY <1>2 DEF Step
    <2>2. KeptWell(<<>>, s, S, 0)
      BY DEF KeptWell
    <2> QED BY <2>1, <2>2
  <1>4. ASSUME NEW n \in Nat, n \in N PROVE n + 1 \in N
    <2> SUFFICES ASSUME n + 1 <= Len(s) PROVE KeptWell(f[n + 1], s, S, n + 1)
      OBVIOUS
    <2>1. KeptWell(f[n], s, S, n)
      BY <1>4
    <2>2. f[n + 1] = IF s[n + 1] \in S THEN Append(f[n], s[n + 1]) ELSE f[n]
      BY <1>2 DEF Step
    <2> QED BY <2>1, <2>2, KeptWellGrows
  <1> HIDE DEF N
  <1>5. Len(s) \in N
    BY <1>3, <1>4, SetInduction
  <1>6. KeptWell(f[Len(s)], s, S, Len(s))
    BY <1>5 DEF N
  <1> QED BY <1>1, <1>6

-----------------------------------------------------------------------------
(* Operations on the deque *)

LEMMA RangeOf ==
  ASSUME NEW S, NEW s \in Seq(S)
  PROVE  /\ \A i \in 1 .. Len(s) : s[i] \in Range(s)
         /\ \A d \in Range(s) : d \in S /\ \E i \in 1 .. Len(s) : s[i] = d
  BY DEF Range

LEMMA RemoveAtProperties ==
  ASSUME NEW S, NEW s, s \in Seq(S), NEW k, k \in 1 .. Len(s)
  PROVE  /\ RemoveAt(s, k) \in Seq(S)
         /\ Len(RemoveAt(s, k)) = Len(s) - 1
         /\ \A i \in 1 .. Len(s) - 1 : RemoveAt(s, k)[i] = IF i < k THEN s[i] ELSE s[i + 1]
  <1> DEFINE a == SubSeq(s, 1, k - 1)
             b == SubSeq(s, k + 1, Len(s))
  <1>1. a \in Seq(S) /\ Len(a) = k - 1 /\ \A i \in 1 .. k - 1 : a[i] = s[i]
    OBVIOUS
  <1>2. b \in Seq(S) /\ Len(b) = Len(s) - k /\ \A i \in 1 .. Len(s) - k : b[i] = s[k + i]
    <2>1. Len(s) \in Nat /\ k + 1 \in Int /\ \A i \in k + 1 .. Len(s) : s[i] \in S
      OBVIOUS
    <2>2. /\ b \in Seq(S)
          /\ Len(b) = IF k + 1 <= Len(s) THEN Len(s) - (k + 1) + 1 ELSE 0
          /\ \A i \in 1 .. Len(s) - (k + 1) + 1 : b[i] = s[(k + 1) + i - 1]
      BY <2>1, SubSeqProperties
    <2> QED BY <2>1, <2>2
  <1>3. RemoveAt(s, k) = a \o b
    BY DEF RemoveAt
  <1> HIDE DEF a, b
  <1>4. a \o b \in Seq(S) /\ Len(a \o b) = Len(a) + Len(b)
    BY <1>1, <1>2, ConcatProperties
  <1>5. \A i \in 1 .. Len(s) - 1 : (a \o b)[i] = IF i < k THEN s[i] ELSE s[i + 1]
    <2> TAKE i \in 1 .. Len(s) - 1
    <2>1. (a \o b)[i] = IF i <= Len(a) THEN a[i] ELSE b[i - Len(a)]
      BY <1>1, <1>2, ConcatProperties
    <2> QED BY <2>1, <1>1, <1>2
  <1> QED BY <1>1, <1>2, <1>3, <1>4, <1>5

LEMMA InsertAtProperties ==
  ASSUME NEW S, NEW s, s \in Seq(S), NEW e, e \in S, NEW k, k \in 1 .. Len(s) + 1
  PROVE  /\ InsertAt(s, k, e) \in Seq(S)
         /\ Len(InsertAt(s, k, e)) = Len(s) + 1
         /\ \A i \in 1 .. Len(s) + 1 :
              InsertAt(s, k, e)[i] = IF i < k THEN s[i] ELSE IF i = k THEN e ELSE s[i - 1]
  <1> DEFINE a == SubSeq(s, 1, k - 1)
             b == SubSeq(s, k, Len(s))
             c == a \o <<e>>
  <1>0. Len(s) \in Nat /\ k - 1 \in Int /\ \A i \in 1 .. Len(s) : s[i] \in S
    OBVIOUS
  <1>1. a \in Seq(S) /\ Len(a) = k - 1 /\ \A i \in 1 .. k - 1 : a[i] = s[i]
    <2>1. /\ a \in Seq(S)
          /\ Len(a) = IF 1 <= k - 1 THEN (k - 1) - 1 + 1 ELSE 0
          /\ \A i \in 1 .. (k - 1) - 1 + 1 : a[i] = s[1 + i - 1]
      BY <1>0, SubSeqProperties
    <2> QED BY <1>0, <2>1
  <1>2. b \in Seq(S) /\ Len(b) = Len(s) - k + 1 /\ \A i \in 1 .. Len(s) - k + 1 : b[i] = s[k + i - 1]
    <2>1. /\ b \in Seq(S)
          /\ Len(b) = IF k <= Len(s) THEN Len(s) - k + 1 ELSE 0
          /\ \A i \in 1 .. Len(s) - k + 1 : b[i] = s[k + i - 1]
      BY <1>0, SubSeqProperties
    <2> QED BY <1>0, <2>1
  <1>3. InsertAt(s, k, e) = c \o b
    BY DEF InsertAt
  <1> HIDE DEF a, b
  <1>4. /\ <<e>> \in Seq(S) /\ Len(<<e>>) = 1 /\ <<e>>[1] = e
    OBVIOUS
  <1>5. c \in Seq(S) /\ Len(c) = k /\ \A i \in 1 .. k : c[i] = IF i < k THEN s[i] ELSE e
    <2>1. /\ c \in Seq(S) /\ Len(c) = Len(a) + Len(<<e>>)
          /\ \A i \in 1 .. Len(a) + Len(<<e>>) : c[i] = IF i <= Len(a) THEN a[i] ELSE <<e>>[i - Len(a)]
      BY <1>1, <1>4, ConcatProperties
    <2> HIDE DEF c
    <2>2. Len(c) = k
      BY <1>0, <1>1, <1>4, <2>1
    <2>3. ASSUME NEW i \in 1 .. k PROVE c[i] = IF i < k THEN s[i] ELSE e
      <3>1. c[i] = IF i <= Len(a) THEN a[i] ELSE <<e>>[i - Len(a)]
        BY <1>0, <1>1, <1>4, <2>1
      <3>2. CASE i < k
        BY <1>0, <1>1, <3>1, <3>2
      <3>3. CASE i = k
        <4>1. i - Len(a) = 1 /\ ~(i <= Len(a))
          BY <1>0, <1>1, <3>3
        <4> QED BY <1>4, <3>1, <3>3, <4>1
      <3>4. i < k \/ i = k
        BY <1>0
      <3> QED BY <3>2, <3>3, <3>4
    <2> QED BY <2>1, <2>2, <2>3
  <1> HIDE DEF c
  <1>6. /\ c \o b \in Seq(S) /\ Len(c \o b) = Len(c) + Len(b)
        /\ \A i \in 1 .. Len(c) + Len(b) : (c \o b)[i] = IF i <= Len(c) THEN c[i] ELSE b[i - Len(c)]
    BY <1>2, <1>5, ConcatProperties
  <1>7. Len(c \o b) = Len(s) + 1
    BY <1>0, <1>2, <1>5, <1>6
  <1>8. \A i \in 1 .. Len(s) + 1 : (c \o b)[i] = IF i < k THEN s[i] ELSE IF i = k THEN e ELSE s[i - 1]
    <2> TAKE i \in 1 .. Len(s) + 1
    <2>1. (c \o b)[i] = IF i <= k THEN c[i] ELSE b[i - k]
      BY <1>0, <1>2, <1>5, <1>6
    <2> QED BY <2>1, <1>0, <1>2, <1>5
  <1> QED BY <1>3, <1>6, <1>7, <1>8

-----------------------------------------------------------------------------
(* Enqueueing *)

\* The command events of s are in the order of their numbers.
Sorted(s) ==
  \A i, j \in 1 .. Len(s) : i < j /\ Critical(s[i]) /\ Critical(s[j]) => s[i].n < s[j].n

\* t is s with e and without at most the events of its coalescing key.
Enters(t, s, e) ==
  /\ t \in Seq(Events) /\ Sorted(t)
  /\ \E i \in 1 .. Len(t) : t[i] = e
  /\ \A i \in 1 .. Len(t) : t[i] = e \/ \E j \in 1 .. Len(s) : t[i] = s[j]
  /\ \A j \in 1 .. Len(s) : SameCoalescingKey(s[j], e) \/ \E i \in 1 .. Len(t) : t[i] = s[j]

\* t is s with one event less.
Leaves(t, s, k) ==
  /\ t \in Seq(Events) /\ Sorted(t)
  /\ \A i \in 1 .. Len(t) : \E j \in 1 .. Len(s) : t[i] = s[j]
  /\ \A j \in 1 .. Len(s) : j # k => \E i \in 1 .. Len(t) : t[i] = s[j]

LEMMA RemoveAtLeaves ==
  ASSUME NEW s \in Seq(Events), Sorted(s), NEW k \in 1 .. Len(s)
  PROVE  Leaves(RemoveAt(s, k), s, k)
  <1> DEFINE t == RemoveAt(s, k)
  <1>0. Len(s) \in Nat
    OBVIOUS
  <1>1. /\ t \in Seq(Events) /\ Len(t) = Len(s) - 1
        /\ \A i \in 1 .. Len(s) - 1 : t[i] = IF i < k THEN s[i] ELSE s[i + 1]
    BY RemoveAtProperties
  <1> HIDE DEF t
  <1>2. Sorted(t)
    <2> SUFFICES ASSUME NEW i \in 1 .. Len(t), NEW j \in 1 .. Len(t), i < j, Critical(t[i]), Critical(t[j])
                 PROVE  t[i].n < t[j].n
      BY DEF Sorted
    <2>1. PICK a \in 1 .. Len(s) : t[i] = s[a] /\ a = IF i < k THEN i ELSE i + 1
      BY <1>0, <1>1
    <2>2. PICK b \in 1 .. Len(s) : t[j] = s[b] /\ b = IF j < k THEN j ELSE j + 1
      BY <1>0, <1>1
    <2>3. a < b
      BY <1>0, <2>1, <2>2
    <2> QED BY <2>1, <2>2, <2>3 DEF Sorted
  <1>3. ASSUME NEW i \in 1 .. Len(t) PROVE \E j \in 1 .. Len(s) : t[i] = s[j]
    BY <1>0, <1>1
  <1>4. ASSUME NEW j \in 1 .. Len(s), j # k PROVE \E i \in 1 .. Len(t) : t[i] = s[j]
    <2>1. CASE j < k
      <3>1. j \in 1 .. Len(t) /\ t[j] = s[j]
        BY <1>0, <1>1, <2>1
      <3> QED BY <3>1
    <2>2. CASE j > k
      <3>1. j - 1 \in 1 .. Len(t) /\ t[j - 1] = s[j]
        BY <1>0, <1>1, <2>2
      <3> QED BY <3>1
    <2> QED BY <1>0, <1>4, <2>1, <2>2
  <1> QED BY <1>0, <1>1, <1>2, <1>3, <1>4 DEF Leaves, t

\* The last command event, which _insert_after_command_critical_locked looks for.
LEMMA LastCritical ==
  ASSUME NEW s \in Seq(Events), \E i \in DOMAIN s : Critical(s[i])
  PROVE  \E i \in DOMAIN s : Critical(s[i]) /\ \A j \in i + 1 .. Len(s) : ~Critical(s[j])
  <1> DEFINE T == {d \in Nat : d < Len(s) /\ Critical(s[Len(s) - d])}
  <1>0. DOMAIN s = 1 .. Len(s) /\ Len(s) \in Nat
    OBVIOUS
  <1>1. PICK i \in 1 .. Len(s) : Critical(s[i])
    BY <1>0
  <1>2. Len(s) - i \in Nat /\ Len(s) - i < Len(s) /\ Len(s) - (Len(s) - i) = i
    BY <1>0
  <1>3. T \in SUBSET Nat /\ T # {}
    BY <1>1, <1>2
  <1>4. PICK m \in T : \A k \in T : m <= k
    BY <1>3, LeastNat
  <1>5. Len(s) - m \in 1 .. Len(s) /\ Critical(s[Len(s) - m])
    BY <1>0, <1>4
  <1>6. ASSUME NEW j \in (Len(s) - m) + 1 .. Len(s) PROVE ~Critical(s[j])
    <2>1. Len(s) - j \in Nat /\ Len(s) - j < m /\ Len(s) - j < Len(s) /\ Len(s) - (Len(s) - j) = j
      BY <1>0, <1>4
    <2> QED BY <1>4, <2>1
  <1> QED BY <1>0, <1>5, <1>6

LEMMA InsertAfterEnters ==
  ASSUME NEW s \in Seq(Events), Sorted(s), NEW e \in Events,
         \A i \in 1 .. Len(s) : s[i].n < e.n
  PROVE  Enters(InsertAfterCommandCritical(s, e), s, e)
  <1> DEFINE last == IF \E i \in DOMAIN s : Critical(s[i])
                     THEN CHOOSE i \in DOMAIN s : Critical(s[i]) /\ \A j \in i + 1 .. Len(s) : ~Critical(s[j])
                     ELSE 0
             t == InsertAt(s, last + 1, e)
  <1>0. DOMAIN s = 1 .. Len(s) /\ Len(s) \in Nat
    OBVIOUS
  <1>1. last \in 0 .. Len(s) /\ \A j \in last + 1 .. Len(s) : ~Critical(s[j])
    <2>1. CASE \E i \in DOMAIN s : Critical(s[i])
      <3> DEFINE Is(i) == Critical(s[i]) /\ \A j \in i + 1 .. Len(s) : ~Critical(s[j])
                 l == CHOOSE i \in DOMAIN s : Is(i)
      <3>1. \E i \in DOMAIN s : Is(i)
        BY <2>1, LastCritical
      <3>2. last = l
        BY <2>1
      <3> HIDE DEF Is
      <3>3. l \in DOMAIN s /\ Is(l)
        BY <3>1
      <3> QED BY <1>0, <3>2, <3>3 DEF Is
    <2>2. CASE ~\E i \in DOMAIN s : Critical(s[i])
      BY <1>0, <2>2
    <2> QED BY <2>1, <2>2
  <1>2. InsertAfterCommandCritical(s, e) = t
    BY DEF InsertAfterCommandCritical
  <1> HIDE DEF last
  <1>3. last + 1 \in 1 .. Len(s) + 1
    BY <1>0, <1>1
  <1>4. /\ t \in Seq(Events) /\ Len(t) = Len(s) + 1
        /\ \A i \in 1 .. Len(s) + 1 : t[i] = IF i < last + 1 THEN s[i] ELSE IF i = last + 1 THEN e ELSE s[i - 1]
    BY <1>3, InsertAtProperties
  <1> HIDE DEF t
  <1>5. Sorted(t)
    <2> SUFFICES ASSUME NEW i \in 1 .. Len(t), NEW j \in 1 .. Len(t), i < j, Critical(t[i]), Critical(t[j])
                 PROVE  t[i].n < t[j].n
      BY DEF Sorted
    <2>1. j <= last + 1
      BY <1>0, <1>1, <1>4
    <2>2. i \in 1 .. Len(s) /\ t[i] = s[i]
      BY <1>0, <1>1, <1>4, <2>1
    <2>3. CASE j < last + 1
      BY <1>0, <1>1, <1>4, <2>2, <2>3 DEF Sorted
    <2>4. CASE j = last + 1
      BY <1>0, <1>1, <1>4, <2>2, <2>4
    <2> QED BY <1>0, <1>1, <2>1, <2>3, <2>4
  <1>6. last + 1 \in 1 .. Len(t) /\ t[last + 1] = e
    BY <1>0, <1>1, <1>4
  <1>7. ASSUME NEW i \in 1 .. Len(t) PROVE t[i] = e \/ \E j \in 1 .. Len(s) : t[i] = s[j]
    <2>1. CASE i < last + 1
      BY <1>0, <1>1, <1>4, <2>1
    <2>2. CASE i > last + 1
      <3>1. i - 1 \in 1 .. Len(s) /\ t[i] = s[i - 1]
        BY <1>0, <1>1, <1>4, <2>2
      <3> QED BY <3>1
    <2> QED BY <1>0, <1>1, <1>6, <2>1, <2>2
  <1>8. ASSUME NEW j \in 1 .. Len(s) PROVE \E i \in 1 .. Len(t) : t[i] = s[j]
    <2>1. CASE j < last + 1
      <3>1. j \in 1 .. Len(t) /\ t[j] = s[j]
        BY <1>0, <1>1, <1>4, <2>1
      <3> QED BY <3>1
    <2>2. CASE j >= last + 1
      <3>1. j + 1 \in 1 .. Len(t) /\ t[j + 1] = s[j]
        BY <1>0, <1>1, <1>4, <2>2
      <3> QED BY <3>1
    <2> QED BY <1>0, <1>1, <2>1, <2>2
  <1> QED BY <1>2, <1>4, <1>5, <1>6, <1>7, <1>8 DEF Enters

LEMMA LeastIndex ==
  ASSUME NEW s \in Seq(Events), NEW T, T \in SUBSET (1 .. Len(s)), T # {}
  PROVE  \E i \in T : \A j \in 1 .. i - 1 : j \notin T
  <1>1. T \in SUBSET Nat
    OBVIOUS
  <1>2. PICK m \in T : \A k \in T : m <= k
    BY <1>1, LeastNat
  <1>3. m \in Nat /\ \A j \in 1 .. m - 1 : j \notin T
    BY <1>1, <1>2
  <1> QED BY <1>3

\* The first event of e's coalescing key, if there is one.
SameIndex(s, e) == FirstIndex(s, LAMBDA f : SameCoalescingKey(f, e))

LEMMA SameIndexProperties ==
  ASSUME NEW s \in Seq(Events), NEW e
  PROVE  /\ SameIndex(s, e) \in 0 .. Len(s)
         /\ SameIndex(s, e) # 0 => SameCoalescingKey(s[SameIndex(s, e)], e)
  <1> DEFINE T == {i \in 1 .. Len(s) : SameCoalescingKey(s[i], e)}
             Is(i) == SameCoalescingKey(s[i], e) /\ \A j \in 1 .. i - 1 : ~SameCoalescingKey(s[j], e)
  <1>0. DOMAIN s = 1 .. Len(s) /\ Len(s) \in Nat
    OBVIOUS
  <1>1. CASE T = {}
    <2>1. SameIndex(s, e) = 0
      BY <1>0, <1>1 DEF SameIndex, FirstIndex
    <2> QED BY <1>0, <2>1
  <1>2. CASE T # {}
    <2>1. PICK i \in T : \A j \in 1 .. i - 1 : j \notin T
      BY <1>2, LeastIndex
    <2>2. i \in DOMAIN s /\ Is(i)
      BY <1>0, <2>1
    <2>3. SameIndex(s, e) = CHOOSE x \in DOMAIN s : Is(x)
      BY <1>0, <2>2 DEF SameIndex, FirstIndex
    <2> HIDE DEF Is
    <2>4. SameIndex(s, e) \in DOMAIN s /\ Is(SameIndex(s, e))
      BY <2>2, <2>3
    <2> QED BY <1>0, <2>4 DEF Is
  <1> QED BY <1>1, <1>2

\* What the buffer limit drops is not protected.
LEMMA DropIndexProperties ==
  ASSUME NEW s \in Seq(Events)
  PROVE  /\ DropIndex(s) \in 0 .. Len(s)
         /\ DropIndex(s) # 0 => ~DropProtected(s[DropIndex(s)])
  <1> DEFINE low == FirstIndex(s, Droppable)
             unprotected == FirstIndex(s, LAMBDA e : ~DropProtected(e))
  <1>0. DOMAIN s = 1 .. Len(s) /\ Len(s) \in Nat
    OBVIOUS
  <1>1. low \in 0 .. Len(s) /\ (low # 0 => ~DropProtected(s[low]))
    <2> DEFINE T == {i \in 1 .. Len(s) : Droppable(s[i])}
               Is(i) == Droppable(s[i]) /\ \A j \in 1 .. i - 1 : ~Droppable(s[j])
    <2>1. CASE T = {}
      <3>1. low = 0
        BY <1>0, <2>1 DEF FirstIndex
      <3> QED BY <1>0, <3>1
    <2>2. CASE T # {}
      <3>1. PICK i \in T : \A j \in 1 .. i - 1 : j \notin T
        BY <2>2, LeastIndex
      <3>2. i \in DOMAIN s /\ Is(i)
        BY <1>0, <3>1
      <3>3. low = CHOOSE x \in DOMAIN s : Is(x)
        BY <1>0, <3>2 DEF FirstIndex
      <3> HIDE DEF Is, low
      <3>4. low \in DOMAIN s /\ Is(low)
        BY <3>2, <3>3
      <3>5. \A e : Droppable(e) => ~DropProtected(e)
        BY DEF Droppable, MarketRefresh, DropProtected, Critical
      <3> QED BY <1>0, <3>4, <3>5 DEF Is
    <2> QED BY <2>1, <2>2
  <1>2. unprotected \in 0 .. Len(s) /\ (unprotected # 0 => ~DropProtected(s[unprotected]))
    <2> DEFINE T == {i \in 1 .. Len(s) : ~DropProtected(s[i])}
               Is(i) == ~DropProtected(s[i]) /\ \A j \in 1 .. i - 1 : ~~DropProtected(s[j])
    <2>1. CASE T = {}
      <3>1. unprotected = 0
        BY <1>0, <2>1 DEF FirstIndex
      <3> QED BY <1>0, <3>1
    <2>2. CASE T # {}
      <3>1. PICK i \in T : \A j \in 1 .. i - 1 : j \notin T
        BY <2>2, LeastIndex
      <3>2. i \in DOMAIN s /\ Is(i)
        BY <1>0, <3>1
      <3>3. unprotected = CHOOSE x \in DOMAIN s : Is(x)
        BY <1>0, <3>2 DEF FirstIndex
      <3> HIDE DEF Is, unprotected
      <3>4. unprotected \in DOMAIN s /\ Is(unprotected)
        BY <3>2, <3>3
      <3> QED BY <1>0, <3>4 DEF Is
    <2> QED BY <2>1, <2>2
  <1>3. DropIndex(s) = IF low # 0 THEN low ELSE unprotected
    BY DEF DropIndex
  <1> HIDE DEF low, unprotected
  <1> QED BY <1>1, <1>2, <1>3

LEMMA SameKeyIsPlain ==
  ASSUME NEW f, NEW e, SameCoalescingKey(f, e)
  PROVE  ~DropProtected(f) /\ ~Critical(f)
  BY DEF SameCoalescingKey, Coalescing, MarketRefresh, DropProtected, Critical

LEMMA AppendEnters ==
  ASSUME NEW s \in Seq(Events), Sorted(s), NEW e \in Events, ~Critical(e)
  PROVE  Enters(Append(s, e), s, e)
  <1> DEFINE t == Append(s, e)
  <1>1. /\ t \in Seq(Events) /\ Len(t) = Len(s) + 1 /\ Len(s) \in Nat
        /\ \A i \in 1 .. Len(s) : t[i] = s[i]
        /\ t[Len(s) + 1] = e
    OBVIOUS
  <1> HIDE DEF t
  <1>2. \A i \in 1 .. Len(t) : i \in 1 .. Len(s) \/ i = Len(s) + 1
    BY <1>1
  <1>3. Sorted(t)
    BY <1>1, <1>2 DEF Sorted
  <1>4. Len(s) + 1 \in 1 .. Len(t)
    BY <1>1
  <1>5. \A i \in 1 .. Len(s) : i \in 1 .. Len(t)
    BY <1>1
  <1>6. Enters(t, s, e)
    BY <1>1, <1>2, <1>3, <1>4, <1>5 DEF Enters
  <1> QED BY <1>6 DEF t

LEMMA CoalesceEnters ==
  ASSUME NEW s \in Seq(Events), Sorted(s), NEW e \in Events, ~Critical(e), SameIndex(s, e) # 0
  PROVE  Enters(CoalesceEvent(s, e), s, e)
  <1> DEFINE k == SameIndex(s, e)
             t == [s EXCEPT ![k] = e]
  <1>1. k \in 1 .. Len(s) /\ SameCoalescingKey(s[k], e)
    BY SameIndexProperties
  <1>2. CoalesceEvent(s, e) = t
    BY DEF CoalesceEvent, SameIndex, ReplaceAt
  <1> HIDE DEF k
  <1>3. /\ t \in Seq(Events) /\ Len(t) = Len(s)
        /\ \A i \in 1 .. Len(s) : t[i] = IF i = k THEN e ELSE s[i]
    BY <1>1, ExceptSeq
  <1> HIDE DEF t
  <1>4. Sorted(t)
    BY <1>3 DEF Sorted
  <1>5. Enters(t, s, e)
    BY <1>1, <1>3, <1>4 DEF Enters
  <1> QED BY <1>2, <1>5

\* enqueue_event before the limit: the new event is in, and at most an event with its
\* coalescing key has gone.
LEMMA EnqueuedEnters ==
  ASSUME NEW s \in Seq(Events), Sorted(s), NEW e \in Events,
         \A i \in 1 .. Len(s) : s[i].n < e.n
  PROVE  Enters(Enqueued(s, e), s, e)
  <1> DEFINE same == SameIndex(s, e)
  <1>1. same \in 0 .. Len(s) /\ (same # 0 => SameCoalescingKey(s[same], e))
    BY SameIndexProperties
  <1>2. Enqueued(s, e) =
          IF Critical(e) THEN InsertAfterCommandCritical(s, e)
          ELSE IF Priority(e) THEN InsertAfterCommandCritical(IF same # 0 THEN RemoveAt(s, same) ELSE s, e)
          ELSE IF Len(s) >= CoalesceAfter /\ same # 0 THEN CoalesceEvent(s, e)
          ELSE Append(s, e)
    BY DEF Enqueued, SameIndex
  <1> HIDE DEF same
  <1>3. CASE Critical(e)
    BY <1>2, <1>3, InsertAfterEnters
  <1>4. CASE ~Critical(e) /\ Priority(e)
    <2>1. CASE same = 0
      BY <1>2, <1>4, <2>1, InsertAfterEnters
    <2>2. CASE same # 0
      <3> DEFINE r == RemoveAt(s, same)
                 t == InsertAfterCommandCritical(r, e)
      <3>0. same \in 1 .. Len(s)
        BY <1>1, <2>2
      <3>1. Leaves(r, s, same)
        BY <3>0, RemoveAtLeaves
      <3>2. Enqueued(s, e) = t
        BY <1>2, <1>4, <2>2
      <3> HIDE DEF r
      <3>3. r \in Seq(Events) /\ Sorted(r) /\ \A i \in 1 .. Len(r) : r[i].n < e.n
        BY <3>1 DEF Leaves
      <3>4. Enters(t, r, e)
        BY <3>3, InsertAfterEnters
      <3> HIDE DEF t
      <3>5. \A i \in 1 .. Len(t) : t[i] = e \/ \E j \in 1 .. Len(s) : t[i] = s[j]
        BY <3>1, <3>4 DEF Enters, Leaves
      <3>6. ASSUME NEW j \in 1 .. Len(s)
            PROVE  SameCoalescingKey(s[j], e) \/ \E i \in 1 .. Len(t) : t[i] = s[j]
        <4>1. CASE j = same
          BY <1>1, <2>2, <4>1
        <4>2. CASE j # same
          <5>1. PICK a \in 1 .. Len(r) : r[a] = s[j]
            BY <3>1, <4>2 DEF Leaves
          <5>2. SameCoalescingKey(r[a], e) \/ \E i \in 1 .. Len(t) : t[i] = r[a]
            BY <3>4 DEF Enters
          <5> QED BY <5>1, <5>2
        <4> QED BY <4>1, <4>2
      <3>7. Enters(t, s, e)
        BY <3>4, <3>5, <3>6 DEF Enters
      <3> QED BY <3>2, <3>7
    <2> QED BY <2>1, <2>2
  <1>5. CASE ~Critical(e) /\ ~Priority(e) /\ Len(s) >= CoalesceAfter /\ same # 0
    BY <1>2, <1>5, CoalesceEnters DEF same
  <1>6. CASE ~Critical(e) /\ ~Priority(e) /\ ~(Len(s) >= CoalesceAfter /\ same # 0)
    BY <1>2, <1>6, AppendEnters
  <1> QED BY <1>3, <1>4, <1>5, <1>6

\* _enforce_buffer_limit_locked drops nothing or one event that is not protected.
LEMMA LimitLeaves ==
  ASSUME NEW s \in Seq(Events), Sorted(s)
  PROVE  \/ EnforceBufferLimit(s) = s
         \/ \E k \in 1 .. Len(s) : Leaves(EnforceBufferLimit(s), s, k) /\ ~DropProtected(s[k])
  <1> DEFINE k == DropIndex(s)
  <1>1. k \in 0 .. Len(s) /\ (k # 0 => ~DropProtected(s[k]))
    BY DropIndexProperties
  <1>2. EnforceBufferLimit(s) = IF Len(s) > MaxBuffer /\ k # 0 THEN RemoveAt(s, k) ELSE s
    BY DEF EnforceBufferLimit
  <1> HIDE DEF k
  <1>3. CASE ~(Len(s) > MaxBuffer /\ k # 0)
    BY <1>2, <1>3
  <1>4. CASE Len(s) > MaxBuffer /\ k # 0
    <2>1. k \in 1 .. Len(s)
      BY <1>1, <1>4
    <2> QED BY <1>1, <1>2, <1>4, <2>1, RemoveAtLeaves
  <1> QED BY <1>3, <1>4

-----------------------------------------------------------------------------
(* The choice of a batch *)

LEMMA TakeProperties ==
  ASSUME NEW s \in Seq(Events), NEW n, n \in Nat
  PROVE  /\ Take(s, n) \in Seq(Events)
         /\ Len(Take(s, n)) = Least(n, Len(s))
         /\ \A i \in 1 .. Len(Take(s, n)) : i \in 1 .. Len(s) /\ Take(s, n)[i] = s[i]
  <1> DEFINE m == Least(n, Len(s))
  <1>0. Len(s) \in Nat /\ m \in 0 .. Len(s)
    BY DEF Least
  <1>1. Take(s, n) = SubSeq(s, 1, m)
    BY DEF Take
  <1> HIDE DEF m
  <1>2. /\ SubSeq(s, 1, m) \in Seq(Events)
        /\ Len(SubSeq(s, 1, m)) = IF 1 <= m THEN m - 1 + 1 ELSE 0
        /\ \A i \in 1 .. m - 1 + 1 : SubSeq(s, 1, m)[i] = s[1 + i - 1]
    <2>1. \A i \in 1 .. m : s[i] \in Events
      BY <1>0
    <2> QED BY <1>0, <2>1, SubSeqProperties
  <1> DEFINE t == SubSeq(s, 1, m)
  <1> HIDE DEF t
  <1>3. t \in Seq(Events) /\ Len(t) = m /\ \A i \in 1 .. m : i \in 1 .. Len(s) /\ t[i] = s[i]
    BY <1>0, <1>2 DEF t
  <1> QED BY <1>1, <1>3 DEF m, t

Limit == Least(BatchSize, Len(events))

LEMMA LimitType == events \in Seq(Events) => Limit \in Nat /\ Limit <= BatchSize /\ BatchSize \in Nat
  BY WorkerConstants DEF Limit, Least

\* t is the selection and, up to the limit, the head of x: what of the pool matches.
Added(t, x, pool, class, n, selected) ==
  /\ KeptWell(x, pool, class \ Range(selected), Len(pool))
  /\ t \in Seq(Events)
  /\ Len(t) = Len(selected) + Least(Least(n, Limit - Len(selected)), Len(x))
  /\ \A i \in 1 .. Len(selected) : t[i] = selected[i]
  /\ \A i \in 1 .. Len(t) :
       i > Len(selected) => i - Len(selected) \in 1 .. Len(x) /\ t[i] = x[i - Len(selected)]

\* One call of add_matching.
LEMMA AddMatchingProperties ==
  ASSUME events \in Seq(Events), NEW pool, pool \in Seq(Events), NEW class, class \in SUBSET Events,
         NEW n, n \in Nat, NEW selected, selected \in Seq(Events), Len(selected) <= Limit
  PROVE  \E x : Added(AddMatching(pool, class, n)[selected], x, pool, class, n, selected)
  <1> DEFINE S == class \ Range(selected)
             x == Keep(S)[pool]
             m == Least(n, Limit - Len(selected))
             y == Take(x, m)
             t == selected \o y
  <1>1. KeptWell(x, pool, S, Len(pool))
    BY KeepProperties
  <1>2. x \in Seq(Events) /\ Len(x) \in Nat
    BY <1>1 DEF KeptWell
  <1>3. Limit \in Nat /\ Len(selected) \in Nat
    BY LimitType
  <1>4. m \in Nat
    BY <1>3 DEF Least
  <1>5. t = AddMatching(pool, class, n)[selected]
    BY DEF AddMatching, Limit
  <1> HIDE DEF x, m
  <1>6. /\ y \in Seq(Events) /\ Len(y) = Least(m, Len(x))
        /\ \A i \in 1 .. Len(y) : i \in 1 .. Len(x) /\ y[i] = x[i]
    BY <1>2, <1>4, TakeProperties
  <1> HIDE DEF y
  <1>7. /\ t \in Seq(Events) /\ Len(t) = Len(selected) + Len(y)
        /\ \A i \in 1 .. Len(selected) + Len(y) :
             t[i] = IF i <= Len(selected) THEN selected[i] ELSE y[i - Len(selected)]
    BY <1>6, ConcatProperties
  <1> HIDE DEF t
  <1>8. \A i \in 1 .. Len(selected) : t[i] = selected[i]
    BY <1>3, <1>6, <1>7
  <1>9. ASSUME NEW i \in 1 .. Len(t), i > Len(selected)
        PROVE  i - Len(selected) \in 1 .. Len(x) /\ t[i] = x[i - Len(selected)]
    <2>1. i - Len(selected) \in 1 .. Len(y) /\ t[i] = y[i - Len(selected)]
      BY <1>3, <1>6, <1>7, <1>9
    <2> QED BY <1>6, <2>1
  <1>10. Len(t) = Len(selected) + Least(Least(n, Limit - Len(selected)), Len(x))
    BY <1>6, <1>7 DEF m
  <1>11. Added(t, x, pool, class, n, selected)
    BY <1>1, <1>7, <1>8, <1>9, <1>10 DEF Added
  <1> QED BY <1>5, <1>11

\* t continues s up to the limit, with events of the pool that are not command events.
Continues(t, s, pool) ==
  /\ t \in Seq(Events) /\ Len(s) <= Len(t) /\ Len(t) <= Limit
  /\ \A i \in 1 .. Len(s) : t[i] = s[i]
  /\ \A i \in 1 .. Len(t) : i > Len(s) => ~Critical(t[i]) /\ \E j \in 1 .. Len(pool) : t[i] = pool[j]

LEMMA AddMatchingContinues ==
  ASSUME events \in Seq(Events), NEW pool, pool \in Seq(Events), NEW class, class \in SUBSET Events,
         NEW n, n \in Nat, NEW selected, selected \in Seq(Events), Len(selected) <= Limit,
         \/ Len(selected) = Limit
         \/ \A e \in class : Critical(e) => e \in Range(selected) \/ \A j \in 1 .. Len(pool) : pool[j] # e
  PROVE  Continues(AddMatching(pool, class, n)[selected], selected, pool)
  <1> DEFINE t == AddMatching(pool, class, n)[selected]
  <1>1. PICK x : Added(t, x, pool, class, n, selected)
    BY AddMatchingProperties
  <1> HIDE DEF t
  <1>2. Limit \in Nat /\ Len(selected) \in Nat /\ Len(x) \in Nat
    BY <1>1, LimitType DEF KeptWell, Added
  <1>3. /\ Len(selected) <= Len(t) /\ Len(t) <= Limit
        /\ Len(selected) = Limit => Len(t) = Len(selected)
    BY <1>1, <1>2 DEF Least, Added
  <1>4. ASSUME NEW i \in 1 .. Len(t), i > Len(selected)
        PROVE  ~Critical(t[i]) /\ \E j \in 1 .. Len(pool) : t[i] = pool[j]
    <2>1. Len(selected) # Limit
      BY <1>2, <1>3, <1>4
    <2>2. i - Len(selected) \in 1 .. Len(x) /\ t[i] = x[i - Len(selected)]
      BY <1>1, <1>4 DEF Added
    <2>3. t[i] \in class \ Range(selected) /\ \E j \in 1 .. Len(pool) : pool[j] = t[i]
      BY <1>1, <2>2 DEF KeptWell, Added
    <2> QED BY <2>1, <2>3
  <1>5. Continues(t, selected, pool)
    BY <1>1, <1>3, <1>4 DEF Continues, Added
  <1> QED BY <1>5 DEF t

LEMMA ContinuesTransitive ==
  ASSUME events \in Seq(Events), NEW pool, NEW r, r \in Seq(Events), NEW s, NEW t,
         Continues(s, r, pool), Continues(t, s, pool)
  PROVE  Continues(t, r, pool)
  <1>1. Len(r) \in Nat /\ Len(s) \in Nat /\ Len(t) \in Nat /\ Limit \in Nat
    BY LimitType DEF Continues
  <1>2. Len(r) <= Len(s) /\ Len(s) <= Len(t) /\ Len(t) <= Limit
    BY DEF Continues
  <1>3. \A i \in 1 .. Len(r) : t[i] = r[i]
    BY <1>1, <1>2 DEF Continues
  <1>4. ASSUME NEW i \in 1 .. Len(t), i > Len(r)
        PROVE  ~Critical(t[i]) /\ \E j \in 1 .. Len(pool) : t[i] = pool[j]
    <2>1. CASE i > Len(s)
      BY <2>1 DEF Continues
    <2>2. CASE i <= Len(s)
      <3>1. i \in 1 .. Len(s) /\ t[i] = s[i]
        BY <1>1, <2>2 DEF Continues
      <3> QED BY <1>4, <3>1 DEF Continues
    <2> QED BY <1>1, <2>1, <2>2
  <1> QED BY <1>1, <1>2, <1>3, <1>4 DEF Continues

\* The events of a batch: from the deque, all fast or none, and the older command
\* events of the deque in front of each command event.
WellChosen(b) ==
  /\ b \in Seq(Events) /\ Len(b) <= BatchSize
  /\ \A i \in 1 .. Len(b) : \E j \in 1 .. Len(events) : b[i] = events[j]
  /\ \A i, j \in 1 .. Len(b) : Fast(b[i]) => Fast(b[j])
  /\ \A i \in 1 .. Len(b), j \in 1 .. Len(events) :
       Critical(b[i]) /\ Critical(events[j]) /\ events[j].n < b[i].n =>
         \E h \in 1 .. i - 1 : b[h] = events[j]

LEMMA BatchIsWellChosen ==
  ASSUME events \in Seq(Events), Sorted(events)
  PROVE  WellChosen(SelectEventBatch)
  <1> DEFINE G == IF SelectBatchFastGroup THEN FastEvents ELSE Events \ FastEvents
             pool == Keep(G)[events]
             none == <<>>
             critical == AddMatching(pool, CriticalEvents, BatchSize)[none]
             priority == AddMatching(pool, PriorityEvents, PriorityShare)[critical]
             market == AddMatching(pool, MarketEvents, MarketShare)[priority]
             b == AddMatching(pool, Events, BatchSize)[market]
  <1>0. /\ Limit \in Nat /\ Limit <= BatchSize /\ BatchSize \in Nat
        /\ PriorityShare \in Nat /\ MarketShare \in Nat
    BY LimitType, WorkerConstants
  <1>1. SelectEventBatch = b
    BY DEF SelectEventBatch
  <1>2. /\ G \in SUBSET Events
        /\ (\A e \in G : Fast(e)) \/ (G = Events \ FastEvents)
    BY DEF FastEvents
  <1> HIDE DEF G
  <1>3. KeptWell(pool, events, G, Len(events))
    BY <1>2, KeepProperties
  <1> HIDE DEF pool
  <1>4. pool \in Seq(Events) /\ Len(pool) \in Nat
    BY <1>3 DEF KeptWell
  <1>5. /\ none \in Seq(Events) /\ Len(none) = 0 /\ CriticalEvents \in SUBSET Events
        /\ CriticalEvents \ Range(none) = CriticalEvents
    BY DEF CriticalEvents, Range
  <1> HIDE DEF none
  <1>6. PICK x : Added(critical, x, pool, CriticalEvents, BatchSize, none)
    <2>1. Len(none) <= Limit
      BY <1>0, <1>5
    <2> QED BY <1>0, <1>4, <1>5, <2>1, AddMatchingProperties
  <1> HIDE DEF critical
  <1>7. /\ KeptWell(x, pool, CriticalEvents, Len(pool)) /\ x \in Seq(Events) /\ Len(x) \in Nat
        /\ critical \in Seq(Events) /\ Len(critical) = Least(Limit, Len(x))
        /\ \A i \in 1 .. Len(critical) : i \in 1 .. Len(x) /\ critical[i] = x[i]
    <2>1. KeptWell(x, pool, CriticalEvents, Len(pool)) /\ critical \in Seq(Events)
      BY <1>5, <1>6 DEF Added
    <2>2. x \in Seq(Events) /\ Len(x) \in Nat
      BY <2>1 DEF KeptWell
    <2>3. Len(critical) = 0 + Least(Least(BatchSize, Limit - 0), Len(x))
      BY <1>5, <1>6 DEF Added
    <2>4. Len(critical) = Least(Limit, Len(x))
      BY <1>0, <2>2, <2>3 DEF Least
    <2>5. ASSUME NEW i \in 1 .. Len(critical) PROVE i \in 1 .. Len(x) /\ critical[i] = x[i]
      <3>1. i > Len(none) /\ i - Len(none) = i
        BY <1>5, <2>1
      <3> QED BY <1>6, <3>1 DEF Added
    <2> QED BY <2>1, <2>2, <2>4, <2>5
  <1>8. \/ Len(critical) = Limit
        \/ \A j \in 1 .. Len(pool) : Critical(pool[j]) => pool[j] \in Range(critical)
    <2> SUFFICES ASSUME Len(critical) # Limit, NEW j \in 1 .. Len(pool), Critical(pool[j])
                 PROVE  pool[j] \in Range(critical)
      OBVIOUS
    <2>1. Len(critical) = Len(x)
      BY <1>0, <1>7 DEF Least
    <2>2. pool[j] \in CriticalEvents
      BY <1>4 DEF CriticalEvents
    <2>3. PICK i \in 1 .. Len(x) : x[i] = pool[j]
      BY <1>7, <2>2 DEF KeptWell
    <2> QED BY <1>7, <2>1, <2>3, RangeOf
  <1>9. Len(critical) <= Limit
    BY <1>0, <1>7 DEF Least
  <1>10. Continues(priority, critical, pool)
    <2>1. PriorityEvents \in SUBSET Events /\ \A e \in PriorityEvents : ~Critical(e)
      BY DEF PriorityEvents
    <2> QED BY <1>0, <1>4, <1>7, <1>9, <2>1, AddMatchingContinues
  <1> HIDE DEF priority
  <1>11. Continues(market, priority, pool)
    <2>1. MarketEvents \in SUBSET Events /\ \A e \in MarketEvents : ~Critical(e)
      BY DEF MarketEvents, MarketRefresh, Critical
    <2>2. priority \in Seq(Events) /\ Len(priority) <= Limit
      BY <1>10 DEF Continues
    <2> QED BY <1>0, <1>4, <2>1, <2>2, AddMatchingContinues
  <1> HIDE DEF market
  <1>12. Continues(market, critical, pool)
    BY <1>7, <1>10, <1>11, ContinuesTransitive
  <1>13. Continues(b, market, pool)
    <2>1. market \in Seq(Events) /\ Len(market) <= Limit /\ Len(critical) <= Len(market)
      BY <1>12 DEF Continues
    <2>2. Len(market) \in Nat /\ Len(critical) \in Nat
      BY <1>7, <2>1
    <2>3. CASE Len(critical) = Limit
      <3>1. Len(market) = Limit
        BY <1>0, <2>1, <2>2, <2>3
      <3> QED BY <1>0, <1>4, <2>1, <3>1, AddMatchingContinues
    <2>4. CASE \A j \in 1 .. Len(pool) : Critical(pool[j]) => pool[j] \in Range(critical)
      <3>1. ASSUME NEW e \in Range(critical) PROVE e \in Range(market)
        <4>1. PICK i \in 1 .. Len(critical) : critical[i] = e
          BY <1>7, RangeOf
        <4>2. i \in 1 .. Len(market) /\ market[i] = e
          BY <1>12, <2>1, <2>2, <4>1 DEF Continues
        <4> QED BY <2>1, <4>2, RangeOf
      <3>2. \A e \in Events : Critical(e) => e \in Range(market) \/ \A j \in 1 .. Len(pool) : pool[j] # e
        BY <2>4, <3>1
      <3> QED BY <1>0, <1>4, <2>1, <3>2, AddMatchingContinues
    <2> QED BY <1>8, <2>3, <2>4
  <1> HIDE DEF b
  <1>14. Continues(b, critical, pool)
    BY <1>7, <1>12, <1>13, ContinuesTransitive
  <1>15. b \in Seq(Events) /\ Len(b) \in Nat /\ Len(b) <= BatchSize /\ Len(critical) <= Len(b)
    BY <1>0, <1>14 DEF Continues
  <1>16. ASSUME NEW i \in 1 .. Len(b)
         PROVE  b[i] \in G /\ \E j \in 1 .. Len(events) : b[i] = events[j]
    <2>1. \E j \in 1 .. Len(pool) : b[i] = pool[j]
      <3>1. CASE i > Len(critical)
        BY <1>14, <3>1 DEF Continues
      <3>2. CASE i <= Len(critical)
        <4>1. i \in 1 .. Len(critical) /\ i \in 1 .. Len(x) /\ b[i] = x[i]
          BY <1>7, <1>14, <1>15, <3>2 DEF Continues
        <4> QED BY <1>7, <4>1 DEF KeptWell
      <3> QED BY <1>7, <3>1, <3>2
    <2> QED BY <1>3, <2>1 DEF KeptWell
  <1>17. \A i, j \in 1 .. Len(b) : Fast(b[i]) => Fast(b[j])
    <2>1. \A i \in 1 .. Len(b) : b[i] \in Events
      BY <1>15
    <2> QED BY <1>2, <1>16, <2>1 DEF FastEvents
  <1>18. ASSUME NEW i \in 1 .. Len(b), NEW j \in 1 .. Len(events),
                Critical(b[i]), Critical(events[j]), events[j].n < b[i].n
         PROVE  \E h \in 1 .. i - 1 : b[h] = events[j]
    <2>1. i \in 1 .. Len(critical) /\ i \in 1 .. Len(x) /\ b[i] = x[i]
      BY <1>7, <1>14, <1>15, <1>18 DEF Continues
    <2>2. events[j] \in G
      <3>1. ~Fast(b[i]) /\ ~Fast(events[j]) /\ events[j] \in Events
        BY <1>18 DEF Fast, Critical
      <3> QED BY <1>2, <1>16, <3>1 DEF FastEvents
    <2>3. PICK a \in 1 .. Len(pool) : pool[a] = events[j]
      BY <1>3, <2>2 DEF KeptWell
    <2>4. pool[a] \in CriticalEvents
      BY <1>4, <1>18, <2>3 DEF CriticalEvents
    <2>5. PICK h \in 1 .. Len(x) : x[h] = pool[a]
      BY <1>7, <2>4 DEF KeptWell
    <2>6. Sorted(pool)
      <3> SUFFICES ASSUME NEW u \in 1 .. Len(pool), NEW v \in 1 .. Len(pool), u < v,
                          Critical(pool[u]), Critical(pool[v])
                   PROVE  pool[u].n < pool[v].n
        BY DEF Sorted
      <3>1. \E y, z \in 1 .. Len(events) : y < z /\ events[y] = pool[u] /\ events[z] = pool[v]
        BY <1>3 DEF KeptWell
      <3> QED BY <3>1 DEF Sorted
    <2>7. h < i
      <3> SUFFICES ASSUME ~(h < i) PROVE FALSE
        OBVIOUS
      <3>0. x[h].n < x[i].n /\ x[h].n \in Int /\ x[i].n \in Int
        <4>1. \A e \in Events : e.n \in Int
          BY DEF Events
        <4>2. x[h] \in Events /\ x[i] \in Events
          BY <1>7, <2>1
        <4>3. x[h].n < x[i].n
          BY <1>18, <2>1, <2>3, <2>5
        <4> QED BY <4>1, <4>2, <4>3
      <3>1. h # i
        BY <3>0
      <3>2. i < h
        BY <1>7, <3>1
      <3>3. PICK y, z \in 1 .. Len(pool) : y < z /\ pool[y] = x[i] /\ pool[z] = x[h]
        BY <1>7, <2>1, <2>5, <3>2 DEF KeptWell
      <3>4. x[i].n < x[h].n
        BY <1>18, <2>1, <2>3, <2>5, <2>6, <3>3 DEF Sorted
      <3> QED BY <3>0, <3>4
    <2>8. h \in 1 .. i - 1 /\ h \in 1 .. Len(critical) /\ b[h] = x[h]
      BY <1>7, <1>14, <2>1, <2>7 DEF Continues
    <2> QED BY <2>3, <2>5, <2>8
  <1>19. WellChosen(b)
    BY <1>15, <1>16, <1>17, <1>18 DEF WellChosen
  <1> QED BY <1>1, <1>19

-----------------------------------------------------------------------------
(* Requests.  P are the produced events, C the ones Core has committed. *)

\* With a command event Core has every older one.
Closed(C, P) == \A e \in C, f \in P : Critical(e) /\ Critical(f) /\ f.n < e.n => f \in C

\* Whatever command event is older than one of the request is with Core, or in the
\* request in front of it.
Ready(r, C, P) ==
  \A i \in 1 .. Len(r), f \in P :
    Critical(r[i]) /\ Critical(f) /\ f.n < r[i].n => f \in C \/ \E h \in 1 .. i - 1 : r[h] = f

Request(r, C, P) ==
  /\ r \in Seq(Events)
  /\ \A i \in 1 .. Len(r) : r[i] \in P
  /\ \A i, j \in 1 .. Len(r) : Fast(r[i]) => Fast(r[j])
  /\ Ready(r, C, P)

ByNumber(P) == P \subseteq Events /\ \A e, f \in P : e.n = f.n => e = f

LEMMA NumberType == \A e \in Events : e.n \in Nat
  BY DEF Events

LEMMA EmptyRequest ==
  ASSUME NEW C, NEW P
  PROVE  Request(<<>>, C, P)
  BY DEF Request, Ready

\* Core learns more, and younger events are produced: a request stays in order.
LEMMA RequestGrows ==
  ASSUME NEW r, NEW C, NEW D, NEW P, NEW Q, Request(r, C, P), C \subseteq D,
         P \subseteq Q, P \subseteq Events, Q \subseteq Events,
         \A f \in Q \ P, e \in P : e.n < f.n
  PROVE  Request(r, D, Q)
  <1>1. Ready(r, D, Q)
    <2> SUFFICES ASSUME NEW i \in 1 .. Len(r), NEW f \in Q, Critical(r[i]), Critical(f), f.n < r[i].n
                 PROVE  f \in D \/ \E h \in 1 .. i - 1 : r[h] = f
      BY DEF Ready
    <2>1. r[i] \in P /\ r[i].n \in Nat /\ f.n \in Nat
      BY NumberType DEF Request
    <2>2. f \in P
      BY <2>1
    <2>3. f \in C \/ \E h \in 1 .. i - 1 : r[h] = f
      BY <2>2 DEF Request, Ready
    <2> QED BY <2>3
  <1> QED BY <1>1 DEF Request

\* One transaction of Core on the request r: core becomes c and q remains.
Commits(c, q, r, P) ==
  /\ c \in Seq(Events) /\ Sorted(c)
  /\ Range(core) \subseteq Range(c) /\ Range(c) \subseteq P
  /\ Closed(Range(c), P)
  /\ Request(q, Range(c), P)
  /\ Range(r) \subseteq Range(q) \cup Range(c)

LEMMA RangeConcat ==
  ASSUME NEW s, s \in Seq(Events), NEW t, t \in Seq(Events)
  PROVE  /\ s \o t \in Seq(Events) /\ Len(s \o t) = Len(s) + Len(t)
         /\ Len(s) \in Nat /\ Len(t) \in Nat
         /\ \A i \in 1 .. Len(s) : (s \o t)[i] = s[i]
         /\ \A i \in 1 .. Len(s) + Len(t) :
              i > Len(s) => i - Len(s) \in 1 .. Len(t) /\ (s \o t)[i] = t[i - Len(s)]
         /\ Range(s \o t) = Range(s) \cup Range(t)
  <1>1. /\ s \o t \in Seq(Events) /\ Len(s \o t) = Len(s) + Len(t)
        /\ \A i \in 1 .. Len(s) + Len(t) : (s \o t)[i] = IF i <= Len(s) THEN s[i] ELSE t[i - Len(s)]
    BY ConcatProperties
  <1>2. Len(s) \in Nat /\ Len(t) \in Nat
    OBVIOUS
  <1> DEFINE u == s \o t
  <1> HIDE DEF u
  <1>3. u \in Seq(Events) /\ Len(u) = Len(s) + Len(t)
    BY <1>1 DEF u
  <1>4. \A i \in 1 .. Len(s) : i \in 1 .. Len(u) /\ u[i] = s[i]
    BY <1>1, <1>2, <1>3 DEF u
  <1>5. \A i \in 1 .. Len(u) : i > Len(s) => i - Len(s) \in 1 .. Len(t) /\ u[i] = t[i - Len(s)]
    BY <1>1, <1>2, <1>3 DEF u
  <1>6. \A i \in 1 .. Len(t) : i + Len(s) \in 1 .. Len(u) /\ u[i + Len(s)] = t[i]
    <2> TAKE i \in 1 .. Len(t)
    <2>1. i + Len(s) \in 1 .. Len(u) /\ i + Len(s) > Len(s) /\ (i + Len(s)) - Len(s) = i
      BY <1>2, <1>3
    <2> QED BY <1>5, <2>1
  <1>7. ASSUME NEW d \in Range(u) PROVE d \in Range(s) \cup Range(t)
    <2>1. PICK i \in 1 .. Len(u) : u[i] = d
      BY <1>3, RangeOf
    <2>2. CASE i \in 1 .. Len(s)
      BY <1>4, <2>1, <2>2, RangeOf
    <2>3. CASE i \notin 1 .. Len(s)
      <3>1. i > Len(s)
        BY <1>2, <1>3, <2>3
      <3> QED BY <1>5, <2>1, <3>1, RangeOf
    <2> QED BY <2>2, <2>3
  <1>8. ASSUME NEW d \in Range(s) PROVE d \in Range(u)
    <2>1. PICK i \in 1 .. Len(s) : s[i] = d
      BY RangeOf
    <2> QED BY <1>3, <1>4, <2>1, RangeOf
  <1>9. ASSUME NEW d \in Range(t) PROVE d \in Range(u)
    <2>1. PICK i \in 1 .. Len(t) : t[i] = d
      BY RangeOf
    <2> QED BY <1>3, <1>6, <2>1, RangeOf
  <1>10. Range(u) = Range(s) \cup Range(t)
    BY <1>7, <1>8, <1>9
  <1> QED BY <1>2, <1>3, <1>4, <1>5, <1>10 DEF u

LEMMA CommitProperties ==
  ASSUME core \in Seq(Events), Sorted(core), NEW P, ByNumber(P), Range(core) \subseteq P,
         Closed(Range(core), P), NEW r, Request(r, Range(core), P), r # <<>>
  PROVE  Commits(Committed(r), Remaining(r), r, P)
  <1> DEFINE w == Committing(r)
             S == Range(r) \ Range(core)
             K == Keep(S)[w]
             c == core \o K
             q == Remaining(r)
  <1>0. /\ r \in Seq(Events) /\ Len(r) \in Nat /\ Len(r) > 0 /\ 1 \in 1 .. Len(r)
        /\ r[1] \in Events /\ r[1] \in P
    BY DEF Request
  <1>1. w \in Seq(Events) /\ S \in SUBSET Events
    <2>1. <<r[1]>> \in Seq(Events)
      BY <1>0
    <2>2. Range(r) \subseteq Events
      BY <1>0, RangeOf
    <2> QED BY <1>0, <2>1, <2>2 DEF Committing
  <1>2. KeptWell(K, w, S, Len(w))
    BY <1>1, KeepProperties
  <1>3. Committed(r) = c
    BY DEF Committed
  <1> HIDE DEF K, S, w
  <1>4. K \in Seq(Events) /\ Len(K) \in Nat /\ Len(core) \in Nat
    BY <1>2 DEF KeptWell
  <1>5. /\ c \in Seq(Events) /\ Len(c) = Len(core) + Len(K)
        /\ \A i \in 1 .. Len(core) : c[i] = core[i]
        /\ \A i \in 1 .. Len(c) : i > Len(core) => i - Len(core) \in 1 .. Len(K) /\ c[i] = K[i - Len(core)]
        /\ Range(c) = Range(core) \cup Range(K)
    BY <1>4, RangeConcat
  <1> HIDE DEF c, q
  <1>6. Range(core) \subseteq Range(c)
    BY <1>5
  <1>7. \A d \in Range(K) : d \in P /\ d \notin Range(core) /\ \E a \in 1 .. Len(w) : w[a] = d
    <2> TAKE d \in Range(K)
    <2>1. PICK i \in 1 .. Len(K) : K[i] = d
      BY <1>4, RangeOf
    <2>2. d \in S /\ \E a \in 1 .. Len(w) : w[a] = d
      BY <1>2, <2>1 DEF KeptWell
    <2>3. PICK j \in 1 .. Len(r) : r[j] = d
      BY <1>0, <2>2, RangeOf DEF S
    <2> QED BY <2>2, <2>3 DEF Request, S
  <1>8. Range(c) \subseteq P
    BY <1>5, <1>7
  <1>9. ASSUME NEW a \in 1 .. Len(w), w[a] \in Range(r) PROVE w[a] \in Range(c)
    <2>1. CASE w[a] \in Range(core)
      BY <1>6, <2>1
    <2>2. CASE w[a] \notin Range(core)
      <3>1. w[a] \in S
        BY <1>9, <2>2 DEF S
      <3>2. PICK i \in 1 .. Len(K) : K[i] = w[a]
        BY <1>2, <3>1 DEF KeptWell
      <3>3. w[a] \in Range(K)
        BY <1>4, <3>2, RangeOf
      <3> QED BY <1>5, <3>3
    <2> QED BY <2>1, <2>2
  <1>10. CASE Fast(r[1])
    <2>1. w = r
      BY <1>10 DEF w, Committing
    <2>2. \A i \in 1 .. Len(r) : ~Critical(r[i])
      <3>1. \A i \in 1 .. Len(r) : Fast(r[i])
        BY <1>0, <1>10 DEF Request
      <3> QED BY <3>1 DEF Fast, Critical
    <2>3. \A d \in Range(K) : ~Critical(d)
      BY <1>7, <2>1, <2>2
    <2>4. Sorted(c)
      <3> SUFFICES ASSUME NEW i \in 1 .. Len(c), NEW j \in 1 .. Len(c), i < j, Critical(c[i]), Critical(c[j])
                   PROVE  c[i].n < c[j].n
        BY DEF Sorted
      <3>1. \A x \in 1 .. Len(c) : x > Len(core) => ~Critical(c[x])
        BY <1>4, <1>5, <2>3, RangeOf
      <3>2. i \in 1 .. Len(core) /\ j \in 1 .. Len(core)
        BY <1>4, <3>1
      <3> QED BY <1>5, <3>2 DEF Sorted
    <2>5. Closed(Range(c), P)
      BY <1>5, <2>3 DEF Closed
    <2>6. q = <<>>
      <3>1. q = SubSeq(r, Len(r) + 1, Len(r))
        BY <2>1 DEF q, Remaining, w
      <3> QED BY <1>0, <3>1, SubSeqEmpty
    <2>7. Range(r) \subseteq Range(c)
      <3> SUFFICES ASSUME NEW d \in Range(r) PROVE d \in Range(c)
        OBVIOUS
      <3>1. PICK i \in 1 .. Len(r) : r[i] = d
        BY <1>0, RangeOf
      <3> QED BY <1>9, <2>1, <3>1
    <2>8. Request(q, Range(c), P)
      BY <2>6, EmptyRequest
    <2> QED BY <1>3, <1>5, <1>6, <1>8, <2>4, <2>5, <2>7, <2>8 DEF Commits, q
  <1>11. CASE ~Fast(r[1])
    <2> DEFINE e == r[1]
    <2>1. w = <<e>>
      BY <1>11 DEF w, Committing
    <2>2. Len(w) = 1 /\ w[1] = e
      BY <2>1
    <2>3. \A d \in Range(K) : d = e
      BY <1>7, <2>2
    <2>4. e \in Range(r)
      BY <1>0, RangeOf
    <2>5. e \in Range(c)
      BY <1>9, <2>2, <2>4
    <2>6. Len(K) <= 1
      BY <1>2, <2>2 DEF KeptWell
    <2>7. Sorted(c)
      <3> SUFFICES ASSUME NEW i \in 1 .. Len(c), NEW j \in 1 .. Len(c), i < j, Critical(c[i]), Critical(c[j])
                   PROVE  c[i].n < c[j].n
        BY DEF Sorted
      <3>1. i \in 1 .. Len(core) /\ c[i] = core[i]
        BY <1>4, <1>5, <2>6
      <3>2. CASE j \in 1 .. Len(core)
        BY <1>5, <3>1, <3>2 DEF Sorted
      <3>3. CASE j > Len(core)
        <4>1. c[j] \in Range(K)
          BY <1>4, <1>5, <3>3, RangeOf
        <4>2. c[j] \in P /\ c[j] \notin Range(core)
          BY <1>7, <4>1
        <4>3. c[i] \in Range(core) /\ c[i] \in P
          BY <3>1, RangeOf
        <4>4. c[i].n \in Nat /\ c[j].n \in Nat
          BY <4>2, <4>3, NumberType DEF ByNumber
        <4>5. c[i].n # c[j].n
          BY <4>2, <4>3 DEF ByNumber
        <4>6. ~(c[j].n < c[i].n)
          BY <4>2, <4>3 DEF Closed
        <4> QED BY <4>4, <4>5, <4>6
      <3> QED BY <1>4, <3>2, <3>3
    <2>8. Closed(Range(c), P)
      <3> SUFFICES ASSUME NEW d \in Range(c), NEW f \in P, Critical(d), Critical(f), f.n < d.n
                   PROVE  f \in Range(c)
        BY DEF Closed
      <3>1. CASE d \in Range(core)
        BY <1>6, <3>1 DEF Closed
      <3>2. CASE d = e
        <4>1. f \in Range(core) \/ \E h \in 1 .. 1 - 1 : r[h] = f
          BY <1>0, <3>2 DEF Request, Ready
        <4> QED BY <1>6, <4>1
      <3> QED BY <1>5, <2>3, <3>1, <3>2
    <2>9. /\ q \in Seq(Events) /\ Len(q) = Len(r) - 1
          /\ \A i \in 1 .. Len(r) - 1 : q[i] = r[i + 1]
      <3>1. q = SubSeq(r, 2, Len(r))
        BY <2>1 DEF q, Remaining, w
      <3>2. /\ SubSeq(r, 2, Len(r)) \in Seq(Events)
            /\ Len(SubSeq(r, 2, Len(r))) = IF 2 <= Len(r) THEN Len(r) - 2 + 1 ELSE 0
            /\ \A i \in 1 .. Len(r) - 2 + 1 : SubSeq(r, 2, Len(r))[i] = r[2 + i - 1]
        <4>1. \A i \in 2 .. Len(r) : r[i] \in Events
          BY <1>0
        <4> QED BY <1>0, <4>1, SubSeqProperties
      <3>3. /\ q \in Seq(Events) /\ Len(q) = IF 2 <= Len(r) THEN Len(r) - 2 + 1 ELSE 0
            /\ \A i \in 1 .. Len(r) - 2 + 1 : q[i] = r[2 + i - 1]
        BY <3>1, <3>2
      <3>4. Len(q) = Len(r) - 1
        <4>1. Len(q) = IF 2 <= Len(r) THEN Len(r) - 2 + 1 ELSE 0
          BY <3>3
        <4>2. CASE 2 <= Len(r)
          BY <1>0, <4>1, <4>2
        <4>3. CASE ~(2 <= Len(r))
          <5>1. Len(r) = 1
            <6>1. Len(r) \in Nat /\ Len(r) > 0
              BY <1>0
            <6>2. \A n \in Nat : n > 0 /\ ~(2 <= n) => n = 1
              OBVIOUS
            <6> QED BY <4>3, <6>1, <6>2
          <5>2. Len(q) = 0
            BY <4>1, <4>3
          <5> QED BY <5>1, <5>2
        <4> QED BY <4>2, <4>3
      <3>5. ASSUME NEW i \in 1 .. Len(r) - 1 PROVE q[i] = r[i + 1]
        <4>1. i \in 1 .. Len(r) - 2 + 1 /\ 2 + i - 1 = i + 1
          BY <1>0
        <4> QED BY <3>3, <4>1
      <3> QED BY <3>3, <3>4, <3>5
    <2>10. \A i \in 1 .. Len(q) : i + 1 \in 1 .. Len(r) /\ q[i] = r[i + 1]
      BY <1>0, <2>9
    <2>11. Ready(q, Range(c), P)
      <3> SUFFICES ASSUME NEW i \in 1 .. Len(q), NEW f \in P, Critical(q[i]), Critical(f), f.n < q[i].n
                   PROVE  f \in Range(c) \/ \E h \in 1 .. i - 1 : q[h] = f
        BY DEF Ready
      <3>1. f \in Range(core) \/ \E h \in 1 .. (i + 1) - 1 : r[h] = f
        BY <2>10 DEF Request, Ready
      <3>2. CASE f \in Range(core)
        BY <1>6, <3>2
      <3>3. CASE \E h \in 1 .. (i + 1) - 1 : r[h] = f
        <4>1. PICK h \in 1 .. i : r[h] = f
          BY <3>3
        <4>2. CASE h = 1
          BY <2>5, <4>1, <4>2
        <4>3. CASE h > 1
          <5>1. h - 1 \in 1 .. i - 1 /\ h - 1 \in 1 .. Len(r) - 1 /\ (h - 1) + 1 = h
            BY <1>0, <2>9, <4>3
          <5>2. q[h - 1] = f
            BY <2>9, <4>1, <5>1
          <5> QED BY <5>1, <5>2
        <4> QED BY <4>2, <4>3
      <3> QED BY <3>1, <3>2, <3>3
    <2>12. Request(q, Range(c), P)
      BY <2>9, <2>10, <2>11 DEF Request
    <2>13. Range(r) \subseteq Range(q) \cup Range(c)
      <3> SUFFICES ASSUME NEW d \in Range(r) PROVE d \in Range(q) \cup Range(c)
        OBVIOUS
      <3>1. PICK i \in 1 .. Len(r) : r[i] = d
        BY <1>0, RangeOf
      <3>2. CASE i = 1
        BY <2>5, <3>1, <3>2
      <3>3. CASE i > 1
        <4>1. i - 1 \in 1 .. Len(q) /\ i - 1 \in 1 .. Len(r) - 1 /\ (i - 1) + 1 = i
          BY <1>0, <2>9, <3>3
        <4>2. q[i - 1] = d
          BY <2>9, <3>1, <4>1
        <4> QED BY <2>9, <4>1, <4>2, RangeOf
      <3> QED BY <3>2, <3>3
    <2> QED BY <1>3, <1>5, <1>6, <1>8, <2>7, <2>8, <2>12, <2>13 DEF Commits, q
  <1> QED BY <1>10, <1>11

-----------------------------------------------------------------------------
(* The invariant *)

Produced == Range(produced)
InCore == Range(core)

Numbered == \A i \in 1 .. Len(produced) : produced[i].n = i

DequeInOrder == Sorted(events) /\ Range(events) \subseteq Produced

CoreOrdered == Sorted(core) /\ InCore \subseteq Produced /\ Closed(InCore, Produced)

RequestsInOrder ==
  /\ Request(todo, InCore, Produced)
  /\ \A r \in late : r # <<>> /\ Request(r, InCore, Produced)

\* Core has what is no longer to be committed of the batch.
PostedIsCommitted == Range(batch) \subseteq Range(todo) \cup InCore

Inv ==
  /\ TypeOK /\ Numbered /\ DequeInOrder /\ CoreOrdered /\ RequestsInOrder /\ PostedIsCommitted
  /\ ProtectedNeverLost /\ NewestSurvives

LEMMA ProducedByNumber ==
  ASSUME produced \in Seq(Events), Numbered
  PROVE  ByNumber(Produced) /\ \A e \in Produced : e.n \in 1 .. Len(produced)
  <1>1. \A e \in Produced : e \in Events /\ \E i \in 1 .. Len(produced) : produced[i] = e /\ e.n = i
    BY RangeOf DEF Produced, Numbered
  <1>2. \A e, f \in Produced : e.n = f.n => e = f
    BY <1>1
  <1> QED BY <1>1, <1>2 DEF ByNumber

LEMMA InitInv == Init => Inv
  <1> SUFFICES ASSUME Init PROVE Inv
    OBVIOUS
  <1>1. Range(<<>>) = {}
    BY DEF Range
  <1>2. Request(<<>>, {}, {})
    BY EmptyRequest
  <1>3. TypeOK
    BY WorkerConstants DEF Init, TypeOK
  <1>4. Numbered /\ Sorted(<<>>)
    BY DEF Init, Numbered, Sorted
  <1>5. Closed({}, {})
    BY DEF Closed
  <1> QED BY <1>1, <1>2, <1>3, <1>4, <1>5 DEF Init, Inv, DequeInOrder, CoreOrdered, RequestsInOrder,
             PostedIsCommitted, ProtectedNeverLost, NewestSurvives, Produced, InCore

-----------------------------------------------------------------------------
(* The producers *)

LEMMA EnqueueEventInv ==
  ASSUME Inv, NEW type \in Types, NEW key \in Keys, EnqueueEvent(type, key)
  PROVE  Inv'
  <1> DEFINE e == Event(type, key, Len(produced) + 1)
             s == Enqueued(events, e)
             u == EnforceBufferLimit(s)
  <1>1. /\ Len(produced) < MaxEvents /\ produced' = Append(produced, e) /\ events' = u
        /\ dropped' = dropped \cup (Range(s) \ Range(u))
        /\ UNCHANGED <<batch, lastFast, todo, late, core, failures>>
    BY DEF EnqueueEvent
  <1>2. /\ produced \in Seq(Events) /\ Len(produced) \in Nat /\ MaxEvents \in Nat
        /\ events \in Seq(Events) /\ core \in Seq(Events) /\ todo \in Seq(Events)
        /\ dropped \subseteq Events
    BY WorkerConstants DEF Inv, TypeOK
  <1>3. e \in Events /\ e.n = Len(produced) + 1
    BY <1>1, <1>2 DEF Event, Events
  <1>4. ByNumber(Produced) /\ \A f \in Produced : f.n \in 1 .. Len(produced)
    BY <1>2, ProducedByNumber DEF Inv
  <1>5. \A f \in Produced : f.n < e.n
    BY <1>2, <1>3, <1>4
  <1> HIDE DEF e
  <1>6. Enters(s, events, e)
    <2>1. \A i \in 1 .. Len(events) : events[i].n < e.n
      BY <1>2, <1>5, RangeOf DEF Inv, DequeInOrder
    <2> QED BY <1>2, <1>3, <2>1, EnqueuedEnters DEF Inv, DequeInOrder
  <1> HIDE DEF s
  <1>7. s \in Seq(Events) /\ Sorted(s)
    BY <1>6 DEF Enters
  <1>8. \/ u = s
        \/ \E k \in 1 .. Len(s) : Leaves(u, s, k) /\ ~DropProtected(s[k])
    BY <1>7, LimitLeaves
  <1> HIDE DEF u
  <1>9. u \in Seq(Events) /\ Sorted(u)
    BY <1>7, <1>8 DEF Leaves
  <1>10. /\ e \in Range(s)
         /\ \A d \in Range(s) : d = e \/ d \in Range(events)
         /\ \A d \in Range(events) : SameCoalescingKey(d, e) \/ d \in Range(s)
    <2>1. e \in Range(s)
      BY <1>6, <1>7, RangeOf DEF Enters
    <2>2. ASSUME NEW d \in Range(s) PROVE d = e \/ d \in Range(events)
      <3>1. PICK i \in 1 .. Len(s) : s[i] = d
        BY <1>7, RangeOf
      <3> QED BY <1>2, <1>6, <3>1, RangeOf DEF Enters
    <2>3. ASSUME NEW d \in Range(events) PROVE SameCoalescingKey(d, e) \/ d \in Range(s)
      <3>1. PICK j \in 1 .. Len(events) : events[j] = d
        BY <1>2, RangeOf
      <3> QED BY <1>6, <1>7, <3>1, RangeOf DEF Enters
    <2> QED BY <2>1, <2>2, <2>3
  <1>11. Range(u) \subseteq Range(s) /\ \A d \in Range(s) : DropProtected(d) => d \in Range(u)
    <2>1. CASE u = s
      BY <2>1
    <2>2. ASSUME NEW k \in 1 .. Len(s), Leaves(u, s, k), ~DropProtected(s[k])
          PROVE  Range(u) \subseteq Range(s) /\ \A d \in Range(s) : DropProtected(d) => d \in Range(u)
      <3>1. ASSUME NEW d \in Range(u) PROVE d \in Range(s)
        <4>1. PICK i \in 1 .. Len(u) : u[i] = d
          BY <1>9, RangeOf
        <4> QED BY <1>7, <2>2, <4>1, RangeOf DEF Leaves
      <3>2. ASSUME NEW d \in Range(s), DropProtected(d) PROVE d \in Range(u)
        <4>1. PICK j \in 1 .. Len(s) : s[j] = d
          BY <1>7, RangeOf
        <4>2. j # k
          BY <2>2, <3>2, <4>1
        <4> QED BY <1>9, <2>2, <4>1, <4>2, RangeOf DEF Leaves
      <3> QED BY <3>1, <3>2
    <2> QED BY <1>8, <2>1, <2>2
  <1>12. /\ produced' \in Seq(Events) /\ Len(produced') = Len(produced) + 1
         /\ Produced' = Produced \cup {e}
         /\ Numbered'
    <2>1. /\ produced' \in Seq(Events) /\ Len(produced') = Len(produced) + 1
          /\ \A i \in 1 .. Len(produced) : produced'[i] = produced[i]
          /\ produced'[Len(produced) + 1] = e
      BY <1>1, <1>2, <1>3
    <2>2. \A i \in 1 .. Len(produced') : i \in 1 .. Len(produced) \/ i = Len(produced) + 1
      BY <1>2, <2>1
    <2>3. Numbered'
      BY <1>3, <2>1, <2>2 DEF Inv, Numbered
    <2>4. ASSUME NEW d \in Range(produced') PROVE d \in Range(produced) \cup {e}
      <3>1. PICK i \in 1 .. Len(produced') : produced'[i] = d
        BY <2>1, RangeOf
      <3> QED BY <1>2, <2>1, <2>2, <3>1, RangeOf
    <2>5. ASSUME NEW d \in Range(produced) PROVE d \in Range(produced')
      <3>1. PICK i \in 1 .. Len(produced) : produced[i] = d
        BY <1>2, RangeOf
      <3>2. i \in 1 .. Len(produced') /\ produced'[i] = d
        BY <1>2, <2>1, <3>1
      <3> QED BY <2>1, <3>2, RangeOf
    <2>6. e \in Range(produced')
      <3>1. Len(produced) + 1 \in 1 .. Len(produced')
        BY <1>2, <2>1
      <3> QED BY <2>1, <3>1, RangeOf
    <2> QED BY <2>1, <2>3, <2>4, <2>5, <2>6 DEF Produced
  <1>13. TypeOK'
    <2>1. Range(s) \subseteq Events
      BY <1>7, RangeOf
    <2> QED BY <1>1, <1>2, <1>9, <1>12, <2>1 DEF Inv, TypeOK
  <1>14. DequeInOrder'
    <2>1. Range(events') \subseteq Produced'
      BY <1>1, <1>10, <1>11, <1>12 DEF Inv, DequeInOrder
    <2> QED BY <1>1, <1>9, <2>1 DEF DequeInOrder
  <1>15. InCore' = InCore /\ core' = core /\ todo' = todo /\ late' = late /\ batch' = batch
    BY <1>1 DEF InCore
  <1>16. Produced \cup {e} \subseteq Events /\ \A f \in (Produced \cup {e}) \ Produced, d \in Produced : d.n < f.n
    BY <1>3, <1>4, <1>5 DEF ByNumber
  <1>17. CoreOrdered'
    <2>1. InCore \subseteq Produced
      BY DEF Inv, CoreOrdered
    <2>2. ASSUME NEW d \in InCore, NEW f \in Produced \cup {e}, Critical(d), Critical(f), f.n < d.n
          PROVE  f \in InCore
      <3>1. d.n < e.n /\ d.n \in Nat /\ e.n \in Nat
        BY <1>2, <1>3, <1>4, <1>5, <2>1
      <3>2. f # e
        BY <2>2, <3>1
      <3> QED BY <2>2, <3>2 DEF Inv, CoreOrdered, Closed
    <2>3. Closed(InCore, Produced \cup {e})
      BY <2>2 DEF Closed
    <2> QED BY <1>12, <1>15, <2>1, <2>3 DEF Inv, CoreOrdered
  <1>18. RequestsInOrder'
    <2>1. ASSUME NEW r, Request(r, InCore, Produced) PROVE Request(r, InCore, Produced \cup {e})
      BY <1>4, <1>16, <2>1, RequestGrows DEF ByNumber
    <2> QED BY <1>12, <1>15, <2>1 DEF Inv, RequestsInOrder
  <1>19. PostedIsCommitted'
    BY <1>15 DEF Inv, PostedIsCommitted
  <1>20. ProtectedNeverLost'
    <2> SUFFICES ASSUME NEW d \in Produced \cup {e}, DropProtected(d) PROVE d \in Range(u) \cup InCore
      BY <1>1, <1>12, <1>15 DEF ProtectedNeverLost, Produced, InCore
    <2>1. CASE d = e
      BY <1>10, <1>11, <2>1
    <2>2. CASE d \in Produced
      <3>1. d \in Range(events) \/ d \in InCore
        BY <2>2 DEF Inv, ProtectedNeverLost, Produced, InCore
      <3>2. ~SameCoalescingKey(d, e)
        BY SameKeyIsPlain
      <3> QED BY <1>10, <1>11, <3>1, <3>2
    <2> QED BY <2>1, <2>2
  <1>21. NewestSurvives'
    <2> SUFFICES ASSUME NEW d \in Produced \cup {e}, Coalescing(d),
                        \A f \in Produced \cup {e} : SameCoalescingKey(d, f) => f.n <= d.n
                 PROVE  d \in Range(u) \cup InCore \cup (dropped \cup (Range(s) \ Range(u)))
      BY <1>1, <1>12, <1>15 DEF NewestSurvives, Produced, InCore
    <2>1. CASE d = e
      BY <1>10, <2>1
    <2>2. CASE d \in Produced
      <3>1. d \in Range(events) \cup InCore \cup dropped
        BY <2>2 DEF Inv, NewestSurvives, Produced, InCore
      <3>2. ~SameCoalescingKey(d, e)
        <4>1. d.n < e.n /\ d.n \in Nat /\ e.n \in Nat
          BY <1>2, <1>3, <1>4, <1>5, <2>2
        <4> QED BY <4>1
      <3> QED BY <1>10, <3>1, <3>2
    <2> QED BY <2>1, <2>2
  <1> QED BY <1>12, <1>13, <1>14, <1>17, <1>18, <1>19, <1>20, <1>21 DEF Inv

-----------------------------------------------------------------------------
(* The worker and Core *)

LEMMA SelectBatchInv ==
  ASSUME Inv, SelectBatch
  PROVE  Inv'
  <1> DEFINE b == SelectEventBatch
  <1>1. /\ batch' = b /\ todo' = b
        /\ UNCHANGED <<produced, events, lastFast, late, core, dropped, failures>>
    BY DEF SelectBatch
  <1>2. /\ events \in Seq(Events) /\ core \in Seq(Events) /\ produced \in Seq(Events)
        /\ Sorted(events) /\ Range(events) \subseteq Produced
    BY DEF Inv, TypeOK, DequeInOrder
  <1>3. WellChosen(b)
    BY <1>2, BatchIsWellChosen
  <1> HIDE DEF b
  <1>4. Ready(b, InCore, Produced)
    <2> SUFFICES ASSUME NEW i \in 1 .. Len(b), NEW f \in Produced, Critical(b[i]), Critical(f), f.n < b[i].n
                 PROVE  f \in InCore \/ \E h \in 1 .. i - 1 : b[h] = f
      BY DEF Ready
    <2>1. CASE f \in InCore
      BY <2>1
    <2>2. CASE f \in Range(events)
      <3>1. PICK j \in 1 .. Len(events) : events[j] = f
        BY <1>2, <2>2, RangeOf
      <3> QED BY <1>3, <3>1 DEF WellChosen
    <2>3. f \in Range(events) \cup InCore
      BY DEF Inv, ProtectedNeverLost, DropProtected, Produced, InCore
    <2> QED BY <2>1, <2>2, <2>3
  <1>5. Request(b, InCore, Produced)
    <2>1. \A i \in 1 .. Len(b) : b[i] \in Produced
      BY <1>2, <1>3, RangeOf DEF WellChosen
    <2> QED BY <1>3, <1>4, <2>1 DEF WellChosen, Request
  <1>6. InCore' = InCore /\ Produced' = Produced
    BY <1>1 DEF InCore, Produced
  <1>7. TypeOK'
    BY <1>1, <1>3 DEF Inv, TypeOK, WellChosen
  <1>8. Numbered' /\ DequeInOrder' /\ CoreOrdered'
    BY <1>1, <1>6 DEF Inv, Numbered, DequeInOrder, CoreOrdered
  <1>9. RequestsInOrder'
    BY <1>1, <1>5, <1>6 DEF Inv, RequestsInOrder
  <1>10. PostedIsCommitted'
    BY <1>1 DEF PostedIsCommitted
  <1>11. ProtectedNeverLost' /\ NewestSurvives'
    BY <1>1 DEF Inv, ProtectedNeverLost, NewestSurvives
  <1> QED BY <1>7, <1>8, <1>9, <1>10, <1>11 DEF Inv

\* One transaction of Core for a request r.
LEMMA CommitKeeps ==
  ASSUME Inv, NEW r, r # <<>>, Request(r, InCore, Produced), core' = Committed(r),
         UNCHANGED <<produced, events, dropped>>
  PROVE  /\ core' \in Seq(Events) /\ InCore \subseteq InCore'
         /\ Numbered' /\ DequeInOrder' /\ CoreOrdered' /\ ProtectedNeverLost' /\ NewestSurvives'
         /\ \A q : Request(q, InCore, Produced) => Request(q, InCore', Produced')
         /\ Request(Remaining(r), InCore', Produced')
         /\ Range(r) \subseteq Range(Remaining(r)) \cup InCore'
  <1>1. /\ core \in Seq(Events) /\ produced \in Seq(Events) /\ Sorted(core)
        /\ InCore \subseteq Produced /\ Closed(InCore, Produced)
    BY DEF Inv, TypeOK, CoreOrdered
  <1>2. ByNumber(Produced)
    BY <1>1, ProducedByNumber DEF Inv
  <1>3. Commits(core', Remaining(r), r, Produced)
    BY <1>1, <1>2, CommitProperties DEF InCore
  <1>4. Produced' = Produced
    BY DEF Produced
  <1>5. /\ core' \in Seq(Events) /\ Sorted(core)' /\ InCore \subseteq InCore' /\ InCore' \subseteq Produced
        /\ Closed(InCore', Produced) /\ Request(Remaining(r), InCore', Produced)
        /\ Range(r) \subseteq Range(Remaining(r)) \cup InCore'
    BY <1>3 DEF Commits, InCore, Sorted
  <1>6. ASSUME NEW q, Request(q, InCore, Produced) PROVE Request(q, InCore', Produced)
    BY <1>2, <1>5, <1>6, RequestGrows DEF ByNumber
  <1>7. Numbered' /\ DequeInOrder'
    BY <1>4 DEF Inv, Numbered, DequeInOrder
  <1>8. CoreOrdered'
    BY <1>4, <1>5 DEF CoreOrdered
  <1>9. ProtectedNeverLost'
    BY <1>5 DEF Inv, ProtectedNeverLost, InCore
  <1>10. NewestSurvives'
    BY <1>5 DEF Inv, NewestSurvives, InCore
  <1> QED BY <1>4, <1>5, <1>6, <1>7, <1>8, <1>9, <1>10

LEMMA CoreCommitsInv ==
  ASSUME Inv, CoreCommits
  PROVE  Inv'
  <1>1. /\ todo # <<>> /\ core' = Committed(todo) /\ todo' = Remaining(todo)
        /\ UNCHANGED <<produced, events, batch, lastFast, late, dropped, failures>>
    BY DEF CoreCommits
  <1>2. Request(todo, InCore, Produced)
    BY DEF Inv, RequestsInOrder
  <1>3. /\ core' \in Seq(Events) /\ InCore \subseteq InCore'
        /\ Numbered' /\ DequeInOrder' /\ CoreOrdered' /\ ProtectedNeverLost' /\ NewestSurvives'
        /\ \A q : Request(q, InCore, Produced) => Request(q, InCore', Produced')
        /\ Request(todo', InCore', Produced')
        /\ Range(todo) \subseteq Range(todo') \cup InCore'
    BY <1>1, <1>2, CommitKeeps
  <1>4. TypeOK'
    <2>1. todo' \in Seq(Events)
      BY <1>3 DEF Request
    <2> QED BY <1>1, <1>3, <2>1 DEF Inv, TypeOK
  <1>5. RequestsInOrder'
    BY <1>1, <1>3 DEF Inv, RequestsInOrder
  <1>6. PostedIsCommitted'
    BY <1>1, <1>3 DEF Inv, PostedIsCommitted
  <1> QED BY <1>3, <1>4, <1>5, <1>6 DEF Inv

LEMMA CoreCommitsLateInv ==
  ASSUME Inv, NEW request, request \in late, CoreCommitsLate(request)
  PROVE  Inv'
  <1> DEFINE q == Remaining(request)
  <1>1. /\ core' = Committed(request) /\ late' = (late \ {request}) \cup ({q} \ {<<>>})
        /\ UNCHANGED <<produced, events, batch, lastFast, todo, dropped, failures>>
    BY DEF CoreCommitsLate
  <1>2. request # <<>> /\ Request(request, InCore, Produced)
    BY DEF Inv, RequestsInOrder
  <1>3. /\ core' \in Seq(Events) /\ InCore \subseteq InCore'
        /\ Numbered' /\ DequeInOrder' /\ CoreOrdered' /\ ProtectedNeverLost' /\ NewestSurvives'
        /\ \A x : Request(x, InCore, Produced) => Request(x, InCore', Produced')
        /\ Request(q, InCore', Produced')
    BY <1>1, <1>2, CommitKeeps
  <1> HIDE DEF q
  <1>4. \A x \in late' : x \in late \/ (x = q /\ x # <<>>)
    BY <1>1
  <1>5. TypeOK'
    <2>1. q \in Seq(Events)
      BY <1>3 DEF Request
    <2>2. \A x \in late' : x \in Seq(Events)
      BY <1>4, <2>1 DEF Inv, TypeOK
    <2> QED BY <1>1, <1>3, <2>2 DEF Inv, TypeOK
  <1>6. RequestsInOrder'
    <2>1. Request(todo', InCore', Produced')
      BY <1>1, <1>3 DEF Inv, RequestsInOrder
    <2>2. \A x \in late' : x # <<>> /\ Request(x, InCore', Produced')
      BY <1>3, <1>4 DEF Inv, RequestsInOrder
    <2> QED BY <2>1, <2>2 DEF RequestsInOrder
  <1>7. PostedIsCommitted'
    BY <1>1, <1>3 DEF Inv, PostedIsCommitted
  <1> QED BY <1>3, <1>5, <1>6, <1>7 DEF Inv

LEMMA BatchPostedInv ==
  ASSUME Inv, BatchPosted
  PROVE  Inv'
  <1> DEFINE S == Range(events) \ Range(batch)
             u == Keep(S)[events]
  <1>1. /\ todo = <<>> /\ events' = u /\ batch' = <<>> /\ lastFast' \in {"yes", "no"}
        /\ UNCHANGED <<produced, todo, late, core, dropped, failures>>
    BY DEF BatchPosted, RemovePosted
  <1>2. /\ events \in Seq(Events) /\ batch \in Seq(Events) /\ Sorted(events) /\ Range(events) \subseteq Produced
    BY DEF Inv, TypeOK, DequeInOrder
  <1>3. KeptWell(u, events, S, Len(events))
    <2>1. S \in SUBSET Events
      BY <1>2, RangeOf
    <2> QED BY <1>2, <2>1, KeepProperties
  <1> HIDE DEF u
  <1>4. u \in Seq(Events) /\ Sorted(u)
    <2>1. u \in Seq(Events)
      BY <1>3 DEF KeptWell
    <2> SUFFICES ASSUME NEW i \in 1 .. Len(u), NEW j \in 1 .. Len(u), i < j, Critical(u[i]), Critical(u[j])
                 PROVE  u[i].n < u[j].n
      BY <2>1 DEF Sorted
    <2>2. PICK x \in 1 .. Len(events), y \in 1 .. Len(events) :
            x < y /\ events[x] = u[i] /\ events[y] = u[j]
      BY <1>3 DEF KeptWell
    <2>3. events[x].n < events[y].n
      BY <1>2, <2>2 DEF Sorted
    <2> QED BY <2>2, <2>3
  <1>5. Range(u) \subseteq Range(events)
    <2> SUFFICES ASSUME NEW d \in Range(u) PROVE d \in Range(events)
      OBVIOUS
    <2>1. PICK i \in 1 .. Len(u) : u[i] = d
      BY <1>4, RangeOf
    <2>2. d \in S
      BY <1>3, <2>1 DEF KeptWell
    <2> QED BY <2>2
  <1>6. ASSUME NEW d \in Range(events) PROVE d \in Range(u) \/ d \in InCore
    <2>1. CASE d \in Range(batch)
      <3>1. Range(todo) = {}
        BY <1>1 DEF Range
      <3> QED BY <2>1, <3>1 DEF Inv, PostedIsCommitted
    <2>2. CASE d \notin Range(batch)
      <3>1. PICK a \in 1 .. Len(events) : events[a] = d
        BY <1>2, RangeOf
      <3>2. PICK i \in 1 .. Len(u) : u[i] = d
        BY <1>3, <2>2, <3>1 DEF KeptWell
      <3> QED BY <1>4, <3>2, RangeOf
    <2> QED BY <2>1, <2>2
  <1> HIDE DEF S
  <1>7. InCore' = InCore /\ Produced' = Produced
    BY <1>1 DEF InCore, Produced
  <1>8. TypeOK'
    <2>1. <<>> \in Seq(Events) /\ Len(<<>>) <= BatchSize
      BY WorkerConstants
    <2> QED BY <1>1, <1>4, <2>1 DEF Inv, TypeOK
  <1>9. Numbered' /\ CoreOrdered' /\ RequestsInOrder'
    BY <1>1, <1>7 DEF Inv, Numbered, CoreOrdered, RequestsInOrder
  <1>10. DequeInOrder'
    BY <1>1, <1>2, <1>4, <1>5, <1>7 DEF DequeInOrder
  <1>11. PostedIsCommitted'
    <2>1. Range(batch') = {}
      BY <1>1 DEF Range
    <2> QED BY <2>1 DEF PostedIsCommitted
  <1>12. ProtectedNeverLost'
    <2> SUFFICES ASSUME NEW d \in Range(produced), DropProtected(d) PROVE d \in Range(u) \cup InCore
      BY <1>1, <1>7 DEF ProtectedNeverLost, InCore
    <2>1. d \in Range(events) \/ d \in InCore
      BY DEF Inv, ProtectedNeverLost, InCore
    <2> QED BY <1>6, <2>1
  <1>13. NewestSurvives'
    <2> SUFFICES ASSUME NEW d \in Range(produced), Coalescing(d),
                        \A f \in Range(produced) : SameCoalescingKey(d, f) => f.n <= d.n
                 PROVE  d \in Range(u) \cup InCore \cup dropped
      BY <1>1, <1>7 DEF NewestSurvives, InCore
    <2>1. d \in Range(events) \cup InCore \cup dropped
      BY DEF Inv, NewestSurvives, InCore
    <2> QED BY <1>6, <2>1
  <1> QED BY <1>8, <1>9, <1>10, <1>11, <1>12, <1>13 DEF Inv

\* The worker forgets its batch; a request Core has not finished may stay behind.
LEMMA BatchFailsInv ==
  ASSUME Inv, BatchRefused \/ BatchAbandoned
  PROVE  Inv'
  <1>1. /\ failures < MaxFailures /\ failures' = failures + 1 /\ batch' = <<>> /\ todo' = <<>>
        /\ \A r \in late' : r \in late \/ (r = todo /\ r # <<>>)
        /\ UNCHANGED <<produced, events, lastFast, core, dropped>>
    BY DEF BatchRefused, BatchAbandoned
  <1>2. InCore' = InCore /\ Produced' = Produced
    BY <1>1 DEF InCore, Produced
  <1>3. TypeOK'
    <2>1. <<>> \in Seq(Events) /\ Len(<<>>) <= BatchSize
      BY WorkerConstants
    <2>2. \A r \in late' : r \in Seq(Events)
      BY <1>1 DEF Inv, TypeOK
    <2>3. failures' \in 0 .. MaxFailures
      BY <1>1, WorkerConstants DEF Inv, TypeOK
    <2> QED BY <1>1, <2>1, <2>2, <2>3 DEF Inv, TypeOK
  <1>4. Numbered' /\ DequeInOrder' /\ CoreOrdered'
    BY <1>1, <1>2 DEF Inv, Numbered, DequeInOrder, CoreOrdered
  <1>5. RequestsInOrder'
    <2>1. Request(todo', InCore', Produced')
      BY <1>1, EmptyRequest
    <2>2. \A r \in late' : r # <<>> /\ Request(r, InCore', Produced')
      BY <1>1, <1>2 DEF Inv, RequestsInOrder
    <2> QED BY <2>1, <2>2 DEF RequestsInOrder
  <1>6. PostedIsCommitted'
    <2>1. Range(batch') = {}
      BY <1>1 DEF Range
    <2> QED BY <2>1 DEF PostedIsCommitted
  <1>7. ProtectedNeverLost' /\ NewestSurvives'
    BY <1>1 DEF Inv, ProtectedNeverLost, NewestSurvives
  <1> QED BY <1>3, <1>4, <1>5, <1>6, <1>7 DEF Inv

LEMMA StutterInv ==
  ASSUME Inv, UNCHANGED vars
  PROVE  Inv'
  BY DEF vars, Inv, TypeOK, Numbered, DequeInOrder, CoreOrdered, RequestsInOrder, PostedIsCommitted,
         ProtectedNeverLost, NewestSurvives, Produced, InCore

-----------------------------------------------------------------------------
(* The theorems *)

\* Inv is an invariant of the worker: it holds at the start, and no step of a
\* producer thread, the worker or Core breaks it.
THEOREM Invariance == Spec => []Inv
  <1>1. Inv /\ [Next]_vars => Inv'
    <2> SUFFICES ASSUME Inv, [Next]_vars PROVE Inv'
      OBVIOUS
    <2>1. ASSUME NEW type \in Types, NEW key \in Keys, EnqueueEvent(type, key) PROVE Inv'
      BY <2>1, EnqueueEventInv
    <2>2. CASE SelectBatch
      BY <2>2, SelectBatchInv
    <2>3. CASE CoreCommits
      BY <2>3, CoreCommitsInv
    <2>4. ASSUME NEW request \in late, CoreCommitsLate(request) PROVE Inv'
      BY <2>4, CoreCommitsLateInv
    <2>5. CASE BatchPosted
      BY <2>5, BatchPostedInv
    <2>6. CASE BatchRefused \/ BatchAbandoned
      BY <2>6, BatchFailsInv
    <2>7. CASE UNCHANGED vars
      BY <2>7, StutterInv
    <2> QED BY <2>1, <2>2, <2>3, <2>4, <2>5, <2>6, <2>7 DEF Next
  <1> QED BY <1>1, InitInv, PTL DEF Spec

\* The deque, the batch, the requests and what Core has committed hold events the
\* producers made, and a batch never exceeds event_batch_size (add_matching's limit).
THEOREM TypeCorrect == Spec => []TypeOK
  BY Invariance, PTL DEF Inv

\* No command event and no TR response is lost between enqueue_event and Core's
\* commit: not to _enforce_buffer_limit_locked, not to coalescing, and not to the
\* removal of a posted batch from a deque that producers have changed meanwhile.
THEOREM ProtectedKept == Spec => []ProtectedNeverLost
  BY Invariance, PTL DEF Inv

\* Core commits command events in the order in which the producers emitted them,
\* for any number of failed batches and any interleaving with the requests the
\* worker gave up on and Core is still working through.
THEOREM CommandsInOrder == Spec => []CriticalInOrder
  <1>1. Inv => CriticalInOrder
    BY DEF Inv, CoreOrdered, Sorted, CriticalInOrder
  <1> QED BY <1>1, Invariance, PTL

\* The newest event of each coalescing key is in the deque, with Core or counted
\* as dropped: _coalesce_event_locked and the priority replacement never discard it
\* for an older one.
THEOREM NewestKept == Spec => []NewestSurvives
  BY Invariance, PTL DEF Inv
=============================================================================
