------------------------- MODULE SimOutorderProofs -------------------------
(***************************************************************************)
(* Three parts of sim-outorder that its pipeline calls.  What the          *)
(* pipetrace tells a viewer is right for every range, every queue size and *)
(* every number of instructions and cycles.  The event queue keeps every   *)
(* event and every descriptor, and serves what is due, for any number of   *)
(* events and any times.  A wrong path of a PISA program sees its own      *)
(* registers and stores, and leaves nothing behind, for every memory,      *)
(* every hash table and any number of writes.                              *)
(***************************************************************************)
EXTENDS PipeTrace, EventQ, SpecState, ProofLemmas, FiniteSetTheorems
-----------------------------------------------------------------------------
(* The pipetrace.                                                          *)

Entries == [s : Nat \ {0}, u : Nat]

\* The sequence numbers of the entries of q are all different.
Apart(q) ==
  /\ \A i \in DOMAIN q : q[i].s # q[i].u
  /\ \A i, j \in DOMAIN q : i # j => Seqs(q[i]) \cap Seqs(q[j]) = {}
Distinct(q) == \A i, j \in DOMAIN q : i # j => q[i] # q[j]

TraceShape ==
  /\ ifq \in Seq(Nat \ {0}) /\ ruu \in Seq(Entries) /\ ptrace_seq \in Nat \ {0}
  /\ ptrace_active \in BOOLEAN /\ ptrace_oneshot \in BOOLEAN
  /\ inside \in Seq(BOOLEAN) /\ traced \in Seq(BOOLEAN) /\ Len(inside) = Len(traced)

\* The switch remembers whether some cycle was in the range, and the last
\* cycle that was looked at.
Switch ==
  /\ ptrace_oneshot <=> \E i \in DOMAIN inside : inside[i]
  /\ ptrace_active <=> traced # <<>> /\ traced[Len(traced)]

\* No number is in the pipeline twice, none is given out again, and none comes
\* back once it ended or was dropped.
Numbers ==
  /\ Flight \cup defined \cup ended \cup dropped \subseteq 1..(ptrace_seq - 1)
  /\ Distinct(ifq) /\ Apart(ruu) /\ AllSeqs(ruu) \cap ToSet(ifq) = {}
  /\ Flight \cap (ended \cup dropped) = {}

\* Before the trace is switched on it is empty.
Untraced == ptrace_oneshot \/ (defined = {} /\ ended = {})
Since == ptrace_active => since \in Nat /\ since <= ptrace_seq

TraceInv == TraceShape /\ Switch /\ FirstStretch /\ Numbers /\ Untraced /\ Since /\ ViewerSees

---------------------------------------------------------------------------
(* The numbers of a queue that is cut, shortened or extended.              *)

LEMMA SeqsOf ==
  ASSUME NEW e \in Entries
  PROVE  Seqs(e) = {e.s, e.u} \ {0}
  BY DEF Seqs, Entries

LEMMA AllSeqsOf ==
  ASSUME NEW q \in Seq(Entries), NEW x
  PROVE  x \in AllSeqs(q) <=> \E i \in DOMAIN q : x \in Seqs(q[i])
  BY DEF AllSeqs

\* A cut splits the numbers of a queue of entries in two.
LEMMA Cut ==
  ASSUME NEW q \in Seq(Entries), NEW n \in 0..Len(q), Apart(q)
  PROVE  LET a == SubSeq(q, 1, n)
             b == SubSeq(q, n + 1, Len(q))
         IN  /\ a \in Seq(Entries) /\ b \in Seq(Entries) /\ Apart(a) /\ Apart(b)
             /\ AllSeqs(a) = AllSeqs(q) \ AllSeqs(b)
             /\ AllSeqs(b) = AllSeqs(q) \ AllSeqs(a)
  <1> DEFINE a == SubSeq(q, 1, n)
             b == SubSeq(q, n + 1, Len(q))
  <1>1. a \in Seq(Entries) /\ Len(a) = n /\ \A i \in 1..n : a[i] = q[i]
    OBVIOUS
  <1>2. b \in Seq(Entries) /\ Len(b) = Len(q) - n /\ \A i \in 1..(Len(q) - n) : b[i] = q[i + n]
    OBVIOUS
  <1>3. DOMAIN a = 1..n /\ DOMAIN b = 1..(Len(q) - n) /\ DOMAIN q = 1..Len(q) /\ Len(q) \in Nat
    BY <1>1, <1>2
  <1> HIDE DEF a, b
  <1>4. Apart(a)
    <2>1. \A i \in DOMAIN a : i \in DOMAIN q /\ a[i] = q[i]
      BY <1>1, <1>3
    <2> QED
      BY <2>1 DEF Apart
  <1>5. Apart(b)
    <2>1. \A i \in DOMAIN b : i + n \in DOMAIN q /\ b[i] = q[i + n] /\ i \in Int
      BY <1>2, <1>3
    <2>2. \A i, j \in DOMAIN b : i # j => i + n # j + n
      BY <2>1
    <2> QED
      BY <2>1, <2>2, Zenon DEF Apart
  <1>6. ASSUME NEW x PROVE x \in AllSeqs(q) <=> x \in AllSeqs(a) \/ x \in AllSeqs(b)
    <2>1. x \in AllSeqs(a) <=> \E i \in 1..n : x \in Seqs(q[i])
      BY <1>1, <1>3, AllSeqsOf
    <2>2. x \in AllSeqs(b) <=> \E i \in 1..(Len(q) - n) : x \in Seqs(q[i + n])
      BY <1>2, <1>3, AllSeqsOf
    <2>3. x \in AllSeqs(q) <=> \E i \in 1..Len(q) : x \in Seqs(q[i])
      BY <1>3, AllSeqsOf
    <2>4. ASSUME NEW i \in 1..Len(q), i \notin 1..n PROVE i - n \in 1..(Len(q) - n) /\ i = (i - n) + n
      BY <2>4
    <2>5. ASSUME NEW i \in 1..Len(q), x \in Seqs(q[i]) PROVE x \in AllSeqs(a) \/ x \in AllSeqs(b)
      <3>1. CASE i \in 1..n
        BY <2>1, <2>5, <3>1
      <3>2. CASE i \notin 1..n
        <4>1. i - n \in 1..(Len(q) - n) /\ x \in Seqs(q[(i - n) + n])
          BY <2>4, <2>5, <3>2
        <4> QED
          BY <2>2, <4>1
      <3> QED
        BY <3>1, <3>2
    <2>6. \A i \in 1..n : i \in 1..Len(q)
      BY <1>3
    <2>7. \A i \in 1..(Len(q) - n) : i + n \in 1..Len(q)
      BY <1>3
    <2> QED
      BY <2>1, <2>2, <2>3, <2>5, <2>6, <2>7
  <1>7. AllSeqs(a) \cap AllSeqs(b) = {}
    <2> SUFFICES ASSUME NEW x, x \in AllSeqs(a), x \in AllSeqs(b) PROVE FALSE
      OBVIOUS
    <2>1. PICK i \in 1..n : x \in Seqs(q[i])
      BY <1>1, <1>3, AllSeqsOf
    <2>2. PICK j \in 1..(Len(q) - n) : x \in Seqs(q[j + n])
      BY <1>2, <1>3, AllSeqsOf
    <2>3. i \in DOMAIN q /\ j + n \in DOMAIN q /\ i # j + n
      BY <1>3
    <2> QED
      BY <2>1, <2>2, <2>3 DEF Apart
  <1>8. AllSeqs(a) = AllSeqs(q) \ AllSeqs(b) /\ AllSeqs(b) = AllSeqs(q) \ AllSeqs(a)
    BY <1>6, <1>7
  <1> QED
    BY <1>1, <1>2, <1>4, <1>5, <1>8 DEF a, b

\* A new entry adds its numbers.
LEMMA Extend ==
  ASSUME NEW q \in Seq(Entries), Apart(q), NEW e \in Entries, e.s # e.u, Seqs(e) \cap AllSeqs(q) = {}
  PROVE  LET a == Append(q, e) IN a \in Seq(Entries) /\ Apart(a) /\ AllSeqs(a) = AllSeqs(q) \cup Seqs(e)
  <1> DEFINE a == Append(q, e)
             n == Len(q) + 1
  <1>1. a \in Seq(Entries) /\ DOMAIN a = 1..n /\ DOMAIN q = 1..(n - 1) /\ n \in Nat \ {0}
    OBVIOUS
  <1>2. a[n] = e /\ \A i \in 1..(n - 1) : a[i] = q[i]
    OBVIOUS
  <1> HIDE DEF a, n
  <1>3. \A i \in 1..n : i = n \/ i \in 1..(n - 1)
    BY <1>1
  <1>4. AllSeqs(a) = AllSeqs(q) \cup Seqs(e)
    <2> SUFFICES ASSUME NEW x PROVE x \in AllSeqs(a) <=> x \in AllSeqs(q) \/ x \in Seqs(e)
      OBVIOUS
    <2>1. x \in AllSeqs(a) <=> \E i \in 1..n : x \in Seqs(a[i])
      BY <1>1, AllSeqsOf
    <2>2. x \in AllSeqs(q) <=> \E i \in 1..(n - 1) : x \in Seqs(q[i])
      BY <1>1, AllSeqsOf
    <2>3. n \in 1..n /\ \A i \in 1..(n - 1) : i \in 1..n
      BY <1>1
    <2> QED
      BY <1>2, <1>3, <2>1, <2>2, <2>3
  <1>5. ASSUME NEW i \in DOMAIN q PROVE Seqs(q[i]) \subseteq AllSeqs(q)
    BY DEF AllSeqs
  <1>6. Apart(a)
    <2>1. \A i \in DOMAIN a : a[i].s # a[i].u
      BY <1>1, <1>2, <1>3 DEF Apart
    <2>2. ASSUME NEW i \in DOMAIN a, NEW j \in DOMAIN a, i # j PROVE Seqs(a[i]) \cap Seqs(a[j]) = {}
      <3>1. CASE i = n
        <4>1. j \in DOMAIN q /\ a[j] = q[j]
          BY <1>1, <1>2, <1>3, <2>2, <3>1
        <4> QED
          BY <1>2, <1>5, <3>1, <4>1
      <3>2. CASE j = n
        <4>1. i \in DOMAIN q /\ a[i] = q[i]
          BY <1>1, <1>2, <1>3, <2>2, <3>2
        <4> QED
          BY <1>2, <1>5, <3>2, <4>1
      <3>3. CASE i # n /\ j # n
        BY <1>1, <1>2, <1>3, <2>2, <3>3 DEF Apart
      <3> QED
        BY <3>1, <3>2, <3>3
    <2> QED
      BY <2>1, <2>2 DEF Apart
  <1> QED
    BY <1>1, <1>4, <1>6 DEF a

\* A prefix or a tail of the fetch queue, and a new instruction in it.
LEMMA TailOf ==
  ASSUME NEW q \in Seq(Nat \ {0}), q # <<>>, Distinct(q)
  PROVE  /\ Head(q) \in Nat \ {0} /\ Tail(q) \in Seq(Nat \ {0}) /\ Distinct(Tail(q))
         /\ ToSet(q) = {Head(q)} \cup ToSet(Tail(q)) /\ Head(q) \notin ToSet(Tail(q))
  <1> DEFINE t == Tail(q)
  <1>1. /\ t \in Seq(Nat \ {0}) /\ DOMAIN t = 1..(Len(q) - 1) /\ \A i \in 1..(Len(q) - 1) : t[i] = q[i + 1]
        /\ DOMAIN q = 1..Len(q) /\ Len(q) \in Nat \ {0} /\ Head(q) = q[1] /\ q[1] \in Nat \ {0}
    OBVIOUS
  <1> HIDE DEF t
  <1>2. Distinct(t)
    <2>1. \A i \in DOMAIN t : i + 1 \in DOMAIN q /\ t[i] = q[i + 1] /\ i \in Int
      <3> SUFFICES ASSUME NEW i \in DOMAIN t PROVE i + 1 \in DOMAIN q /\ t[i] = q[i + 1] /\ i \in Int
        OBVIOUS
      <3>1. i \in 1..(Len(q) - 1) /\ Len(q) \in Nat
        BY <1>1
      <3> QED
        BY <1>1, <3>1
    <2>2. \A i, j \in DOMAIN t : i # j => i + 1 # j + 1
      BY <2>1
    <2> QED
      BY <2>1, <2>2, Zenon DEF Distinct
  <1>3. ASSUME NEW x PROVE x \in ToSet(q) <=> x = q[1] \/ x \in ToSet(t)
    <2>1. x \in ToSet(t) <=> \E i \in 1..(Len(q) - 1) : x = q[i + 1]
      BY <1>1 DEF ToSet
    <2>2. x \in ToSet(q) <=> \E i \in 1..Len(q) : x = q[i]
      BY <1>1 DEF ToSet
    <2>3. ASSUME NEW i \in 1..Len(q), x = q[i], i # 1 PROVE x \in ToSet(t)
      <3>1. i - 1 \in 1..(Len(q) - 1) /\ x = q[(i - 1) + 1]
        BY <1>1, <2>3
      <3> QED
        BY <2>1, <3>1
    <2>4. 1 \in 1..Len(q) /\ \A i \in 1..(Len(q) - 1) : i + 1 \in 1..Len(q)
      BY <1>1
    <2> QED
      BY <2>1, <2>2, <2>3, <2>4
  <1>4. q[1] \notin ToSet(t)
    <2> SUFFICES ASSUME NEW i \in 1..(Len(q) - 1), q[1] = q[i + 1] PROVE FALSE
      BY <1>1 DEF ToSet
    <2>1. 1 \in DOMAIN q /\ i + 1 \in DOMAIN q /\ i + 1 # 1
      BY <1>1
    <2> QED
      BY <2>1 DEF Distinct
  <1> QED
    BY <1>1, <1>2, <1>3, <1>4 DEF t

LEMMA AppendTo ==
  ASSUME NEW q \in Seq(Nat \ {0}), Distinct(q), NEW x \in Nat \ {0}, x \notin ToSet(q)
  PROVE  Append(q, x) \in Seq(Nat \ {0}) /\ Distinct(Append(q, x)) /\ ToSet(Append(q, x)) = ToSet(q) \cup {x}
  <1> DEFINE a == Append(q, x)
             n == Len(q) + 1
  <1>1. /\ a \in Seq(Nat \ {0}) /\ DOMAIN a = 1..n /\ DOMAIN q = 1..(n - 1) /\ n \in Nat \ {0}
        /\ a[n] = x /\ \A i \in 1..(n - 1) : a[i] = q[i]
    OBVIOUS
  <1> HIDE DEF a, n
  <1>2. \A i \in 1..n : i = n \/ i \in 1..(n - 1)
    BY <1>1
  <1>3. n \in 1..n /\ \A i \in 1..(n - 1) : i \in 1..n
    BY <1>1
  <1>4. Distinct(a)
    BY <1>1, <1>2 DEF Distinct, ToSet
  <1>5. ToSet(a) = ToSet(q) \cup {x}
    BY <1>1, <1>2, <1>3 DEF ToSet
  <1> QED
    BY <1>1, <1>4, <1>5 DEF a

\* A queue that is empty holds no numbers.
LEMMA EmptyQueues ==
  AllSeqs(<<>>) = {} /\ ToSet(<<>>) = {} /\ Apart(<<>>) /\ Distinct(<<>>)
  <1>1. DOMAIN <<>> = {}
    OBVIOUS
  <1> QED
    BY <1>1 DEF AllSeqs, ToSet, Apart, Distinct

---------------------------------------------------------------------------
(* The switch.                                                             *)

\* The switch decides as the first stretch asks.
LEMMA Decides ==
  ASSUME TraceShape, Switch, FirstStretch
  PROVE  ptrace_active \/ ~ptrace_oneshot
         <=> ~\E i \in 1..Len(inside), j \in 1..Len(inside) : i < j /\ inside[i] /\ ~inside[j]
  <1> DEFINE n == Len(inside)
  <1>1. n \in Nat /\ DOMAIN inside = 1..n /\ DOMAIN traced = 1..n /\ Len(traced) = n
    BY DEF TraceShape
  <1>2. (traced # <<>>) <=> n > 0
    BY <1>1 DEF TraceShape
  <1> HIDE DEF n
  <1>3. CASE ~ptrace_oneshot
    BY <1>1, <1>3 DEF Switch, n
  <1>4. CASE ptrace_active
    <2>1. n \in 1..n /\ traced[n]
      BY <1>1, <1>2, <1>4 DEF Switch
    <2>2. inside[n] /\ ~\E i \in 1..n, j \in 1..n : i < j /\ j < n /\ inside[i] /\ ~inside[j]
      BY <1>1, <2>1 DEF FirstStretch
    <2>3. \A j \in 1..n : j < n \/ j = n
      BY <1>1
    <2> QED
      BY <1>4, <2>2, <2>3 DEF n
  <1>5. CASE ptrace_oneshot /\ ~ptrace_active
    <2>1. PICK i \in 1..n : inside[i]
      BY <1>1, <1>5 DEF Switch
    <2>2. n \in 1..n /\ ~traced[n] /\ n > 0
      BY <1>1, <1>2, <1>5, <2>1 DEF Switch
    <2>3. CASE ~inside[n]
      <3>1. i < n
        BY <1>1, <2>1, <2>3
      <3> QED
        BY <1>5, <2>1, <2>2, <2>3, <3>1 DEF n
    <2>4. CASE inside[n]
      <3>1. \E k \in 1..n, j \in 1..n : k < j /\ j < n /\ inside[k] /\ ~inside[j]
        BY <1>1, <2>2, <2>4 DEF FirstStretch
      <3> QED
        BY <1>5, <3>1 DEF n
    <2> QED
      BY <2>3, <2>4
  <1>6. ptrace_active \in BOOLEAN /\ ptrace_oneshot \in BOOLEAN
    BY DEF TraceShape
  <1> QED
    BY <1>3, <1>4, <1>5, <1>6

\* The top of a cycle keeps the switch and the first stretch.
LEMMA NewCycleSwitch ==
  ASSUME TraceShape, Switch, FirstStretch, NewCycle
  PROVE  /\ TraceShape' /\ Switch' /\ FirstStretch'
         /\ ptrace_active' /\ ~ptrace_active => ~ptrace_oneshot
         /\ ptrace_oneshot => ptrace_oneshot'
  <1> DEFINE n == Len(inside) + 1
             now1 == InRange
  <1>1. now1 \in BOOLEAN
    BY DEF InRange
  <1>2. /\ ptrace_active' = (now1 /\ (ptrace_active \/ ~ptrace_oneshot))
        /\ ptrace_oneshot' = (now1 \/ ptrace_oneshot)
    BY DEF NewCycle, ptrace_check_active, TraceShape
  <1>3. inside' = Append(inside, now1) /\ traced' = Append(traced, ptrace_active')
    BY DEF NewCycle
  <1> HIDE DEF now1
  <1>4. ptrace_active' \in BOOLEAN /\ ptrace_oneshot' \in BOOLEAN
    BY <1>1, <1>2 DEF TraceShape
  <1>5. TraceShape'
    BY <1>1, <1>3, <1>4 DEF TraceShape, NewCycle
  <1>6. /\ n \in Nat \ {0} /\ Len(inside) = n - 1 /\ Len(inside') = n /\ DOMAIN inside' = 1..n /\ DOMAIN traced' = 1..n
        /\ DOMAIN inside = 1..(n - 1) /\ DOMAIN traced = 1..(n - 1)
        /\ inside'[n] = now1 /\ traced'[n] = ptrace_active' /\ Len(traced') = n
        /\ \A i \in 1..(n - 1) : inside'[i] = inside[i] /\ traced'[i] = traced[i]
    BY <1>1, <1>3, <1>4 DEF TraceShape
  <1> HIDE DEF n
  <1>7. \A i \in 1..n : i = n \/ i \in 1..(n - 1)
    BY <1>6
  <1>8. n \in 1..n /\ \A i \in 1..(n - 1) : i \in 1..n /\ i < n
    BY <1>6
  <1>9. Switch'
    <2>1. traced' # <<>>
      BY <1>3, <1>5, <1>6 DEF TraceShape
    <2>2. ptrace_oneshot' <=> \E i \in 1..n : inside'[i]
      BY <1>1, <1>2, <1>6, <1>7, <1>8 DEF Switch, TraceShape
    <2> QED
      BY <2>1, <2>2, <1>6 DEF Switch
  <1>10. FirstStretch'
    <2> SUFFICES ASSUME NEW k \in 1..n
                 PROVE  traced'[k] <=> inside'[k] /\ ~\E i \in 1..k, j \in 1..k : i < j /\ j < k /\ inside'[i] /\ ~inside'[j]
      BY <1>6 DEF FirstStretch
    <2>1. CASE k \in 1..(n - 1)
      <3>1. \A i \in 1..k : i \in 1..(n - 1)
        BY <1>6, <2>1
      <3>2. traced[k] <=> inside[k] /\ ~\E i \in 1..k, j \in 1..k : i < j /\ j < k /\ inside[i] /\ ~inside[j]
        BY <1>6, <2>1 DEF FirstStretch
      <3>3. inside'[k] = inside[k] /\ traced'[k] = traced[k] /\ \A i \in 1..k : inside'[i] = inside[i]
        BY <1>6, <2>1, <3>1
      <3> QED
        BY <3>2, <3>3
    <2>2. CASE k = n
      <3>1. ptrace_active \/ ~ptrace_oneshot
            <=> ~\E i \in 1..(n - 1), j \in 1..(n - 1) : i < j /\ inside[i] /\ ~inside[j]
        BY <1>6, Decides
      <3>2. (\E i \in 1..k, j \in 1..k : i < j /\ j < k /\ inside'[i] /\ ~inside'[j])
            <=> \E i \in 1..(n - 1), j \in 1..(n - 1) : i < j /\ inside[i] /\ ~inside[j]
        BY <1>6, <1>7, <1>8, <2>2
      <3> QED
        BY <1>1, <1>2, <1>6, <2>2, <3>1, <3>2 DEF TraceShape
    <2> QED
      BY <1>7, <2>1, <2>2
  <1> QED
    BY <1>1, <1>2, <1>5, <1>9, <1>10 DEF TraceShape

---------------------------------------------------------------------------
(* The steps.                                                              *)

LEMMA InitTraceInv == TraceInit => TraceInv
  <1> SUFFICES ASSUME TraceInit PROVE TraceInv
    OBVIOUS
  <1> USE DEF TraceInit
  <1>1. TraceShape
    <2>1. ifq \in Seq(Nat \ {0}) /\ ruu \in Seq(Entries) /\ ptrace_seq \in Nat \ {0}
      OBVIOUS
    <2>2. inside \in Seq(BOOLEAN) /\ traced \in Seq(BOOLEAN) /\ Len(inside) = Len(traced)
      OBVIOUS
    <2>3. ptrace_active \in BOOLEAN /\ ptrace_oneshot \in BOOLEAN
      OBVIOUS
    <2> QED
      BY <2>1, <2>2, <2>3 DEF TraceShape
  <1>2. Switch /\ FirstStretch
    BY DEF Switch, FirstStretch
  <1>3. Flight = {} /\ Numbers
    BY EmptyQueues DEF Flight, Numbers
  <1> QED
    BY <1>1, <1>2, <1>3 DEF TraceInv, Untraced, Since, ViewerSees

\* Instructions leave the pipeline: the numbers in Gone, which are ended (when
\* the trace is on) or dropped.
LEMMA Leaves ==
  ASSUME TraceInv, NEW Gone, Gone \subseteq Flight, Flight' = Flight \ Gone,
         \/ dropped' = dropped /\ ended' = IF ptrace_active THEN ended \cup Gone ELSE ended
         \/ dropped' = dropped \cup Gone /\ ended' = ended,
         defined' = defined, ptrace_active' = ptrace_active, since' = since
  PROVE  /\ ViewerSees'
         /\ Flight' \cup defined' \cup ended' \cup dropped' \subseteq 1..(ptrace_seq - 1)
         /\ Flight' \cap (ended' \cup dropped') = {}
  <1>1. /\ Flight \cup defined \cup ended \cup dropped \subseteq 1..(ptrace_seq - 1)
        /\ Flight \cap (ended \cup dropped) = {}
    BY DEF TraceInv, Numbers
  <1>2. ended \subseteq ended' /\ dropped \subseteq dropped' /\ ended' \cup dropped' \subseteq ended \cup dropped \cup Gone
    OBVIOUS
  <1>3. ptrace_active => ended' \cup dropped' = ended \cup dropped \cup Gone
    OBVIOUS
  <1>4. ViewerSees'
    <2> SUFFICES ASSUME ptrace_active PROVE (defined \ ended') \ dropped' = {s \in Flight \ Gone : s >= since}
      BY DEF ViewerSees
    <2>1. (defined \ ended) \ dropped = {s \in Flight : s >= since}
      BY DEF TraceInv, ViewerSees
    <2> QED
      BY <1>3, <2>1
  <1> QED
    BY <1>1, <1>2, <1>4

\* A number is given out.
LEMMA Arrives ==
  ASSUME TraceInv, Flight' = Flight \cup {ptrace_seq}, ptrace_seq' = ptrace_seq + 1,
         defined' = IF ptrace_active THEN defined \cup {ptrace_seq} ELSE defined,
         ended' = ended, dropped' = dropped, ptrace_active' = ptrace_active, since' = since
  PROVE  /\ ViewerSees'
         /\ Flight' \cup defined' \cup ended' \cup dropped' \subseteq 1..(ptrace_seq' - 1)
         /\ Flight' \cap (ended' \cup dropped') = {}
  <1>1. /\ Flight \cup defined \cup ended \cup dropped \subseteq 1..(ptrace_seq - 1)
        /\ Flight \cap (ended \cup dropped) = {} /\ ptrace_seq \in Nat \ {0}
    BY DEF TraceInv, Numbers, TraceShape
  <1>2. ptrace_seq \in 1..(ptrace_seq' - 1) /\ 1..(ptrace_seq - 1) \subseteq 1..(ptrace_seq' - 1) /\ ptrace_seq \notin 1..(ptrace_seq - 1)
    BY <1>1
  <1>3. ViewerSees'
    <2> SUFFICES ASSUME ptrace_active
                 PROVE (defined' \ ended) \ dropped = {s \in Flight \cup {ptrace_seq} : s >= since}
      BY DEF ViewerSees
    <2>1. (defined \ ended) \ dropped = {s \in Flight : s >= since} /\ ptrace_seq >= since
      BY <1>1 DEF TraceInv, ViewerSees, Since
    <2>2. defined' = defined \cup {ptrace_seq} /\ ptrace_seq \notin ended \cup dropped
      BY <1>1, <1>2
    <2> QED
      BY <2>1, <2>2
  <1> QED
    BY <1>1, <1>2, <1>3

\* What no stage but the top of a cycle touches.
LEMMA SwitchKept ==
  ASSUME TraceInv, UNCHANGED <<sw, since, inside, traced>>
  PROVE  Switch' /\ FirstStretch' /\ (Since' <=> (ptrace_active => since \in Nat /\ since <= ptrace_seq'))
  BY DEF TraceInv, Switch, FirstStretch, Since, sw

LEMMA ActiveShot ==
  ASSUME TraceShape, Switch, FirstStretch, ptrace_active
  PROVE  ptrace_oneshot
  <1>1. DOMAIN traced = 1..Len(traced) /\ DOMAIN inside = 1..Len(traced) /\ Len(traced) \in Nat
    BY DEF TraceShape
  <1>2. traced # <<>> /\ traced[Len(traced)]
    BY DEF Switch
  <1>3. Len(traced) > 0
    BY <1>2 DEF TraceShape
  <1> QED
    BY <1>1, <1>2, <1>3 DEF FirstStretch, Switch

\* A stage that changes neither the switch nor the cycles keeps the invariant
\* if it keeps what is said of the queues, the trace and the numbers.
LEMMA StageKeeps ==
  ASSUME TraceInv, UNCHANGED <<sw, since, inside, traced>>,
         ptrace_seq' \in {ptrace_seq, ptrace_seq + 1},
         ~ptrace_active => defined' = defined /\ ended' = ended,
         ifq' \in Seq(Nat \ {0}), ruu' \in Seq(Entries), Distinct(ifq'), Apart(ruu'),
         AllSeqs(ruu') \cap ToSet(ifq') = {},
         ViewerSees',
         Flight' \cup defined' \cup ended' \cup dropped' \subseteq 1..(ptrace_seq' - 1),
         Flight' \cap (ended' \cup dropped') = {}
  PROVE  TraceInv'
  <1>1. TraceShape'
    BY DEF TraceInv, TraceShape, sw
  <1>2. Switch' /\ FirstStretch' /\ Since'
    <2>1. ptrace_active => since \in Nat /\ since <= ptrace_seq'
      BY DEF TraceInv, Since, TraceShape
    <2> QED
      BY <2>1, SwitchKept
  <1>3. Untraced'
    <2>1. ptrace_oneshot \/ (defined = {} /\ ended = {})
      BY DEF TraceInv, Untraced
    <2>2. ptrace_active => ptrace_oneshot
      BY ActiveShot DEF TraceInv
    <2> QED
      BY <2>1, <2>2 DEF Untraced, sw
  <1>4. Numbers'
    BY DEF Numbers
  <1> QED
    BY <1>1, <1>2, <1>3, <1>4 DEF TraceInv

\* Every stage keeps the invariant.
LEMMA NextTraceInv ==
  ASSUME TraceInv, [TraceNext]_traceVars
  PROVE  TraceInv'
  <1>1. /\ ifq \in Seq(Nat \ {0}) /\ ruu \in Seq(Entries) /\ ptrace_seq \in Nat \ {0}
        /\ Distinct(ifq) /\ Apart(ruu) /\ AllSeqs(ruu) \cap ToSet(ifq) = {}
        /\ Flight = AllSeqs(ruu) \cup ToSet(ifq) /\ Flight' = AllSeqs(ruu') \cup ToSet(ifq')
        /\ Flight \subseteq 1..(ptrace_seq - 1)
    BY DEF TraceInv, TraceShape, Numbers, Flight
  <1>2. CASE UNCHANGED <<sw, ptrace_seq, ifq, ruu, defined, ended, ghost>>
    <2>1. TraceShape' /\ Numbers' /\ Untraced' /\ ViewerSees'
      BY <1>1, <1>2 DEF TraceInv, TraceShape, Numbers, Untraced, ViewerSees, Flight, sw, ghost
    <2>2. Switch' /\ FirstStretch' /\ Since'
      BY <1>2, SwitchKept DEF TraceInv, Since, ghost
    <2> QED
      BY <2>1, <2>2 DEF TraceInv
  <1>3. CASE NewCycle
    <2>1. /\ TraceShape' /\ Switch' /\ FirstStretch'
          /\ ptrace_active' /\ ~ptrace_active => ~ptrace_oneshot
          /\ ptrace_oneshot => ptrace_oneshot'
      BY <1>3, NewCycleSwitch DEF TraceInv
    <2>2. UNCHANGED <<ptrace_seq, ifq, ruu, defined, ended, dropped>> /\ Flight' = Flight
      BY <1>1, <1>3 DEF NewCycle
    <2>3. Numbers' /\ Untraced'
      BY <2>1, <2>2 DEF TraceInv, Numbers, Untraced
    <2>4. CASE ptrace_active' /\ ~ptrace_active
      <3>1. since' = ptrace_seq /\ defined = {} /\ ended = {}
        BY <1>3, <2>1, <2>4 DEF NewCycle, TraceInv, Untraced
      <3>2. {s \in Flight : s >= ptrace_seq} = {}
        BY <1>1
      <3> QED
        BY <1>1, <2>1, <2>2, <2>3, <3>1, <3>2 DEF TraceInv, Since, ViewerSees
    <2>5. CASE ~(ptrace_active' /\ ~ptrace_active)
      <3>1. since' = since
        BY <1>3, <2>5 DEF NewCycle
      <3>2. Since' /\ ViewerSees'
        BY <2>2, <2>5, <3>1 DEF TraceInv, Since, ViewerSees
      <3> QED
        BY <2>1, <2>3, <3>2 DEF TraceInv
    <2> QED
      BY <2>4, <2>5
  <1>4. ASSUME NEW n \in 0..RuuSize, ruu_commit(n)
        PROVE  TraceInv'
    <2> DEFINE Gone == AllSeqs(SubSeq(ruu, 1, n))
    <2>1. n \in 0..Len(ruu)
      BY <1>1, <1>4, SizesAssumption DEF ruu_commit
    <2>2. /\ ruu' = SubSeq(ruu, n + 1, Len(ruu)) /\ ended' = IF ptrace_active THEN ended \cup Gone ELSE ended
          /\ UNCHANGED <<sw, ptrace_seq, ifq, defined, ghost>>
      BY <1>4 DEF ruu_commit, ptrace_endinst
    <2>3. ruu' \in Seq(Entries) /\ Apart(ruu') /\ AllSeqs(ruu') = AllSeqs(ruu) \ Gone /\ Gone \subseteq AllSeqs(ruu)
      BY <1>1, <2>1, <2>2, Cut
    <2> HIDE DEF Gone
    <2>4. Flight' = Flight \ Gone /\ Gone \subseteq Flight /\ AllSeqs(ruu') \cap ToSet(ifq') = {}
      BY <1>1, <2>2, <2>3
    <2>5. /\ ViewerSees' /\ Flight' \cup defined' \cup ended' \cup dropped' \subseteq 1..(ptrace_seq - 1)
          /\ Flight' \cap (ended' \cup dropped') = {}
      BY <2>2, <2>4, Leaves DEF sw, ghost
    <2> QED
      BY <1>1, <2>2, <2>3, <2>4, <2>5, StageKeeps DEF ghost
  <1>5. ASSUME NEW b \in 1..Len(ruu), Recover(b)
        PROVE  TraceInv'
    <2> DEFINE Gone == AllSeqs(SubSeq(ruu, b + 1, Len(ruu))) \cup ToSet(ifq)
    <2>1. b \in 0..Len(ruu)
      BY <1>1
    <2>2. /\ ruu' = SubSeq(ruu, 1, b) /\ ifq' = <<>> /\ ended' = IF ptrace_active THEN ended \cup Gone ELSE ended
          /\ UNCHANGED <<sw, ptrace_seq, defined, ghost>>
      BY <1>5 DEF Recover, ptrace_endinst
    <2>3. ruu' \in Seq(Entries) /\ Apart(ruu') /\ AllSeqs(ruu') = AllSeqs(ruu) \ Gone /\ Gone \subseteq Flight
      BY <1>1, <2>1, <2>2, Cut
    <2>4. ifq' \in Seq(Nat \ {0}) /\ ToSet(ifq') = {} /\ Distinct(ifq') /\ ToSet(ifq) \subseteq Gone
      BY <2>2, EmptyQueues
    <2> HIDE DEF Gone
    <2>5. Flight' = Flight \ Gone /\ AllSeqs(ruu') \cap ToSet(ifq') = {}
      BY <1>1, <2>3, <2>4
    <2>6. /\ ViewerSees' /\ Flight' \cup defined' \cup ended' \cup dropped' \subseteq 1..(ptrace_seq - 1)
          /\ Flight' \cap (ended' \cup dropped') = {}
      BY <2>2, <2>3, <2>5, Leaves DEF sw, ghost
    <2> QED
      BY <2>2, <2>3, <2>4, <2>5, <2>6, StageKeeps DEF ghost
  <1>6. CASE Redirect
    <2> DEFINE e == [s |-> Head(ifq), u |-> 0]
               Gone == ToSet(Tail(ifq))
    <2>1. /\ ifq # <<>> /\ ruu' = Append(ruu, e) /\ ifq' = <<>> /\ dropped' = dropped \cup Gone
          /\ UNCHANGED <<sw, ptrace_seq, defined, ended, since, inside, traced>>
      BY <1>6 DEF Redirect
    <2>2. /\ Head(ifq) \in Nat \ {0} /\ ToSet(ifq) = {Head(ifq)} \cup Gone /\ Head(ifq) \notin Gone
      BY <1>1, <2>1, TailOf
    <2>3. e \in Entries /\ e.s # e.u /\ Seqs(e) = {Head(ifq)}
      BY <2>2 DEF Entries, Seqs
    <2>4. Seqs(e) \cap AllSeqs(ruu) = {}
      BY <1>1, <2>2, <2>3
    <2> HIDE DEF e, Gone
    <2>5. ruu' \in Seq(Entries) /\ Apart(ruu') /\ AllSeqs(ruu') = AllSeqs(ruu) \cup {Head(ifq)}
      BY <1>1, <2>1, <2>3, <2>4, Extend
    <2>6. ifq' \in Seq(Nat \ {0}) /\ ToSet(ifq') = {} /\ Distinct(ifq')
      BY <2>1, EmptyQueues
    <2>7. Flight' = Flight \ Gone /\ Gone \subseteq Flight /\ AllSeqs(ruu') \cap ToSet(ifq') = {}
      BY <1>1, <2>2, <2>5, <2>6
    <2>8. /\ ViewerSees' /\ Flight' \cup defined' \cup ended' \cup dropped' \subseteq 1..(ptrace_seq - 1)
          /\ Flight' \cap (ended' \cup dropped') = {}
      BY <2>1, <2>7, Leaves DEF sw
    <2> QED
      BY <2>1, <2>5, <2>6, <2>7, <2>8, StageKeeps
  <1>7. ASSUME NEW kind \in {"mem", "nop", "alu"}, ruu_dispatch(kind)
        PROVE  TraceInv'
    <2> DEFINE s == Head(ifq)
    <2>1. ifq # <<>> /\ ifq' = Tail(ifq) /\ UNCHANGED <<sw, ghost>>
      BY <1>7 DEF ruu_dispatch
    <2>2. /\ s \in Nat \ {0} /\ ifq' \in Seq(Nat \ {0}) /\ Distinct(ifq')
          /\ ToSet(ifq) = {s} \cup ToSet(ifq') /\ s \notin ToSet(ifq')
      BY <1>1, <2>1, TailOf
    <2> HIDE DEF s
    <2>3. CASE kind = "nop"
      <3>1. UNCHANGED <<ruu, ptrace_seq, defined>> /\ ended' = IF ptrace_active THEN ended \cup {s} ELSE ended
        BY <1>7, <2>3 DEF ruu_dispatch, ptrace_newinst, ptrace_endinst, s
      <3>2. Flight' = Flight \ {s} /\ {s} \subseteq Flight /\ AllSeqs(ruu') \cap ToSet(ifq') = {}
        BY <1>1, <2>2, <3>1
      <3>3. /\ ViewerSees' /\ Flight' \cup defined' \cup ended' \cup dropped' \subseteq 1..(ptrace_seq - 1)
            /\ Flight' \cap (ended' \cup dropped') = {}
        BY <2>1, <3>1, <3>2, Leaves DEF sw, ghost
      <3> QED
        BY <1>1, <2>1, <2>2, <3>1, <3>2, <3>3, StageKeeps DEF ghost
    <2>4. CASE kind = "alu"
      <3> DEFINE e == [s |-> s, u |-> 0]
      <3>1. ruu' = Append(ruu, e) /\ UNCHANGED <<ptrace_seq, defined, ended>>
        BY <1>7, <2>4 DEF ruu_dispatch, ptrace_newinst, ptrace_endinst, s
      <3>2. e \in Entries /\ e.s # e.u /\ Seqs(e) = {s}
        BY <2>2 DEF Entries, Seqs
      <3>3. Seqs(e) \cap AllSeqs(ruu) = {}
        BY <1>1, <2>2, <3>2
      <3> HIDE DEF e
      <3>4. ruu' \in Seq(Entries) /\ Apart(ruu') /\ AllSeqs(ruu') = AllSeqs(ruu) \cup {s}
        BY <1>1, <3>1, <3>2, <3>3, Extend
      <3>5. Flight' = Flight /\ AllSeqs(ruu') \cap ToSet(ifq') = {}
        BY <1>1, <2>2, <3>4
      <3>6. /\ ViewerSees' /\ Flight' \cup defined' \cup ended' \cup dropped' \subseteq 1..(ptrace_seq - 1)
            /\ Flight' \cap (ended' \cup dropped') = {}
        BY <2>1, <3>1, <3>5 DEF TraceInv, ViewerSees, Numbers, sw, ghost
      <3> QED
        BY <1>1, <2>1, <2>2, <3>1, <3>4, <3>5, <3>6, StageKeeps DEF ghost
    <2>5. CASE kind = "mem"
      <3> DEFINE e == [s |-> s, u |-> ptrace_seq]
      <3>1. /\ ruu' = Append(ruu, e) /\ ptrace_seq' = ptrace_seq + 1 /\ ended' = ended
            /\ defined' = IF ptrace_active THEN defined \cup {ptrace_seq} ELSE defined
        <4>1. {ptrace_seq} \ {0} = {ptrace_seq}
          BY <1>1
        <4> QED
          BY <1>7, <2>5, <4>1 DEF ruu_dispatch, ptrace_newinst, ptrace_endinst, s
      <3>2. s < ptrace_seq
        BY <1>1, <2>2
      <3>3. e \in Entries /\ e.s # e.u /\ Seqs(e) = {s, ptrace_seq}
        BY <1>1, <2>2, <3>2 DEF Entries, Seqs
      <3>4. ptrace_seq \notin Flight
        BY <1>1
      <3>5. Seqs(e) \cap AllSeqs(ruu) = {}
        BY <1>1, <2>2, <3>3, <3>4
      <3> HIDE DEF e
      <3>6. ruu' \in Seq(Entries) /\ Apart(ruu') /\ AllSeqs(ruu') = AllSeqs(ruu) \cup {s, ptrace_seq}
        BY <1>1, <3>1, <3>3, <3>5, Extend
      <3>7. Flight' = Flight \cup {ptrace_seq} /\ AllSeqs(ruu') \cap ToSet(ifq') = {}
        BY <1>1, <2>2, <3>4, <3>6
      <3>8. /\ ViewerSees' /\ Flight' \cup defined' \cup ended' \cup dropped' \subseteq 1..(ptrace_seq' - 1)
            /\ Flight' \cap (ended' \cup dropped') = {}
        BY <2>1, <3>1, <3>7, Arrives DEF sw, ghost
      <3> QED
        BY <1>1, <2>1, <2>2, <3>1, <3>6, <3>7, <3>8, StageKeeps DEF ghost
    <2> QED
      BY <2>3, <2>4, <2>5
  <1>8. CASE ruu_fetch
    <2>1. /\ ifq' = Append(ifq, ptrace_seq) /\ ptrace_seq' = ptrace_seq + 1 /\ UNCHANGED <<sw, ruu, ended, ghost>>
          /\ defined' = IF ptrace_active THEN defined \cup {ptrace_seq} ELSE defined
      BY <1>8 DEF ruu_fetch, ptrace_newinst
    <2>2. ptrace_seq \notin Flight
      BY <1>1
    <2>3. ifq' \in Seq(Nat \ {0}) /\ Distinct(ifq') /\ ToSet(ifq') = ToSet(ifq) \cup {ptrace_seq}
      BY <1>1, <2>1, <2>2, AppendTo
    <2>4. Flight' = Flight \cup {ptrace_seq} /\ AllSeqs(ruu') \cap ToSet(ifq') = {}
      BY <1>1, <2>1, <2>2, <2>3
    <2>5. /\ ViewerSees' /\ Flight' \cup defined' \cup ended' \cup dropped' \subseteq 1..(ptrace_seq' - 1)
          /\ Flight' \cap (ended' \cup dropped') = {}
      BY <2>1, <2>4, Arrives DEF sw, ghost
    <2> QED
      BY <1>1, <2>1, <2>3, <2>4, <2>5, StageKeeps DEF ghost
  <1>9. CASE NoRecover \/ EndDispatch \/ (\E n \in 0..1, pc \in TextAddrs : EndCycle(n, pc)) \/ UNCHANGED traceVars
    BY <1>2, <1>9 DEF NoRecover, EndDispatch, EndCycle, traceVars
  <1> QED
    BY <1>3, <1>4, <1>5, <1>6, <1>7, <1>8, <1>9 DEF TraceNext

\* For every range, queue size and length of the execution: the traced cycles
\* are exactly the first stretch of cycles in the range, and the instructions
\* the trace leaves open are those in flight that were fetched under it.
THEOREM TraceRight == TraceSpec => []TraceExact
  <1>1. TraceInv /\ [TraceNext]_traceVars => TraceInv'
    BY NextTraceInv
  <1>2. TraceInv => TraceExact
    BY DEF TraceInv, TraceExact
  <1> QED
    BY InitTraceInv, <1>1, <1>2, PTL DEF TraceSpec
-----------------------------------------------------------------------------
(* The event queue.                                                        *)

EventSet == [when : Nat, id : Nat \ {0}, act : Acts \cup {Counted}]

Sorted(q) == \A i, j \in DOMAIN q : i < j => q[i].when <= q[j].when
UniqueIds(q) == \A i, j \in DOMAIN q : q[i].id = q[j].id => i = j

QueueShape ==
    /\ pending \in Seq(EventSet) /\ ran \in Seq(Nat)
    /\ free \in Nat /\ next_ID \in Nat \ {0} /\ time \in Nat /\ q_mode \in {"idle", "service"}

\* The queue is in the order of time, and no id is used twice.
QueueInv == QueueShape /\ Sorted(pending) /\ UniqueIds(pending) /\ QueueConserved
-----------------------------------------------------------------------------
(* The place of a new event.                                               *)

LEMMA EventTypes ==
    ASSUME NEW q \in Seq(EventSet)
    PROVE  \A i \in 1..Len(q) : /\ q[i] \in EventSet /\ q[i].when \in Nat /\ q[i].id \in Nat \ {0}
                               /\ q[i].act \in Acts \cup {Counted}
    <1>1. \A x \in EventSet : x.when \in Nat /\ x.id \in Nat \ {0} /\ x.act \in Acts \cup {Counted}
        BY DEF EventSet
    <1>2. \A i \in 1..Len(q) : q[i] \in EventSet
        OBVIOUS
    <1> QED
        BY <1>1, <1>2

\* There is a first event that is not earlier, or none at all.
LEMMA PlaceExists ==
    ASSUME NEW q \in Seq(EventSet), NEW e \in EventSet
    PROVE  /\ Place(q, e) \in 1..(Len(q) + 1)
           /\ Place(q, e) <= Len(q) => q[Place(q, e)].when >= e.when
           /\ \A j \in 1..(Place(q, e) - 1) : q[j].when < e.when
    <1> DEFINE P(i) == /\ i <= Len(q) => q[i].when >= e.when
                       /\ \A j \in 1..(i - 1) : q[j].when < e.when
               S == {i \in 1..(Len(q) + 1) : i <= Len(q) => q[i].when >= e.when}
    <1>1. Len(q) \in Nat /\ e.when \in Nat /\ \A i \in 1..Len(q) : q[i].when \in Nat
        <2>1. Len(q) \in Nat
            OBVIOUS
        <2>2. e.when \in Nat
            BY DEF EventSet
        <2> QED
            BY <2>1, <2>2, EventTypes
    <1>2. S \subseteq Nat /\ Len(q) + 1 \in S
        BY <1>1
    <1>3. PICK i \in S : \A m \in S : i <= m
        <2> HIDE DEF S
        <2> QED
            BY <1>2, Least
    <1>4. i \in 1..(Len(q) + 1) /\ (i <= Len(q) => q[i].when >= e.when)
        OBVIOUS
    <1>5. ASSUME NEW j \in 1..(i - 1) PROVE q[j].when < e.when
        <2>1. j \in 1..Len(q) /\ j < i /\ j \notin S
            BY <1>1, <1>3, <1>4
        <2> QED
            BY <1>1, <2>1
    <1>6. \E k \in 1..(Len(q) + 1) : P(k)
        BY <1>4, <1>5
    <1>7. Place(q, e) = CHOOSE k \in 1..(Len(q) + 1) : P(k)
        BY DEF Place
    <1> HIDE DEF P
    <1>8. Place(q, e) \in 1..(Len(q) + 1) /\ P(Place(q, e))
        BY <1>6, <1>7
    <1> QED
        BY <1>8 DEF P
-----------------------------------------------------------------------------
(* Queues that an event is put into or taken from.                         *)

\* A new event is put at its place and the order is kept.
LEMMA InsertKeeps ==
    ASSUME NEW q \in Seq(EventSet), Sorted(q), NEW e \in EventSet
    PROVE  LET r == Insert(q, e)
               p == Place(q, e)
           IN  /\ r \in Seq(EventSet) /\ Len(r) = Len(q) + 1 /\ Sorted(r) /\ p \in 1..(Len(q) + 1)
               /\ r[p] = e
               /\ \A i \in 1..(p - 1) : r[i] = q[i]
               /\ \A i \in p..Len(q) : r[i + 1] = q[i]
    <1> DEFINE r == Insert(q, e)
               p == Place(q, e)
               n == Len(q)
    <1>1. n \in Nat /\ p \in 1..(n + 1) /\ (p <= n => q[p].when >= e.when) /\ \A j \in 1..(p - 1) : q[j].when < e.when
        BY PlaceExists
    <1>2. r = InsertAt(q, p, e)
        BY DEF Insert
    <1> HIDE DEF p
    <1>5. r \in Seq(EventSet) /\ Len(r) = n + 1
        BY <1>1, <1>2, InsertAtIs
    <1>6. \A i \in 1..(p - 1) : r[i] = q[i]
        BY <1>1, <1>2, InsertAtIs
    <1>7. r[p] = e
        BY <1>1, <1>2, InsertAtIs
    <1>8. \A i \in p..n : r[i + 1] = q[i]
        BY <1>1, <1>2, InsertAtIs
    <1> HIDE DEF r
    <1>9. Sorted(r)
        <2>1. DOMAIN r = 1..(n + 1) /\ DOMAIN q = 1..n
            BY <1>5
        <2>2. e.when \in Nat /\ \A i \in 1..n : q[i].when \in Nat
            BY EventTypes DEF EventSet
        <2> SUFFICES ASSUME NEW i \in 1..(n + 1), NEW j \in 1..(n + 1), i < j PROVE r[i].when <= r[j].when
            BY <2>1 DEF Sorted
        <2>3. i \in 1..n /\ j - 1 \in 1..n /\ i <= j - 1
            BY <1>1
        <2>4. CASE j < p
            BY <1>1, <1>6, <2>1, <2>4 DEF Sorted
        <2>5. CASE j = p
            <3>1. i \in 1..(p - 1)
                BY <1>1, <2>5
            <3> QED
                BY <1>1, <1>6, <1>7, <2>2, <2>3, <2>5, <3>1
        <2>6. CASE j > p
            <3>1. r[j] = q[j - 1]
                <4>1. j - 1 \in p..n /\ (j - 1) + 1 = j
                    BY <1>1, <2>6
                <4> QED
                    BY <1>8, <4>1
            <3>2. CASE i < p
                <4>1. i \in DOMAIN q /\ j - 1 \in DOMAIN q /\ i < j - 1 /\ r[i] = q[i]
                    BY <1>1, <1>6, <2>1, <2>3, <2>6, <3>2
                <4> QED
                    BY <3>1, <4>1 DEF Sorted
            <3>3. CASE i = p
                <4>1. p \in 1..n /\ q[p].when >= e.when /\ p <= j - 1
                    BY <1>1, <2>3, <3>3
                <4>2. q[p].when <= q[j - 1].when
                    <5>1. CASE p = j - 1
                        BY <2>2, <4>1, <5>1
                    <5>2. CASE p # j - 1
                        <6>1. p < j - 1
                            BY <2>3, <4>1, <5>2
                        <6> QED
                            BY <2>1, <2>3, <4>1, <6>1 DEF Sorted
                    <5> QED
                        BY <5>1, <5>2
                <4> QED
                    BY <1>7, <2>2, <2>3, <3>1, <3>3, <4>1, <4>2
            <3>4. CASE i > p
                <4>1. i - 1 \in p..n /\ (i - 1) + 1 = i /\ i - 1 \in 1..n /\ i - 1 < j - 1
                    BY <1>1, <2>3, <3>4
                <4>2. r[i] = q[i - 1]
                    BY <1>8, <4>1
                <4> QED
                    BY <2>1, <2>3, <3>1, <4>1, <4>2 DEF Sorted
            <3> QED
                BY <1>1, <3>2, <3>3, <3>4
        <2> QED
            BY <1>1, <2>4, <2>5, <2>6
    <1> QED
        BY <1>1, <1>5, <1>6, <1>7, <1>8, <1>9 DEF r, p

\* A new event adds its id.
LEMMA InsertIds ==
    ASSUME NEW q \in Seq(EventSet), Sorted(q), UniqueIds(q), NEW e \in EventSet, e.id \notin Ids(q)
    PROVE  UniqueIds(Insert(q, e)) /\ Ids(Insert(q, e)) = Ids(q) \cup {e.id}
    <1> DEFINE r == Insert(q, e)
               p == Place(q, e)
               n == Len(q)
               old(i) == IF i < p THEN i ELSE i - 1
    <1>1. /\ r \in Seq(EventSet) /\ Len(r) = n + 1 /\ p \in 1..(n + 1) /\ r[p] = e
          /\ \A i \in 1..(p - 1) : r[i] = q[i]
          /\ \A i \in p..n : r[i + 1] = q[i]
        BY InsertKeeps
    <1>2. n \in Nat /\ DOMAIN q = 1..n /\ DOMAIN r = 1..(n + 1)
        BY <1>1
    <1> HIDE DEF r, p, n
    <1>3. ASSUME NEW i \in 1..(n + 1), i # p PROVE old(i) \in 1..n /\ r[i] = q[old(i)]
        <2>1. CASE i < p
            BY <1>1, <1>2, <2>1
        <2>2. CASE ~(i < p)
            <3>1. i - 1 \in p..n /\ (i - 1) + 1 = i
                BY <1>1, <1>2, <1>3, <2>2
            <3> QED
                BY <1>1, <1>2, <2>2, <3>1
        <2> QED
            BY <2>1, <2>2
    <1>4. \A i, j \in 1..(n + 1) : i # p /\ j # p /\ old(i) = old(j) => i = j
        BY <1>1, <1>2
    <1>5. \A i \in 1..n : q[i].id # e.id
        BY <1>2 DEF Ids
    <1>6. \A i \in 1..n : \E j \in 1..(n + 1) : j # p /\ old(j) = i
        <2> TAKE i \in 1..n
        <2> DEFINE j == IF i < p THEN i ELSE i + 1
        <2>1. j \in 1..(n + 1) /\ j # p /\ old(j) = i
            BY <1>1, <1>2
        <2> QED
            BY <2>1
    <1> HIDE DEF old
    <1>7. UniqueIds(r)
        <2> SUFFICES ASSUME NEW i \in 1..(n + 1), NEW j \in 1..(n + 1), r[i].id = r[j].id PROVE i = j
            BY <1>2 DEF UniqueIds
        <2>1. CASE i = p
            BY <1>1, <1>3, <1>5, <2>1
        <2>2. CASE j = p
            BY <1>1, <1>3, <1>5, <2>2
        <2>3. CASE i # p /\ j # p
            <3>1. q[old(i)].id = q[old(j)].id /\ old(i) \in 1..n /\ old(j) \in 1..n
                BY <1>3, <2>3
            <3>2. old(i) = old(j)
                BY <1>2, <3>1 DEF UniqueIds
            <3> QED
                BY <1>4, <2>3, <3>2
        <2> QED
            BY <2>1, <2>2, <2>3
    <1>8. Ids(r) = Ids(q) \cup {e.id}
        <2>1. \A x : x \in Ids(r) <=> \E i \in 1..(n + 1) : x = r[i].id
            BY <1>2 DEF Ids
        <2>2. \A x : x \in Ids(q) <=> \E i \in 1..n : x = q[i].id
            BY <1>2 DEF Ids
        <2>3. ASSUME NEW i \in 1..n PROVE q[i].id \in Ids(r)
            <3>1. PICK j \in 1..(n + 1) : j # p /\ old(j) = i
                BY <1>6
            <3>2. r[j] = q[i]
                BY <1>3, <3>1
            <3> QED
                BY <2>1, <3>2
        <2>4. e.id \in Ids(r)
            BY <1>1, <2>1
        <2>5. ASSUME NEW i \in 1..(n + 1) PROVE r[i].id \in Ids(q) \cup {e.id}
            BY <1>1, <1>3, <2>2
        <2> QED
            BY <2>1, <2>2, <2>3, <2>4, <2>5
    <1> QED
        BY <1>7, <1>8 DEF r

\* An event that is unlinked takes its id with it.
LEMMA RemoveKeeps ==
    ASSUME NEW q \in Seq(EventSet), Sorted(q), UniqueIds(q), NEW p \in 1..Len(q)
    PROVE  LET r == RemoveAt(q, p)
           IN  /\ r \in Seq(EventSet) /\ Len(r) = Len(q) - 1
               /\ Sorted(r) /\ UniqueIds(r) /\ Ids(r) = Ids(q) \ {q[p].id}
    <1> DEFINE r == RemoveAt(q, p)
               n == Len(q)
               old(i) == IF i < p THEN i ELSE i + 1
    <1>1. /\ r \in Seq(EventSet) /\ Len(r) = n - 1
          /\ \A i \in 1..(p - 1) : r[i] = q[i]
          /\ \A i \in p..(n - 1) : r[i] = q[i + 1]
        BY RemoveAtIs
    <1>2. n \in Nat \ {0} /\ DOMAIN q = 1..n /\ DOMAIN r = 1..(n - 1) /\ p \in 1..n
        BY <1>1
    <1> HIDE DEF r, n
    <1>3. ASSUME NEW i \in 1..(n - 1) PROVE old(i) \in 1..n /\ old(i) # p /\ r[i] = q[old(i)]
        BY <1>1, <1>2
    <1>4. \A i, j \in 1..(n - 1) : (i < j => old(i) < old(j)) /\ (old(i) = old(j) => i = j)
        BY <1>1, <1>2
    <1>5. \A i \in 1..n : i # p => \E j \in 1..(n - 1) : old(j) = i
        <2> TAKE i \in 1..n
        <2> HAVE i # p
        <2> DEFINE j == IF i < p THEN i ELSE i - 1
        <2>1. j \in 1..(n - 1) /\ old(j) = i
            BY <1>2
        <2> QED
            BY <2>1
    <1> HIDE DEF old
    <1>6. Sorted(r) /\ UniqueIds(r)
        <2>1. ASSUME NEW i \in 1..(n - 1), NEW j \in 1..(n - 1), i < j
              PROVE  r[i].when <= r[j].when
            <3>1. old(i) \in 1..n /\ old(j) \in 1..n /\ old(i) < old(j)
                  /\ r[i] = q[old(i)] /\ r[j] = q[old(j)]
                BY <1>3, <1>4, <2>1
            <3> QED
                BY <1>2, <3>1 DEF Sorted
        <2>2. ASSUME NEW i \in 1..(n - 1), NEW j \in 1..(n - 1), r[i].id = r[j].id
              PROVE  i = j
            <3>1. old(i) \in 1..n /\ old(j) \in 1..n /\ r[i] = q[old(i)] /\ r[j] = q[old(j)]
                BY <1>3
            <3>2. old(i) = old(j)
                BY <1>2, <2>2, <3>1 DEF UniqueIds
            <3> QED
                BY <1>4, <3>2
        <2> QED
            BY <1>2, <2>1, <2>2 DEF Sorted, UniqueIds
    <1>7. Ids(r) = Ids(q) \ {q[p].id}
        <2>1. \A x : x \in Ids(r) <=> \E i \in 1..(n - 1) : x = r[i].id
            BY <1>2 DEF Ids
        <2>2. \A x : x \in Ids(q) <=> \E i \in 1..n : x = q[i].id
            BY <1>2 DEF Ids
        <2>3. ASSUME NEW i \in 1..n, i # p PROVE q[i].id \in Ids(r) /\ q[i].id # q[p].id
            <3>1. PICK j \in 1..(n - 1) : old(j) = i
                BY <1>5, <2>3
            <3>2. r[j] = q[i]
                BY <1>3, <3>1
            <3> QED
                BY <1>2, <2>1, <2>3, <3>2 DEF UniqueIds
        <2>4. ASSUME NEW i \in 1..(n - 1) PROVE r[i].id \in Ids(q) /\ r[i].id # q[p].id
            BY <1>2, <1>3, <2>2 DEF UniqueIds
        <2> QED
            BY <2>1, <2>2, <2>3, <2>4
    <1> QED
        BY <1>1, <1>6, <1>7 DEF r, n

\* The queue a called function leaves.
LEMMA CalledKeeps ==
    ASSUME NEW q \in Seq(EventSet), Sorted(q), UniqueIds(q), next_ID \in Nat \ {0}, next_ID \notin Ids(q),
           NEW e \in EventSet, NEW start \in Nat
    PROVE  LET r == Called(q, e, start)
           IN  /\ r \in Seq(EventSet) /\ Sorted(r) /\ UniqueIds(r)
               /\ Len(r) = Len(q) + (IF Queues(e) THEN 1 ELSE 0)
               /\ Ids(r) = Ids(q) \cup (IF Queues(e) THEN {next_ID} ELSE {})
               /\ q # <<>> /\ q[1].when <= start => r[1] = q[1]
    <1>1. CASE ~Queues(e)
        BY <1>1 DEF Called
    <1>2. CASE Queues(e)
        <2> DEFINE new == [when |-> start + e.act.delay, id |-> next_ID, act |-> Counted]
        <2>1. e.act \in Acts /\ e.act.kind = "Callback"
            BY <1>2 DEF Queues, EventSet, Counted
        <2>2. e.act.delay \in Nat \ {0}
            BY <2>1, EventQAssumption DEF LaterCallbacks
        <2>3. new \in EventSet /\ new.id = next_ID /\ new.when > start
            BY <2>2 DEF EventSet
        <2>4. Called(q, e, start) = Insert(q, new)
            BY <1>2 DEF Called, QUEUE_EVENT
        <2> HIDE DEF new
        <2>5. /\ Insert(q, new) \in Seq(EventSet) /\ Sorted(Insert(q, new)) /\ Len(Insert(q, new)) = Len(q) + 1
              /\ \A i \in 1..(Place(q, new) - 1) : Insert(q, new)[i] = q[i]
            BY <2>3, InsertKeeps
        <2>6. UniqueIds(Insert(q, new)) /\ Ids(Insert(q, new)) = Ids(q) \cup {next_ID}
            BY <2>3, InsertIds
        <2>7. ASSUME q # <<>>, q[1].when <= start PROVE Insert(q, new)[1] = q[1]
            <3>1. Len(q) \in Nat \ {0} /\ q[1].when \in Nat /\ new.when \in Nat
                <4>1. Len(q) \in Nat \ {0}
                    BY <2>7
                <4>2. new.when \in Nat
                    BY <2>3 DEF EventSet
                <4> QED
                    BY <4>1, <4>2, EventTypes
            <3>2. Place(q, new) \in 1..(Len(q) + 1) /\ (Place(q, new) <= Len(q) => q[Place(q, new)].when >= new.when)
                BY <2>3, PlaceExists
            <3>3. Place(q, new) # 1
                BY <2>3, <2>7, <3>1, <3>2
            <3> QED
                BY <2>5, <3>1, <3>2, <3>3
        <2> QED
            BY <1>2, <2>4, <2>5, <2>6, <2>7
    <1> QED
        BY <1>1, <1>2

\* An event that ran is at the end of the record.
LEMMA Recorded ==
    ASSUME NEW f \in Seq(Nat), NoRepeat(f), NEW x \in Nat, x \notin Range(f)
    PROVE  Append(f, x) \in Seq(Nat) /\ NoRepeat(Append(f, x)) /\ Range(Append(f, x)) = Range(f) \cup {x}
    <1> DEFINE a == Append(f, x)
               n == Len(f) + 1
    <1>1. /\ a \in Seq(Nat) /\ DOMAIN a = 1..n /\ DOMAIN f = 1..(n - 1) /\ n \in Nat \ {0}
          /\ a[n] = x /\ \A i \in 1..(n - 1) : a[i] = f[i]
        OBVIOUS
    <1> HIDE DEF a, n
    <1>2. n \in 1..n /\ (\A i \in 1..(n - 1) : i \in 1..n) /\ \A i \in 1..n : i = n \/ i \in 1..(n - 1)
        BY <1>1
    <1>3. NoRepeat(a)
        BY <1>1, <1>2 DEF NoRepeat, Range
    <1>4. Range(a) = Range(f) \cup {x}
        BY <1>1, <1>2 DEF Range
    <1> QED
        BY <1>1, <1>3, <1>4 DEF a

LEMMA SameIds ==
    ASSUME NEW q
    PROVE  UniqueIds(q) <=> NoRepeat([i \in DOMAIN q |-> q[i].id])
    BY DEF UniqueIds, NoRepeat

\* The head of a queue whose event has been served is unlinked, where it is
\* still the first.
LEMMA Unlinked ==
    ASSUME NEW q \in Seq(EventSet), q # <<>>, UniqueIds(q), NEW e, q[1] = e
    PROVE  LET at == CHOOSE i \in DOMAIN q : q[i].id = e.id IN SubSeq(q, at + 1, Len(q)) = RemoveAt(q, 1)
    <1>1. Len(q) \in Nat \ {0} /\ DOMAIN q = 1..Len(q)
        OBVIOUS
    <1> DEFINE at == CHOOSE i \in DOMAIN q : q[i].id = e.id
    <1>2. at = 1
        BY <1>1 DEF UniqueIds
    <1> HIDE DEF at
    <1>3. SubSeq(q, 1, 0) = <<>>
        BY SubSeqEmpty
    <1>4. SubSeq(q, 2, Len(q)) \in Seq(EventSet)
        BY <1>1
    <1>5. RemoveAt(q, 1) = SubSeq(q, 1, 0) \o SubSeq(q, 2, Len(q))
        BY DEF RemoveAt
    <1>6. RemoveAt(q, 1) = SubSeq(q, 2, Len(q))
        BY <1>3, <1>4, <1>5, ConcatEmptySeq
    <1>7. SubSeq(q, at + 1, Len(q)) = RemoveAt(q, 1)
        BY <1>2, <1>6
    <1> QED
        BY <1>7 DEF at
-----------------------------------------------------------------------------
(* The operations.                                                         *)

LEMMA InitQueueInv == QueueInit => QueueInv
    <1> SUFFICES ASSUME QueueInit PROVE QueueInv
        OBVIOUS
    <1>1. pending = <<>> /\ ran = <<>> /\ next_ID = 1 /\ free = 0 /\ removed = {} /\ descriptors = 0
        BY DEF QueueInit
    <1>2. QueueShape
        BY DEF QueueShape, QueueInit
    <1>3. DOMAIN pending = {} /\ DOMAIN ran = {} /\ Len(pending) = 0
        BY <1>1
    <1>4. Ids(pending) = {} /\ Range(ran) = {}
        BY <1>3 DEF Ids, Range
    <1>5. Sorted(pending) /\ UniqueIds(pending) /\ NoRepeat(ran)
        BY <1>3 DEF Sorted, UniqueIds, NoRepeat
    <1>6. 1..(next_ID - 1) = {}
        BY <1>1
    <1>7. NoEventLost
        BY <1>1, <1>4, <1>5, <1>6, SameIds DEF NoEventLost
    <1> QED
        BY <1>1, <1>2, <1>3, <1>5, <1>7 DEF QueueInv, QueueConserved, NoDescriptorLost

\* What the invariant says of ids.
LEMMA FreshId ==
    ASSUME QueueInv
    PROVE  /\ next_ID \in Nat \ {0} /\ next_ID \notin Ids(pending) \cup removed \cup Range(ran)
           /\ 1..((next_ID + 1) - 1) = 1..(next_ID - 1) \cup {next_ID}
    BY DEF QueueInv, QueueShape, QueueConserved, NoEventLost

\* An event e has run: it was unlinked from the queue and its function may
\* have queued another one.
LEMMA RanKeeps ==
    ASSUME QueueInv, NEW e \in EventSet, e.id \in Ids(pending),
           pending' \in Seq(EventSet), Sorted(pending'), UniqueIds(pending'),
           Len(pending') = (Len(pending) - 1) + (IF Queues(e) THEN 1 ELSE 0),
           Ids(pending') = (Ids(pending) \ {e.id}) \cup (IF Queues(e) THEN {next_ID} ELSE {}),
           ran' = Append(ran, e.id), Recycle(e), UNCHANGED <<time, q_mode, removed>>
    PROVE  QueueInv'
    <1>1. /\ Ids(pending) \cup removed \cup Range(ran) = 1..(next_ID - 1)
          /\ Ids(pending) \cap (removed \cup Range(ran)) = {} /\ removed \cap Range(ran) = {} /\ NoRepeat(ran)
        BY DEF QueueInv, QueueConserved, NoEventLost
    <1>2. ran' \in Seq(Nat) /\ NoRepeat(ran') /\ Range(ran') = Range(ran) \cup {e.id}
        <2>1. e.id \in Nat /\ e.id \notin Range(ran) /\ ran \in Seq(Nat)
            BY <1>1 DEF EventSet, QueueInv, QueueShape
        <2> QED
            BY <1>1, <2>1, Recorded
    <1>3. /\ next_ID' = IF Queues(e) THEN next_ID + 1 ELSE next_ID
          /\ free' = IF Queues(e) /\ free > 0 THEN free ELSE free + 1
          /\ descriptors' = IF Queues(e) /\ free = 0 THEN descriptors + 1 ELSE descriptors
        BY DEF Recycle
    <1>4. QueueShape'
        BY <1>2, <1>3 DEF QueueInv, QueueShape
    <1>5. NoEventLost'
        <2>1. Ids(pending') \cup removed \cup Range(ran') = 1..(next_ID' - 1)
            BY <1>1, <1>2, <1>3, FreshId
        <2>2. Ids(pending') \cap (removed \cup Range(ran')) = {} /\ removed \cap Range(ran') = {}
            BY <1>1, <1>2, FreshId
        <2> QED
            BY <1>2, <2>1, <2>2, SameIds DEF NoEventLost
    <1>6. NoDescriptorLost'
        <2>1. descriptors = Len(pending) + free /\ free \in Nat /\ Len(pending) \in Nat
            BY DEF QueueInv, QueueConserved, NoDescriptorLost, QueueShape
        <2>2. CASE Queues(e)
            BY <1>3, <2>1, <2>2 DEF NoDescriptorLost
        <2>3. CASE ~Queues(e)
            BY <1>3, <2>1, <2>3 DEF NoDescriptorLost
        <2> QED
            BY <2>2, <2>3
    <1> QED
        BY <1>4, <1>5, <1>6 DEF QueueInv, QueueConserved

\* Every operation keeps the invariant.
LEMMA NextQueueInv ==
    ASSUME QueueInv, [QueueNext]_queueVars
    PROVE  QueueInv'
    <1>1. /\ pending \in Seq(EventSet) /\ Sorted(pending) /\ UniqueIds(pending) /\ time \in Nat
          /\ next_ID \in Nat \ {0} /\ next_ID \notin Ids(pending) /\ free \in Nat /\ Len(pending) \in Nat
        BY FreshId DEF QueueInv, QueueShape
    <1>2. \A i \in DOMAIN pending : pending[i] \in EventSet /\ pending[i].id \in Ids(pending) /\ i \in 1..Len(pending)
        BY <1>1, EventTypes DEF Ids
    <1>3. ASSUME NEW when \in time..MaxTime, NEW act \in Acts, Queue(when, act)
          PROVE  QueueInv'
        <2> DEFINE e == [when |-> when, id |-> next_ID, act |-> act]
        <2>1. e \in EventSet /\ e.id = next_ID
            BY <1>1 DEF EventSet
        <2>2. pending' = Insert(pending, e) /\ Allocate /\ UNCHANGED <<time, q_mode, ran, removed>>
            BY <1>3 DEF Queue, QUEUE_EVENT
        <2> HIDE DEF e
        <2>3. pending' \in Seq(EventSet) /\ Sorted(pending') /\ Len(pending') = Len(pending) + 1
            BY <1>1, <2>1, <2>2, InsertKeeps
        <2>4. UniqueIds(pending') /\ Ids(pending') = Ids(pending) \cup {next_ID}
            BY <1>1, <2>1, <2>2, InsertIds
        <2>5. QueueShape'
            BY <2>2, <2>3 DEF QueueInv, QueueShape, Allocate
        <2>6. NoEventLost'
            <3>1. Ids(pending') \cup removed \cup Range(ran) = 1..(next_ID' - 1)
                BY <2>2, <2>4, FreshId DEF QueueInv, QueueConserved, NoEventLost, Allocate
            <3>2. Ids(pending') \cap (removed \cup Range(ran)) = {}
                BY <2>4, FreshId DEF QueueInv, QueueConserved, NoEventLost
            <3> QED
                BY <2>2, <2>4, <3>1, <3>2, SameIds DEF QueueInv, QueueConserved, NoEventLost
        <2>7. NoDescriptorLost'
            BY <1>1, <2>2, <2>3 DEF QueueInv, QueueConserved, NoDescriptorLost, Allocate
        <2> QED
            BY <2>3, <2>4, <2>5, <2>6, <2>7 DEF QueueInv, QueueConserved
    <1>4. ASSUME NEW id \in 1..MaxId, eventq_execute(id)
          PROVE  QueueInv'
        <2>1. PICK i \in DOMAIN pending : /\ pending[i].id = id /\ pending' = Called(RemoveAt(pending, i), pending[i], 0)
                                         /\ ran' = Append(ran, id) /\ Recycle(pending[i])
            BY <1>4 DEF eventq_execute
        <2> DEFINE e == pending[i]
                   q == RemoveAt(pending, i)
        <2>2. e \in EventSet /\ e.id \in Ids(pending) /\ i \in 1..Len(pending)
            BY <1>2
        <2>3. q \in Seq(EventSet) /\ Len(q) = Len(pending) - 1 /\ Sorted(q) /\ UniqueIds(q) /\ Ids(q) = Ids(pending) \ {e.id}
            BY <1>1, <2>2, RemoveKeeps
        <2>4. next_ID \notin Ids(q) /\ 0 \in Nat
            BY <1>1, <2>3
        <2>5. pending' = Called(q, e, 0) /\ ran' = Append(ran, e.id) /\ Recycle(e) /\ UNCHANGED <<time, q_mode, removed>>
            BY <1>4, <2>1 DEF eventq_execute
        <2> HIDE DEF e, q
        <2>6. /\ pending' \in Seq(EventSet) /\ Sorted(pending') /\ UniqueIds(pending')
              /\ Len(pending') = Len(q) + (IF Queues(e) THEN 1 ELSE 0)
              /\ Ids(pending') = Ids(q) \cup (IF Queues(e) THEN {next_ID} ELSE {})
            BY <1>1, <2>2, <2>3, <2>4, <2>5, CalledKeeps
        <2> QED
            BY <2>2, <2>3, <2>5, <2>6, RanKeeps
    <1>5. ASSUME NEW id \in 1..MaxId, eventq_remove(id)
          PROVE  QueueInv'
        <2>1. PICK i \in DOMAIN pending : pending[i].id = id /\ pending' = RemoveAt(pending, i)
            BY <1>5 DEF eventq_remove
        <2>2. id \in Ids(pending) /\ i \in 1..Len(pending)
            BY <1>2, <2>1
        <2>3. /\ pending' \in Seq(EventSet) /\ Len(pending') = Len(pending) - 1 /\ Sorted(pending') /\ UniqueIds(pending')
              /\ Ids(pending') = Ids(pending) \ {id}
            BY <1>1, <2>1, <2>2, RemoveKeeps
        <2>4. removed' = removed \cup {id} /\ free' = free + 1 /\ UNCHANGED <<next_ID, time, q_mode, ran, descriptors>>
            BY <1>5 DEF eventq_remove
        <2>5. QueueShape'
            BY <2>3, <2>4 DEF QueueInv, QueueShape
        <2>6. NoEventLost'
            <3>1. Ids(pending') \cup removed' \cup Range(ran) = 1..(next_ID - 1)
                BY <2>2, <2>3, <2>4 DEF QueueInv, QueueConserved, NoEventLost
            <3>2. Ids(pending') \cap (removed' \cup Range(ran)) = {} /\ removed' \cap Range(ran) = {}
                BY <2>2, <2>3, <2>4 DEF QueueInv, QueueConserved, NoEventLost
            <3> QED
                BY <2>3, <2>4, <3>1, <3>2, SameIds DEF QueueInv, QueueConserved, NoEventLost
        <2>7. NoDescriptorLost'
            BY <1>1, <2>3, <2>4 DEF QueueInv, QueueConserved, NoDescriptorLost
        <2> QED
            BY <2>3, <2>5, <2>6, <2>7 DEF QueueInv, QueueConserved
    <1>6. ASSUME NEW start \in time..MaxTime, StartService(start)
          PROVE  QueueInv'
        BY <1>1, <1>6 DEF StartService, QueueInv, QueueShape, QueueConserved, NoEventLost, NoDescriptorLost
    <1>7. CASE Service
        <2> DEFINE e == Head(pending)
                   r == Called(pending, e, time)
        <2>1. pending # <<>> /\ e = pending[1] /\ 1 \in DOMAIN pending /\ Len(pending) >= 1 /\ e.when <= time
            BY <1>1, <1>7 DEF Service, Due
        <2>2. e \in EventSet /\ e.id \in Ids(pending)
            BY <1>2, <2>1
        <2>3. pending' = AfterEvent(e) /\ ran' = Append(ran, e.id) /\ Recycle(e) /\ UNCHANGED <<time, q_mode, removed>>
            BY <1>7 DEF Service
        <2> HIDE DEF e
        <2>4. /\ r \in Seq(EventSet) /\ Sorted(r) /\ UniqueIds(r) /\ r[1] = e
              /\ Len(r) = Len(pending) + (IF Queues(e) THEN 1 ELSE 0)
              /\ Ids(r) = Ids(pending) \cup (IF Queues(e) THEN {next_ID} ELSE {})
            BY <1>1, <2>1, <2>2, CalledKeeps
        <2>5. AfterEvent(e) = LET at == CHOOSE i \in DOMAIN r : r[i].id = e.id IN SubSeq(r, at + 1, Len(r))
            BY DEF AfterEvent
        <2> HIDE DEF r
        <2>6. r # <<>> /\ 1 \in 1..Len(r)
            BY <1>1, <2>1, <2>4
        <2>7. pending' = RemoveAt(r, 1)
            BY <2>3, <2>4, <2>5, <2>6, Unlinked
        <2>8. /\ pending' \in Seq(EventSet) /\ Len(pending') = Len(r) - 1 /\ Sorted(pending') /\ UniqueIds(pending')
              /\ Ids(pending') = Ids(r) \ {e.id}
            BY <2>4, <2>6, <2>7, RemoveKeeps
        <2>9. /\ Len(pending') = (Len(pending) - 1) + (IF Queues(e) THEN 1 ELSE 0)
              /\ Ids(pending') = (Ids(pending) \ {e.id}) \cup (IF Queues(e) THEN {next_ID} ELSE {})
            <3>1. e.id # next_ID
                BY <1>1, <2>2
            <3> QED
                BY <1>1, <2>4, <2>8, <3>1
        <2> QED
            BY <2>2, <2>3, <2>8, <2>9, RanKeeps
    <1>8. CASE EndService
        BY <1>1, <1>8 DEF EndService, QueueInv, QueueShape, QueueConserved, NoEventLost, NoDescriptorLost
    <1>9. CASE UNCHANGED queueVars
        BY <1>1, <1>9 DEF queueVars, QueueInv, QueueShape, QueueConserved, NoEventLost, NoDescriptorLost
    <1> QED
        BY <1>3, <1>4, <1>5, <1>6, <1>7, <1>8, <1>9 DEF QueueNext

\* However events are queued, removed, executed and served, none is lost or run
\* twice, and no descriptor leaks.
THEOREM EventsConserved == QueueSpec => []QueueConserved
    <1>1. QueueInv /\ [QueueNext]_queueVars => QueueInv'
        BY NextQueueInv
    <1>2. QueueInv => QueueConserved
        BY DEF QueueInv
    <1> QED
        BY InitQueueInv, <1>1, <1>2, PTL DEF QueueSpec

\* Whatever callbacks queue while events are served, a service ends with no
\* event left that was due: the queue is in the order of time.
THEOREM ServiceComplete == QueueSpec => NothingDueLeft
    <1>1. QueueInv /\ [QueueNext]_queueVars => QueueInv'
        BY NextQueueInv
    <1>2. ASSUME QueueInv, [QueueNext]_queueVars
          PROVE  [q_mode = "service" /\ q_mode' = "idle" => \A i \in DOMAIN pending' : pending'[i].when > time]_queueVars
        <2> SUFFICES ASSUME q_mode = "service", q_mode' = "idle", NEW i \in DOMAIN pending' PROVE pending'[i].when > time
            OBVIOUS
        <2>1. EndService
            BY <1>2 DEF QueueNext, Queue, eventq_execute, eventq_remove, StartService, Service, queueVars
        <2>2. pending' = pending /\ (pending = <<>> \/ ~(Head(pending).when <= time))
            BY <2>1 DEF EndService, Due
        <2>3. pending \in Seq(EventSet) /\ Sorted(pending) /\ time \in Nat
            BY <1>2 DEF QueueInv, QueueShape
        <2>4. /\ i \in 1..Len(pending) /\ 1 \in 1..Len(pending) /\ DOMAIN pending = 1..Len(pending)
              /\ pending # <<>> /\ Head(pending) = pending[1]
            BY <2>2, <2>3
        <2>5. pending[1].when \in Nat /\ pending[i].when \in Nat
            BY <2>3, <2>4, EventTypes
        <2>6. pending[1].when <= pending[i].when
            <3>1. CASE i = 1
                BY <2>5, <3>1
            <3>2. CASE i # 1
                BY <2>3, <2>4, <3>2 DEF Sorted
            <3> QED
                BY <3>1, <3>2
        <2> QED
            BY <2>2, <2>3, <2>4, <2>5, <2>6
    <1> QED
        BY InitQueueInv, <1>1, <1>2, PTL DEF QueueSpec, NothingDueLeft
-----------------------------------------------------------------------------
(* The state of a wrong path.                                              *)

\* The target and the mode of the default build: the bits of the Alpha's FCC
\* and the buckets of -bugcompat are not exact.
Usual == Target = "pisa" /\ bugcompat_mode = FALSE

Vals == Values \cup {0}
BucketSet == [addr : Valid, data : [0..7 -> Vals]]
Heads == 0..(STORE_HASH_SIZE - 1)

\* A chain holds addresses of its own hash value, each of them once.
ChainOK(c, h) ==
    /\ c \in Seq(BucketSet) /\ OneToOne(c)
    /\ \A x \in ToSet(c) : HASH_ADDR(x.addr) = h
    /\ \A x, y \in ToSet(c) : x.addr = y.addr => x = y

Shape ==
    /\ spec_mode \in BOOLEAN
    /\ regs \in [Names -> Vals] /\ spec_regs \in [Names -> Vals] /\ mem \in [0..MaxAddr -> Vals]
    /\ view \in [regs : [Names -> Vals], mem : [0..MaxAddr -> Vals], sizes : SUBSET Sizes]
    /\ DOMAIN store_htable = Heads /\ store_htable = [h \in Heads |-> store_htable[h]]
    /\ \A h \in Heads : ChainOK(store_htable[h], h)
    /\ bucket_free \in Nat /\ made \in Nat /\ IsFiniteSet(Slots(store_htable))

Empty == \A h \in Heads : store_htable[h] = <<>>

\* Between wrong paths nothing speculative is left.
Clean ==
    /\ ~spec_mode => use_spec = {} /\ view.regs = regs /\ view.sizes = {}
    /\ view.sizes = {} => view.mem = mem /\ Empty

Holds(a) == \E x \in ToSet(store_htable[HASH_ADDR(a)]) : x.addr = a

\* What the table holds is what the wrong path stored, and the rest is memory.
OneSize(size) ==
    /\ \A h \in Heads : \A x \in ToSet(store_htable[h]) :
         Aligned(x.addr, size) /\ \A k \in 0..(size - 1) : x.data[k] = view.mem[x.addr + k]
    /\ \A a \in Valid : Aligned(a, size) /\ ~Holds(a) => \A k \in 0..(size - 1) : view.mem[a + k] = mem[a + k]
StoresExact == \A size \in Sizes : view.sizes = {size} => OneSize(size)

PathInv == Shape /\ Clean /\ RegistersExact /\ StoresExact /\ BucketsConserved
-----------------------------------------------------------------------------
(* Addresses and chains.                                                   *)

LEMMA HashIn ==
    ASSUME NEW a \in Nat
    PROVE  HASH_ADDR(a) \in Heads
    BY SpecStateAssumption DEF HASH_ADDR, Heads

\* Two aligned accesses of one size meet only at one address.
LEMMA AlignedApart ==
    ASSUME NEW size \in Sizes, NEW a \in Nat, NEW b \in Nat, Aligned(a, size), Aligned(b, size), a # b,
           NEW k \in 0..(size - 1)
    PROVE  b + k \notin a..(a + size - 1)
    <1>1. size \in {1, 2, 4, 8}
        BY SpecStateAssumption
    <1>2. CASE size = 1
        BY <1>2
    <1>3. CASE size = 2
        BY <1>3 DEF Aligned
    <1>4. CASE size = 4
        BY <1>4 DEF Aligned
    <1>5. CASE size = 8
        BY <1>5 DEF Aligned
    <1> QED
        BY <1>1, <1>2, <1>3, <1>4, <1>5

LEMMA InMemory ==
    ASSUME NEW size \in Sizes, NEW a \in Valid, Aligned(a, size), NEW k \in 0..(size - 1)
    PROVE  a + k \in 0..MaxAddr /\ a \in Nat /\ size \in Nat \ {0} /\ k \in 0..7
    <1>1. size \in {1, 2, 4, 8} /\ a \in 0..MaxAddr /\ MaxAddr \in Nat
        BY SpecStateAssumption
    <1>2. a + size - 1 <= MaxAddr
        BY SpecStateAssumption DEF Aligned
    <1> QED
        BY <1>1, <1>2

LEMMA FoundIs ==
    ASSUME NEW c \in Seq(BucketSet), NEW a
    PROVE  (Found(c, a) # {}) <=> \E x \in ToSet(c) : x.addr = a
    BY DEF Found, ToSet

\* The entry that was found is first, and the chain holds the same entries.
LEMMA ToFrontKeeps ==
    ASSUME NEW h, NEW c, ChainOK(c, h), NEW a
    PROVE  LET r == ToFront(c, a)
           IN  /\ ChainOK(r, h) /\ ToSet(r) = ToSet(c) /\ Len(r) = Len(c)
               /\ Found(c, a) # {} => r # <<>> /\ r[1].addr = a /\ r[1] \in ToSet(c)
    <1>1. CASE Found(c, a) = {}
        BY <1>1 DEF ToFront
    <1>2. CASE Found(c, a) # {}
        <2> DEFINE i == CHOOSE j \in Found(c, a) : TRUE
                   r == <<c[i]>> \o RemoveAt(c, i)
        <2>1. i \in Found(c, a)
            BY <1>2
        <2>2. ToFront(c, a) = r
            BY <1>2 DEF ToFront
        <2> HIDE DEF i
        <2>3. c \in Seq(BucketSet) /\ OneToOne(c)
            BY DEF ChainOK
        <2>4. i \in 1..Len(c) /\ c[i].addr = a /\ c[i] \in ToSet(c) /\ c[i] \in BucketSet
            BY <2>1, <2>3 DEF Found, ToSet
        <2>5. r \in Seq(BucketSet) /\ Len(r) = Len(c) /\ r[1] = c[i] /\ OneToOne(r) /\ ToSet(r) = ToSet(c) /\ r # <<>>
            BY <2>3, <2>4, FrontIs
        <2> HIDE DEF r
        <2> QED
            BY <2>2, <2>4, <2>5 DEF ChainOK
    <1> QED
        BY <1>1, <1>2

StoredIn(c, a, v, size) == [Entry(c, a) EXCEPT ![1].data = Put(@, v, size)]

\* The chain after a store of v: one entry for the address, with the bytes
\* stored, and the others as they were.
LEMMA StoreKeeps ==
    ASSUME NEW h, NEW c, ChainOK(c, h), NEW a \in Valid, HASH_ADDR(a) = h, NEW v \in Vals, NEW size \in Nat
    PROVE  LET r == StoredIn(c, a, v, size)
           IN  /\ ChainOK(r, h)
               /\ Len(r) = IF Found(c, a) # {} THEN Len(c) ELSE Len(c) + 1
               /\ \E new \in BucketSet : /\ new.addr = a /\ \A k \in 0..7 : k < size => new.data[k] = v
                                         /\ ToSet(r) = {new} \cup {x \in ToSet(c) : x.addr # a}
    <1> DEFINE chain == Entry(c, a)
               new == [chain[1] EXCEPT !.data = Put(@, v, size)]
               r == [chain EXCEPT ![1].data = Put(@, v, size)]
               zero == [addr |-> a, data |-> [i \in 0..7 |-> 0]]
    <1>1. c \in Seq(BucketSet) /\ OneToOne(c)
        BY DEF ChainOK
    <1>2. /\ chain \in Seq(BucketSet) /\ OneToOne(chain) /\ chain # <<>> /\ chain[1].addr = a
          /\ Len(chain) = IF Found(c, a) # {} THEN Len(c) ELSE Len(c) + 1
          /\ {x \in ToSet(chain) : x.addr # a} = {x \in ToSet(c) : x.addr # a}
          /\ \A x \in ToSet(chain) : x.addr = a => x = chain[1]
          /\ chain[1] \in ToSet(chain)
        <2>1. CASE Found(c, a) # {}
            <3>1. chain = ToFront(c, a)
                BY <2>1 DEF Entry
            <3> HIDE DEF chain
            <3>2. ChainOK(chain, h) /\ ToSet(chain) = ToSet(c) /\ Len(chain) = Len(c) /\ chain # <<>> /\ chain[1].addr = a /\ chain[1] \in ToSet(c)
                BY <2>1, <3>1, ToFrontKeeps
            <3> QED
                BY <2>1, <3>2 DEF ChainOK
        <2>2. CASE Found(c, a) = {}
            <3>1. chain = <<zero>> \o c
                BY <2>2 DEF Entry
            <3>2. zero \in BucketSet /\ zero.addr = a
                BY DEF BucketSet, Vals
            <3> HIDE DEF chain, zero
            <3>3. \A x \in ToSet(c) : x.addr # a
                BY <1>1, <2>2, FoundIs
            <3>4. zero \notin ToSet(c)
                BY <3>2, <3>3
            <3>5. chain \in Seq(BucketSet) /\ Len(chain) = Len(c) + 1 /\ chain[1] = zero /\ ToSet(chain) = {zero} \cup ToSet(c) /\ OneToOne(chain)
                BY <1>1, <3>1, <3>2, <3>4, ConsIs
            <3>6. chain # <<>>
                BY <1>1, <3>5
            <3> QED
                BY <2>2, <3>2, <3>3, <3>5, <3>6
        <2> QED
            BY <2>1, <2>2
    <1> HIDE DEF chain
    <1>3. chain[1] \in BucketSet
        BY <1>2
    <1>4. new \in BucketSet /\ new.addr = a /\ \A k \in 0..7 : k < size => new.data[k] = v
        BY <1>2, <1>3 DEF BucketSet, Put
    <1>5. r = [chain EXCEPT ![1] = new]
        OBVIOUS
    <1> HIDE DEF new, r
    <1>6. new \notin ToSet(chain) \ {chain[1]}
        BY <1>2, <1>4
    <1>7. r \in Seq(BucketSet) /\ Len(r) = Len(chain) /\ OneToOne(r) /\ ToSet(r) = {new} \cup (ToSet(chain) \ {chain[1]})
        BY <1>2, <1>4, <1>5, <1>6, ReplaceHead
    <1>8. ToSet(chain) \ {chain[1]} = {x \in ToSet(c) : x.addr # a}
        BY <1>2
    <1>9. ChainOK(r, h)
        BY <1>4, <1>7, <1>8 DEF ChainOK
    <1> QED
        BY <1>2, <1>4, <1>7, <1>8, <1>9 DEF r, chain, StoredIn

LEMMA SlotsArePlaces ==
    ASSUME NEW t
    PROVE  Slots(t) = Places(t)
    BY DEF Slots, Places
-----------------------------------------------------------------------------
(* The steps.                                                              *)

LEMMA EmptyChain ==
    ASSUME NEW h
    PROVE  ChainOK(<<>>, h) /\ ToSet(<<>>) = {}
    BY DEF ChainOK, ToSet, OneToOne

\* With an empty table and nothing of the wrong path in memory, a store of any
\* size is exact.
LEMMA InitPathInv == PathInit => PathInv
    <1> SUFFICES ASSUME PathInit PROVE PathInv
        OBVIOUS
    <1>1. /\ spec_mode = FALSE /\ use_spec = {} /\ regs = [r \in Names |-> 0] /\ spec_regs = [r \in Names |-> 0]
          /\ mem = [a \in 0..MaxAddr |-> 0] /\ bucket_free = 0 /\ made = 0
          /\ store_htable = [h \in Heads |-> <<>>] /\ view = [regs |-> regs, mem |-> mem, sizes |-> {}]
        BY DEF PathInit, Heads
    <1>2. IsFiniteSet(Slots(store_htable)) /\ Cardinality(Slots(store_htable)) = 0
        BY <1>1, PlacesEmpty, SlotsArePlaces
    <1>3. Shape
        BY <1>1, <1>2, EmptyChain DEF Shape, Vals
    <1>4. Clean
        BY <1>1 DEF Clean, Empty
    <1>5. RegistersExact
        BY <1>1 DEF RegistersExact, Get
    <1>6. StoresExact
        BY <1>1 DEF StoresExact
    <1>7. BucketsConserved
        BY <1>1, <1>2 DEF BucketsConserved
    <1> QED
        BY <1>3, <1>4, <1>5, <1>6, <1>7 DEF PathInv

\* The bits of PISA's integer and control registers are their own.
LEMMA OwnBit ==
    ASSUME Usual, NEW r \in Names
    PROVE  /\ r.bank # "F" => ReadBit(r) = r /\ WriteBit(r) = r
           /\ r.bank = "F" => WriteBit(r).bank = "F"
    BY DEF Usual, Names, ReadBit, WriteBit

LEMMA SetRegKeeps ==
    ASSUME Usual, PathInv, NEW r \in Names, NEW v \in Values, SetReg(r, v)
    PROVE  PathInv'
    <1>1. UNCHANGED <<spec_mode, mem, store_htable, bucket_free, made>>
        BY DEF SetReg
    <1>2. /\ view \in [regs : [Names -> Vals], mem : [0..MaxAddr -> Vals], sizes : SUBSET Sizes]
          /\ regs \in [Names -> Vals] /\ spec_regs \in [Names -> Vals] /\ v \in Vals
        BY DEF PathInv, Shape, Vals
    <1>3. view' = [view EXCEPT !.regs[r] = v]
        BY DEF SetReg
    <1>4. view'.mem = view.mem /\ view'.sizes = view.sizes /\ view'.regs = [view.regs EXCEPT ![r] = v]
        BY <1>2, <1>3
    <1>5. view' \in [regs : [Names -> Vals], mem : [0..MaxAddr -> Vals], sizes : SUBSET Sizes]
        BY <1>2, <1>3
    <1>6. \/ spec_mode /\ spec_regs' = [spec_regs EXCEPT ![r] = v] /\ use_spec' = use_spec \cup {WriteBit(r)} /\ regs' = regs
          \/ ~spec_mode /\ regs' = [regs EXCEPT ![r] = v] /\ spec_regs' = spec_regs /\ use_spec' = use_spec
        BY DEF SetReg
    <1>7. Shape'
        BY <1>1, <1>2, <1>5, <1>6 DEF PathInv, Shape
    <1>8. Clean'
        BY <1>1, <1>4, <1>6 DEF PathInv, Clean, Empty
    <1>9. StoresExact' /\ BucketsConserved'
        BY <1>1, <1>4 DEF PathInv, StoresExact, OneSize, Holds, BucketsConserved
    <1>10. RegistersExact'
        <2> SUFFICES ASSUME NEW s \in Names, s.bank # "F"
                     PROVE  (IF s \in use_spec' THEN spec_regs'[s] ELSE regs'[s]) = view'.regs[s]
            BY OwnBit DEF RegistersExact, Get
        <2>1. (IF s \in use_spec THEN spec_regs[s] ELSE regs[s]) = view.regs[s]
            BY OwnBit DEF PathInv, RegistersExact, Get
        <2>2. r.bank # "F" => WriteBit(r) = r
            BY OwnBit
        <2>3. r.bank = "F" => WriteBit(r) # s
            BY OwnBit
        <2>4. CASE spec_mode
            BY <1>2, <1>4, <1>6, <2>1, <2>2, <2>3, <2>4
        <2>5. CASE ~spec_mode
            <3>1. s \notin use_spec'
                BY <1>6, <2>5 DEF PathInv, Clean
            <3> QED
                BY <1>2, <1>4, <1>6, <2>1, <2>5, <3>1
        <2> QED
            BY <2>4, <2>5
    <1> QED
        BY <1>7, <1>8, <1>9, <1>10 DEF PathInv

\* The bytes a store writes.
LEMMA StoredIs ==
    ASSUME NEW m \in [0..MaxAddr -> Vals], NEW a, NEW size, NEW v \in Vals
    PROVE  /\ Stored(m, a, size, v) \in [0..MaxAddr -> Vals]
           /\ \A b \in 0..MaxAddr : Stored(m, a, size, v)[b] = IF b \in a..(a + size - 1) THEN v ELSE m[b]
    BY DEF Stored

\* The registers are not touched by memory operations.
LEMMA RegistersKept ==
    ASSUME PathInv, UNCHANGED <<regs, spec_regs, use_spec>>, view'.regs = view.regs
    PROVE  RegistersExact'
    BY DEF PathInv, RegistersExact, Get

\* A load of a wrong path only reorders a chain.
LEMMA ReadKeeps ==
    ASSUME PathInv, NEW a \in 0..MaxAddr, Read(a)
    PROVE  PathInv'
    <1> DEFINE g == HASH_ADDR(a)
               c == store_htable[g]
    <1>1. /\ spec_mode /\ store_htable' = [store_htable EXCEPT ![g] = ToFront(@, a)]
          /\ UNCHANGED <<spec_mode, regs, spec_regs, use_spec, mem, bucket_free, made, view>>
        BY DEF Read
    <1>2. g \in Heads /\ DOMAIN store_htable = Heads /\ ChainOK(c, g)
        BY HashIn, SpecStateAssumption DEF PathInv, Shape
    <1>3. /\ ChainOK(store_htable'[g], g) /\ ToSet(store_htable'[g]) = ToSet(c)
          /\ Len(store_htable'[g]) = Len(c)
        BY <1>1, <1>2, ToFrontKeeps
    <1>4. \A h \in Heads : h # g => store_htable'[h] = store_htable[h]
        BY <1>1, <1>2
    <1>5. DOMAIN store_htable' = Heads /\ store_htable' = [h \in Heads |-> store_htable'[h]]
        BY <1>1, <1>2
    <1>6. \A h \in Heads : ChainOK(store_htable'[h], h) /\ ToSet(store_htable'[h]) = ToSet(store_htable[h])
        BY <1>3, <1>4 DEF PathInv, Shape
    <1>7. Slots(store_htable') = Slots(store_htable)
        <2>1. c \in Seq(BucketSet) /\ store_htable'[g] \in Seq(BucketSet)
            BY <1>2, <1>3 DEF ChainOK
        <2>2. DOMAIN store_htable'[g] = DOMAIN c
            BY <1>3, <2>1
        <2> QED
            BY <1>2, <1>4, <1>5, <2>2, PlacesSame, SlotsArePlaces
    <1>8. Shape'
        BY <1>1, <1>5, <1>6, <1>7 DEF PathInv, Shape
    <1>9. Clean'
        <2>1. ASSUME Empty PROVE Empty'
            <3>1. c = <<>>
                BY <1>2, <2>1 DEF Empty
            <3>2. store_htable'[g] \in Seq(BucketSet) /\ Len(store_htable'[g]) = 0
                BY <1>3, <3>1 DEF ChainOK
            <3> QED
                BY <1>4, <2>1, <3>2 DEF Empty
        <2> QED
            BY <1>1, <2>1 DEF PathInv, Clean
    <1>10. StoresExact'
        <2>1. ASSUME NEW b \in Valid PROVE Holds(b)' <=> Holds(b)
            <3>1. HASH_ADDR(b) \in Heads
                BY HashIn, SpecStateAssumption
            <3> QED
                BY <1>6, <3>1 DEF Holds
        <2> QED
            BY <1>1, <1>6, <2>1 DEF PathInv, StoresExact, OneSize
    <1>11. RegistersExact'
        BY <1>1, RegistersKept
    <1>12. BucketsConserved'
        BY <1>1, <1>7 DEF PathInv, BucketsConserved
    <1> QED
        BY <1>8, <1>9, <1>10, <1>11, <1>12 DEF PathInv

\* A store of the program itself, or one nobody sees.
LEMMA PlainWriteKeeps ==
    ASSUME PathInv, NEW a \in 0..MaxAddr, NEW size \in Sizes, NEW v \in Values, Write(a, size, v),
           ~spec_mode \/ a \notin Valid \/ ~Aligned(a, size)
    PROVE  PathInv'
    <1>1. /\ view \in [regs : [Names -> Vals], mem : [0..MaxAddr -> Vals], sizes : SUBSET Sizes]
          /\ mem \in [0..MaxAddr -> Vals] /\ v \in Vals
        BY DEF PathInv, Shape, Vals
    <1>2. UNCHANGED <<spec_mode, regs, spec_regs, use_spec>>
        BY DEF Write
    <1>3. CASE spec_mode
        <2>1. UNCHANGED <<store_htable, bucket_free, made, mem, view>>
            BY <1>3 DEF Write, SpecWrite
        <2>2. Shape' /\ Clean'
            BY <1>2, <2>1 DEF PathInv, Shape, Clean, Empty
        <2>3. StoresExact' /\ BucketsConserved'
            BY <1>2, <2>1 DEF PathInv, StoresExact, OneSize, Holds, BucketsConserved
        <2> QED
            BY <1>2, <2>1, <2>2, <2>3, RegistersKept DEF PathInv
    <1>4. CASE ~spec_mode
        <2>1. UNCHANGED <<store_htable, bucket_free, made>> /\ mem' = Stored(mem, a, size, v)
            BY <1>4 DEF Write
        <2>2. view' = [view EXCEPT !.mem = Stored(@, a, size, v), !.sizes = @]
            BY <1>4 DEF Write
        <2>3. view.sizes = {} /\ view.mem = mem /\ Empty
            BY <1>4 DEF PathInv, Clean
        <2>4. mem' \in [0..MaxAddr -> Vals]
            BY <1>1, <2>1, StoredIs
        <2>5. /\ view'.regs = view.regs /\ view'.mem = mem' /\ view'.sizes = {}
              /\ view' \in [regs : [Names -> Vals], mem : [0..MaxAddr -> Vals], sizes : SUBSET Sizes]
            BY <1>1, <2>1, <2>2, <2>3, <2>4
        <2>6. Shape'
            BY <1>2, <2>1, <2>4, <2>5 DEF PathInv, Shape
        <2>7. Clean'
            BY <1>2, <1>4, <2>1, <2>3, <2>5 DEF PathInv, Clean, Empty
        <2>8. StoresExact' /\ BucketsConserved'
            BY <2>1, <2>5 DEF PathInv, StoresExact, BucketsConserved
        <2> QED
            BY <1>2, <2>5, <2>6, <2>7, <2>8, RegistersKept DEF PathInv
    <1> QED
        BY <1>3, <1>4

\* A store of a wrong path.
LEMMA SpecWriteKeeps ==
    ASSUME Usual, PathInv, NEW a \in 0..MaxAddr, NEW size \in Sizes, NEW v \in Values, Write(a, size, v),
           spec_mode, a \in Valid, Aligned(a, size)
    PROVE  PathInv'
    <1> DEFINE g == HASH_ADDR(a)
               c == store_htable[g]
               old == Found(c, a)
               r == StoredIn(c, a, v, size)
    <1>1. /\ UNCHANGED <<spec_mode, regs, spec_regs, use_spec, mem>>
          /\ store_htable' = [store_htable EXCEPT ![g] = r]
          /\ bucket_free' = IF old # {} \/ bucket_free = 0 THEN bucket_free ELSE bucket_free - 1
          /\ made' = IF old # {} \/ bucket_free > 0 THEN made ELSE made + 1
          /\ view' = [view EXCEPT !.mem = Stored(@, a, size, v), !.sizes = @ \cup {size}]
        BY DEF Write, SpecWrite, Usual, StoredIn
    <1>2. g \in Heads /\ DOMAIN store_htable = Heads /\ ChainOK(c, g) /\ v \in Vals /\ size \in Nat \ {0} /\ a \in Nat
          /\ size \in 1..8
        BY HashIn, SpecStateAssumption DEF PathInv, Shape, Vals
    <1>3. /\ ChainOK(r, g) /\ Len(r) = IF old # {} THEN Len(c) ELSE Len(c) + 1
          /\ \E new \in BucketSet : /\ new.addr = a /\ \A k \in 0..7 : k < size => new.data[k] = v
                                    /\ ToSet(r) = {new} \cup {x \in ToSet(c) : x.addr # a}
        <2>1. g = HASH_ADDR(a) /\ size \in Nat
            BY <1>2
        <2> HIDE DEF g, c
        <2> QED
            BY <1>2, <2>1, StoreKeeps
    <1> HIDE DEF r, old
    <1>4. PICK new \in BucketSet : /\ new.addr = a /\ \A k \in 0..7 : k < size => new.data[k] = v
                                  /\ ToSet(r) = {new} \cup {x \in ToSet(c) : x.addr # a}
        BY <1>3
    <1>5. /\ DOMAIN store_htable' = Heads /\ store_htable' = [h \in Heads |-> store_htable'[h]]
          /\ store_htable'[g] = r /\ \A h \in Heads : h # g => store_htable'[h] = store_htable[h]
        BY <1>1, <1>2
    <1>6. \A h \in Heads : ChainOK(store_htable'[h], h)
        BY <1>3, <1>5 DEF PathInv, Shape
    <1>7. /\ view \in [regs : [Names -> Vals], mem : [0..MaxAddr -> Vals], sizes : SUBSET Sizes]
          /\ mem \in [0..MaxAddr -> Vals]
        BY DEF PathInv, Shape
    <1>8. /\ view'.regs = view.regs /\ view'.mem = Stored(view.mem, a, size, v) /\ view'.sizes = view.sizes \cup {size}
          /\ view' \in [regs : [Names -> Vals], mem : [0..MaxAddr -> Vals], sizes : SUBSET Sizes]
        <2>1. Stored(view.mem, a, size, v) \in [0..MaxAddr -> Vals]
            BY <1>2, <1>7, StoredIs
        <2> QED
            BY <1>1, <1>7, <2>1
    <1>9. \A b \in 0..MaxAddr : view'.mem[b] = IF b \in a..(a + size - 1) THEN v ELSE view.mem[b]
        BY <1>2, <1>7, <1>8, StoredIs
    <1>10. /\ bucket_free' \in Nat /\ made' \in Nat /\ IsFiniteSet(Slots(store_htable')) /\ BucketsConserved'
        <2>1. /\ bucket_free \in Nat /\ made \in Nat /\ IsFiniteSet(Slots(store_htable))
              /\ made = bucket_free + Cardinality(Slots(store_htable)) /\ Cardinality(Slots(store_htable)) \in Nat
            BY FS_CardinalityType DEF PathInv, Shape, BucketsConserved
        <2>2. c \in Seq(BucketSet) /\ r \in Seq(BucketSet)
            BY <1>2, <1>3 DEF ChainOK
        <2>3. CASE old # {}
            <3>1. DOMAIN store_htable'[g] = DOMAIN c
                BY <1>3, <1>5, <2>2, <2>3
            <3>2. Slots(store_htable') = Slots(store_htable)
                BY <1>2, <1>5, <3>1, PlacesSame, SlotsArePlaces
            <3> QED
                BY <1>1, <2>1, <2>3, <3>2 DEF BucketsConserved
        <2>4. CASE old = {}
            <3> DEFINE s == <<g, Len(store_htable'[g])>>
            <3>1. Slots(store_htable') = Slots(store_htable) \cup {s} /\ s \notin Slots(store_htable)
                <4>1. Len(store_htable'[g]) = Len(store_htable[g]) + 1 /\ store_htable'[g] \in Seq(BucketSet)
                    BY <1>3, <1>5, <2>2, <2>4
                <4> QED
                    BY <1>2, <1>5, <2>2, <4>1, PlacesGrow, SlotsArePlaces
            <3> HIDE DEF s
            <3>2. IsFiniteSet(Slots(store_htable')) /\ Cardinality(Slots(store_htable')) = Cardinality(Slots(store_htable)) + 1
                BY <2>1, <3>1, FS_AddElement
            <3> QED
                BY <1>1, <2>1, <2>4, <3>2 DEF BucketsConserved
        <2> QED
            BY <2>3, <2>4
    <1>11. Shape'
        BY <1>1, <1>5, <1>6, <1>8, <1>10 DEF PathInv, Shape
    <1>12. Clean'
        BY <1>1, <1>8 DEF Clean
    <1>13. RegistersExact'
        BY <1>1, <1>8, RegistersKept
    <1>14. StoresExact'
        <2> SUFFICES ASSUME view'.sizes = {size} PROVE OneSize(size)'
            BY <1>8 DEF StoresExact
        <2>1. OneSize(size)
            <3>1. CASE view.sizes = {size}
                BY <3>1 DEF PathInv, StoresExact
            <3>2. CASE view.sizes = {}
                BY <3>2, EmptyChain DEF PathInv, Clean, Empty, OneSize
            <3> QED
                BY <1>8, <3>1, <3>2
        <2>2. ASSUME NEW h \in Heads, NEW x \in ToSet(store_htable'[h])
              PROVE  Aligned(x.addr, size) /\ \A k \in 0..(size - 1) : x.data[k] = view'.mem[x.addr + k]
            <3>1. CASE h = g /\ x = new
                <4>1. ASSUME NEW k \in 0..(size - 1) PROVE x.data[k] = view'.mem[x.addr + k]
                    <5>1. a + k \in 0..MaxAddr /\ k \in 0..7 /\ k < size /\ a + k \in a..(a + size - 1)
                        BY <1>2, InMemory
                    <5> QED
                        BY <1>4, <1>9, <3>1, <5>1
                <4> QED
                    BY <1>4, <3>1, <4>1
            <3>2. CASE ~(h = g /\ x = new)
                <4>1. x \in ToSet(store_htable[h]) /\ x.addr # a /\ x.addr \in Valid
                    <5>1. CASE h = g
                        <6>1. x \in ToSet(c) /\ x.addr # a
                            BY <1>4, <1>5, <3>2, <5>1
                        <6>2. x \in BucketSet
                            BY <1>2, <6>1 DEF ChainOK, ToSet
                        <6> QED
                            BY <5>1, <6>1, <6>2 DEF BucketSet
                    <5>2. CASE h # g
                        <6>1. x \in ToSet(store_htable[h]) /\ ChainOK(store_htable[h], h)
                            BY <1>5, <5>2 DEF PathInv, Shape
                        <6>2. x \in BucketSet /\ HASH_ADDR(x.addr) = h
                            BY <6>1 DEF ChainOK, ToSet
                        <6> QED
                            BY <5>2, <6>1, <6>2 DEF BucketSet
                    <5> QED
                        BY <5>1, <5>2
                <4>2. Aligned(x.addr, size) /\ \A k \in 0..(size - 1) : x.data[k] = view.mem[x.addr + k]
                    BY <2>1, <4>1 DEF OneSize
                <4>3. ASSUME NEW k \in 0..(size - 1) PROVE view'.mem[x.addr + k] = view.mem[x.addr + k]
                    <5>1. x.addr + k \in 0..MaxAddr /\ x.addr \in Nat
                        BY <4>1, <4>2, InMemory
                    <5>2. x.addr + k \notin a..(a + size - 1)
                        BY <1>2, <4>1, <4>2, <5>1, AlignedApart
                    <5> QED
                        BY <1>9, <5>1, <5>2
                <4> QED
                    BY <4>2, <4>3
            <3> QED
                BY <3>1, <3>2
        <2>3. ASSUME NEW b \in Valid, Aligned(b, size), ~Holds(b)', NEW k \in 0..(size - 1)
              PROVE  view'.mem[b + k] = mem[b + k]
            <3>1. HASH_ADDR(b) \in Heads /\ b \in Nat /\ b + k \in 0..MaxAddr
                BY <2>3, HashIn, InMemory
            <3>2. \A x \in ToSet(store_htable'[HASH_ADDR(b)]) : x.addr # b
                BY <2>3 DEF Holds
            <3>3. b # a
                BY <1>4, <1>5, <3>2
            <3>4. ~Holds(b)
                <4> SUFFICES ASSUME NEW x \in ToSet(store_htable[HASH_ADDR(b)]), x.addr = b PROVE FALSE
                    BY DEF Holds
                <4>1. CASE HASH_ADDR(b) = g
                    BY <1>4, <1>5, <3>2, <3>3, <4>1
                <4>2. CASE HASH_ADDR(b) # g
                    BY <1>5, <3>1, <3>2, <4>2
                <4> QED
                    BY <4>1, <4>2
            <3>5. view.mem[b + k] = mem[b + k]
                BY <2>1, <2>3, <3>4 DEF OneSize
            <3>6. b + k \notin a..(a + size - 1)
                BY <1>2, <2>3, <3>1, <3>3, AlignedApart
            <3> QED
                BY <1>9, <3>1, <3>5, <3>6
        <2> QED
            BY <1>1, <2>2, <2>3 DEF OneSize
    <1> QED
        BY <1>10, <1>11, <1>12, <1>13, <1>14 DEF PathInv

LEMMA EnterKeeps ==
    ASSUME PathInv, EnterSpec
    PROVE  PathInv'
    <1>1. spec_mode' = TRUE /\ UNCHANGED <<regs, spec_regs, use_spec, mem, store_htable, bucket_free, made, view>>
        BY DEF EnterSpec
    <1>2. Shape' /\ Clean'
        BY <1>1 DEF PathInv, Shape, Clean, Empty
    <1>3. StoresExact' /\ BucketsConserved' /\ RegistersExact'
        BY <1>1, RegistersKept DEF PathInv, StoresExact, OneSize, Holds, BucketsConserved
    <1> QED
        BY <1>2, <1>3 DEF PathInv

\* Recovery: the bits are cleared and every bucket goes to the free list.
LEMMA RecoverKeeps ==
    ASSUME PathInv, tracer_recover
    PROVE  PathInv'
    <1>1. /\ spec_mode' = FALSE /\ use_spec' = {} /\ UNCHANGED <<regs, spec_regs, mem, made>>
          /\ store_htable' = [h \in Heads |-> <<>>]
          /\ bucket_free' = bucket_free + Cardinality(Slots(store_htable))
          /\ view' = [regs |-> regs, mem |-> mem, sizes |-> {}]
        BY DEF tracer_recover, Released, PathInv, Shape
    <1>2. \A h \in DOMAIN store_htable' : store_htable'[h] = <<>>
        BY <1>1
    <1>3. IsFiniteSet(Slots(store_htable')) /\ Cardinality(Slots(store_htable')) = 0
        BY <1>2, PlacesEmpty, SlotsArePlaces
    <1>4. bucket_free \in Nat /\ made \in Nat /\ Cardinality(Slots(store_htable)) \in Nat
        BY FS_CardinalityType DEF PathInv, Shape
    <1>5. BucketsConserved'
        BY <1>1, <1>3, <1>4 DEF PathInv, BucketsConserved
    <1>6. Shape'
        <2>1. /\ DOMAIN store_htable' = Heads /\ store_htable' = [h \in Heads |-> store_htable'[h]]
              /\ \A h \in Heads : ChainOK(store_htable'[h], h)
            BY <1>1, EmptyChain
        <2>2. view' \in [regs : [Names -> Vals], mem : [0..MaxAddr -> Vals], sizes : SUBSET Sizes]
            BY <1>1 DEF PathInv, Shape
        <2>3. bucket_free' \in Nat
            BY <1>1, <1>4
        <2> QED
            BY <1>1, <1>3, <2>1, <2>2, <2>3 DEF PathInv, Shape
    <1>7. Clean'
        BY <1>1 DEF Clean, Empty
    <1>8. StoresExact'
        BY <1>1 DEF StoresExact
    <1>9. RegistersExact'
        BY <1>1 DEF RegistersExact, Get
    <1> QED
        BY <1>5, <1>6, <1>7, <1>8, <1>9 DEF PathInv

LEMMA NextPathInv ==
    ASSUME Usual, PathInv, [PathNext]_pathVars
    PROVE  PathInv'
    <1>1. CASE UNCHANGED pathVars
        <2>1. Shape' /\ Clean'
            BY <1>1 DEF pathVars, PathInv, Shape, Clean, Empty
        <2>2. StoresExact' /\ BucketsConserved' /\ RegistersExact'
            BY <1>1, RegistersKept DEF pathVars, PathInv, StoresExact, OneSize, Holds, BucketsConserved
        <2> QED
            BY <2>1, <2>2 DEF PathInv
    <1>2. CASE PathStep
        <2>1. ASSUME NEW r \in Names, NEW v \in Values, SetReg(r, v) PROVE PathInv'
            BY <2>1, SetRegKeeps
        <2>2. ASSUME NEW a \in 0..MaxAddr, NEW size \in Sizes, NEW v \in Values, Write(a, size, v) PROVE PathInv'
            <3>1. CASE ~spec_mode \/ a \notin Valid \/ ~Aligned(a, size)
                BY <2>2, <3>1, PlainWriteKeeps
            <3>2. CASE spec_mode /\ a \in Valid /\ Aligned(a, size)
                BY <2>2, <3>2, SpecWriteKeeps
            <3> QED
                BY <3>1, <3>2
        <2>3. ASSUME NEW a \in 0..MaxAddr, Read(a) PROVE PathInv'
            BY <2>3, ReadKeeps
        <2> QED
            BY <1>2, <2>1, <2>2, <2>3, EnterKeeps, RecoverKeeps DEF PathStep
    <1> QED
        BY <1>1, <1>2 DEF PathNext

\* What the table and memory hold is what spec_mem_access reads.
LEMMA LoadsExact ==
    ASSUME PathInv
    PROVE  OwnStoresSeen
    <1> SUFFICES ASSUME NEW size \in view.sizes, Cardinality(view.sizes) = 1, NEW a \in Valid, Aligned(a, size),
                        NEW i \in 0..(size - 1)
                 PROVE  SpecRead(a, size)[i] = view.mem[a + i]
        BY DEF OwnStoresSeen
    <1>1. view.sizes \subseteq Sizes /\ size \in Sizes
        BY DEF PathInv, Shape
    <1>2. view.sizes = {size}
        <2>1. IsFiniteSet({1, 2, 4, 8})
            <3>1. {1, 2, 4, 8} \in SUBSET Nat /\ 8 \in Nat /\ \A x \in {1, 2, 4, 8} : x <= 8
                OBVIOUS
            <3> QED
                BY <3>1, FS_BoundedSetOfNaturals
        <2>2. IsFiniteSet(view.sizes)
            BY <1>1, <2>1, FS_Subset, SpecStateAssumption
        <2>3. \E x : view.sizes = {x}
            BY <2>2, FS_Singleton
        <2> QED
            BY <2>3
    <1>3. OneSize(size)
        BY <1>1, <1>2 DEF PathInv, StoresExact
    <1> DEFINE g == HASH_ADDR(a)
               c == store_htable[g]
    <1>4. g \in Heads /\ ChainOK(c, g) /\ c \in Seq(BucketSet)
        BY <1>1, HashIn, InMemory DEF PathInv, Shape, ChainOK
    <1>5. CASE Found(c, a) # {}
        <2>1. ToFront(c, a)[1] \in ToSet(c) /\ ToFront(c, a)[1].addr = a
            BY <1>4, <1>5, ToFrontKeeps
        <2>2. ToFront(c, a)[1].data[i] = view.mem[a + i]
            BY <1>3, <1>4, <2>1 DEF OneSize
        <2>3. SpecRead(a, size) = [k \in 0..(size - 1) |-> ToFront(c, a)[1].data[k]]
            BY <1>5 DEF SpecRead
        <2> QED
            BY <2>2, <2>3
    <1>6. CASE Found(c, a) = {}
        <2>1. ~Holds(a)
            BY <1>4, <1>6, FoundIs DEF Holds
        <2>2. view.mem[a + i] = mem[a + i]
            BY <1>3, <2>1 DEF OneSize
        <2>3. SpecRead(a, size) = [k \in 0..(size - 1) |-> mem[a + k]]
            BY <1>6 DEF SpecRead
        <2> QED
            BY <2>2, <2>3
    <1> QED
        BY <1>5, <1>6

\* A wrong path of a PISA program reads the registers it wrote and, storing with
\* one size, loads what it stored; recovery brings the architectural state back
\* and loses no bucket: for every memory, table size and number of writes.
THEOREM WrongPathRight ==
    ASSUME Usual
    PROVE  PathSpec => []WrongPathExact
    <1>1. PathInv /\ [PathNext]_pathVars => PathInv'
        BY NextPathInv
    <1>2. PathInv => WrongPathExact
        BY LoadsExact DEF PathInv, WrongPathExact
    <1> QED
        BY <1>1, <1>2, InitPathInv, PTL DEF PathSpec
=============================================================================
