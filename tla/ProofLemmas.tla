----------------------------- MODULE ProofLemmas ----------------------------
(***************************************************************************)
(* Facts about numbers and sequences that several proofs need: induction   *)
(* over a set of numbers, division, the sequences left when an element is  *)
(* put into one, taken from it or moved to its front, and the places of a  *)
(* hash table, a function whose values are chains.                         *)
(***************************************************************************)
EXTENDS Integers, Sequences, SequencesExt, SequenceTheorems, NaturalsInduction, WellFoundedInduction,
        FiniteSetTheorems, TLAPS

\* The order of the numbers as a relation.
LEMMA LessRel ==
    ASSUME NEW x \in Nat, NEW y \in Nat
    PROVE  <<x, y>> \in OpToRel(<, Nat) <=> x < y
    <1>1. <<x, y>> \in {ss \in Nat \X Nat : ss[1] < ss[2]} <=> x < y
        BY SMT
    <1> QED
        BY <1>1, Zenon DEF OpToRel

\* A set of numbers has a least one.
LEMMA Least ==
    ASSUME NEW S, S \subseteq Nat, S # {}
    PROVE  \E n \in S : \A m \in S : n <= m
    <1>1. PICK x \in S : \A y \in S : ~ (<<y, x>> \in OpToRel(<, Nat))
        BY NatLessThanWellFounded, WFMin, Zenon
    <1>2. ASSUME NEW y \in S PROVE ~(y < x)
        <2>1. x \in Nat /\ y \in Nat
            OBVIOUS
        <2> QED
            BY <1>1, <2>1, LessRel, Zenon
    <1> QED
        BY <1>2

\* Induction, for a property given as the set of the numbers that have it.
LEMMA SetInduction ==
    ASSUME NEW S, 0 \in S, \A n \in Nat : n \in S => n + 1 \in S
    PROVE  \A n \in Nat : n \in S
    <1> SUFFICES ASSUME NEW k \in Nat, k \notin S PROVE FALSE
        OBVIOUS
    <1> DEFINE T == {n \in Nat : n \notin S}
    <1>1. PICK n \in T : \A m \in T : n <= m
        <2> T \subseteq Nat /\ T # {}
            OBVIOUS
        <2> HIDE DEF T
        <2> QED
            BY Least
    <1>2. n # 0 /\ n \in Nat
        OBVIOUS
    <1>3. n - 1 \in Nat /\ n - 1 \notin T
        BY <1>1, <1>2
    <1> QED
        BY <1>1, <1>2, <1>3

\* Quotient and remainder.
LEMMA Divided ==
    ASSUME NEW n \in Int, n > 0, NEW x \in Int, x >= 0
    PROVE  x = n * (x \div n) + (x % n) /\ x \div n \in Nat /\ x % n \in 0..(n - 1)
    <1>1. x = n * (x \div n) + (x % n)
        OBVIOUS
    <1>2. x % n \in 0..(n - 1)
        OBVIOUS
    <1>3. x \div n \in Nat
        OBVIOUS
    <1> QED
        BY <1>1, <1>2, <1>3

\* The quotient is unique.
LEMMA Division ==
    ASSUME NEW n \in Nat \ {0}, NEW q \in Nat, NEW r \in 0..(n - 1), NEW x \in Nat, x = n * q + r
    PROVE  x \div n = q
    <1> DEFINE d == x \div n
               e == x % n
    <1>1. x = n * d + e /\ d \in Nat /\ e \in 0..(n - 1)
        BY Divided
    <1> HIDE DEF d, e
    <1>2. CASE d >= q + 1
        <2>1. n * d >= n * (q + 1) /\ n * (q + 1) = n * q + n /\ n * d \in Int /\ n * q \in Int
            BY <1>1, <1>2
        <2> QED
            BY <1>1, <2>1
    <1>3. CASE q >= d + 1
        <2>1. n * q >= n * (d + 1) /\ n * (d + 1) = n * d + n /\ n * d \in Int /\ n * q \in Int
            BY <1>1, <1>3
        <2> QED
            BY <1>1, <2>1
    <1> QED
        BY <1>1, <1>2, <1>3 DEF d

\* What InsertAt returns.
LEMMA InsertAtIs ==
    ASSUME NEW S, NEW q \in Seq(S), NEW e \in S, NEW p \in 1..(Len(q) + 1)
    PROVE  LET r == InsertAt(q, p, e)
           IN  /\ r \in Seq(S) /\ Len(r) = Len(q) + 1 /\ r[p] = e
               /\ \A i \in 1..(p - 1) : r[i] = q[i]
               /\ \A i \in p..Len(q) : r[i + 1] = q[i]
    <1> DEFINE n == Len(q)
               a == SubSeq(q, 1, p - 1)
               b == SubSeq(q, p, n)
               c == a \o <<e>>
    <1>1. n \in Nat
        OBVIOUS
    <1>2. a \in Seq(S) /\ Len(a) = p - 1 /\ \A i \in 1..(p - 1) : a[i] = q[i]
        BY <1>1
    <1>3. b \in Seq(S) /\ Len(b) = n - p + 1 /\ \A i \in 1..(n - p + 1) : b[i] = q[p + i - 1]
        BY <1>1
    <1>4. <<e>> \in Seq(S) /\ Len(<<e>>) = 1 /\ <<e>>[1] = e
        OBVIOUS
    <1> HIDE DEF a, b
    <1>5. c \in Seq(S) /\ Len(c) = p /\ c[p] = e /\ \A i \in 1..(p - 1) : c[i] = q[i]
        <2>1. /\ c \in Seq(S) /\ Len(c) = (p - 1) + 1
              /\ \A i \in 1..((p - 1) + 1) : c[i] = IF i <= p - 1 THEN a[i] ELSE <<e>>[i - (p - 1)]
            BY <1>2, <1>4, ConcatProperties
        <2> HIDE DEF c
        <2>0. (p - 1) + 1 = p
            BY <1>1
        <2>2. Len(c) = p /\ \A i \in 1..p : c[i] = IF i <= p - 1 THEN a[i] ELSE <<e>>[i - (p - 1)]
            BY <2>0, <2>1
        <2>3. c[p] = e
            BY <1>4, <2>2
        <2>4. \A i \in 1..(p - 1) : c[i] = q[i]
            BY <1>2, <2>2
        <2> QED
            BY <2>1, <2>2, <2>3, <2>4
    <1> HIDE DEF c
    <1>6. /\ c \o b \in Seq(S) /\ Len(c \o b) = p + (n - p + 1)
          /\ \A i \in 1..(p + (n - p + 1)) : (c \o b)[i] = IF i <= p THEN c[i] ELSE b[i - p]
        BY <1>3, <1>5, ConcatProperties
    <1> DEFINE r == c \o b
    <1>7. InsertAt(q, p, e) = r
        BY DEF InsertAt, a, b, c
    <1>8. r \in Seq(S) /\ Len(r) = n + 1 /\ r[p] = e /\ \A i \in 1..(p - 1) : r[i] = q[i]
        BY <1>1, <1>5, <1>6
    <1>9. ASSUME NEW i \in p..n PROVE r[i + 1] = q[i]
        <2>1. i + 1 \in 1..(p + (n - p + 1)) /\ ~(i + 1 <= p) /\ (i + 1) - p \in 1..(n - p + 1)
            BY <1>1
        <2>2. r[i + 1] = b[(i + 1) - p]
            BY <1>6, <2>1
        <2>3. b[(i + 1) - p] = q[p + ((i + 1) - p) - 1]
            BY <1>3, <2>1
        <2>4. p + ((i + 1) - p) - 1 = i
            BY <1>1
        <2> QED
            BY <2>2, <2>3, <2>4
    <1> QED
        BY <1>7, <1>8, <1>9

\* What RemoveAt returns.
LEMMA RemoveAtIs ==
    ASSUME NEW S, NEW q \in Seq(S), NEW p \in 1..Len(q)
    PROVE  LET r == RemoveAt(q, p)
           IN  /\ r \in Seq(S) /\ Len(r) = Len(q) - 1
               /\ \A i \in 1..(p - 1) : r[i] = q[i]
               /\ \A i \in p..(Len(q) - 1) : r[i] = q[i + 1]
    <1> DEFINE n == Len(q)
               a == SubSeq(q, 1, p - 1)
               b == SubSeq(q, p + 1, n)
    <1>1. n \in Nat
        OBVIOUS
    <1>2. a \in Seq(S) /\ Len(a) = p - 1 /\ \A i \in 1..(p - 1) : a[i] = q[i]
        BY <1>1
    <1>3. b \in Seq(S) /\ Len(b) = n - p /\ \A i \in 1..(n - p) : b[i] = q[p + i]
        BY <1>1
    <1> HIDE DEF a, b
    <1>4. /\ a \o b \in Seq(S) /\ Len(a \o b) = (p - 1) + (n - p)
          /\ \A i \in 1..((p - 1) + (n - p)) : (a \o b)[i] = IF i <= p - 1 THEN a[i] ELSE b[i - (p - 1)]
        <2>1. /\ a \o b \in Seq(S) /\ Len(a \o b) = Len(a) + Len(b)
              /\ \A i \in 1..(Len(a) + Len(b)) : (a \o b)[i] = IF i <= Len(a) THEN a[i] ELSE b[i - Len(a)]
            BY <1>2, <1>3, ConcatProperties, Zenon
        <2> QED
            BY <1>2, <1>3, <2>1, Zenon
    <1> DEFINE r == a \o b
    <1>5. RemoveAt(q, p) = r
        BY DEF RemoveAt, a, b
    <1>6. r \in Seq(S) /\ Len(r) = n - 1 /\ \A i \in 1..(p - 1) : r[i] = q[i]
        BY <1>1, <1>2, <1>4
    <1>7. ASSUME NEW i \in p..(n - 1) PROVE r[i] = q[i + 1]
        <2>1. i \in 1..((p - 1) + (n - p)) /\ ~(i <= p - 1) /\ i - (p - 1) \in 1..(n - p)
            BY <1>1
        <2>2. r[i] = b[i - (p - 1)] /\ b[i - (p - 1)] = q[p + (i - (p - 1))]
            BY <1>3, <1>4, <2>1
        <2>3. p + (i - (p - 1)) = i + 1
            BY <1>1
        <2> QED
            BY <2>2, <2>3
    <1> QED
        BY <1>5, <1>6, <1>7

-----------------------------------------------------------------------------
(* Lists without repetitions, as sets of their elements.                   *)

OneToOne(q) == \A i, j \in DOMAIN q : q[i] = q[j] => i = j

\* An element in front of a list.
LEMMA ConsIs ==
    ASSUME NEW S, NEW q \in Seq(S), NEW e \in S
    PROVE  LET r == <<e>> \o q
           IN  /\ r \in Seq(S) /\ Len(r) = Len(q) + 1 /\ r[1] = e /\ \A i \in 1..Len(q) : r[i + 1] = q[i]
               /\ ToSet(r) = {e} \cup ToSet(q)
               /\ OneToOne(q) /\ e \notin ToSet(q) => OneToOne(r)
    <1> DEFINE r == <<e>> \o q
               n == Len(q)
    <1>1. n \in Nat /\ <<e>> \in Seq(S) /\ Len(<<e>>) = 1 /\ <<e>>[1] = e
        OBVIOUS
    <1>2. r \in Seq(S) /\ Len(r) = 1 + n /\ \A i \in 1..(1 + n) : r[i] = IF i <= 1 THEN <<e>>[i] ELSE q[i - 1]
        BY <1>1, ConcatProperties
    <1> HIDE DEF r
    <1>3. r[1] = e /\ DOMAIN r = 1..(n + 1) /\ DOMAIN q = 1..n /\ Len(r) = n + 1
        BY <1>1, <1>2
    <1>4. ASSUME NEW i \in 1..n PROVE r[i + 1] = q[i]
        <2>1. i + 1 \in 1..(1 + n) /\ ~(i + 1 <= 1) /\ (i + 1) - 1 = i
            BY <1>1
        <2> QED
            BY <1>2, <2>1
    <1>5. ASSUME NEW i \in 1..(n + 1), i # 1 PROVE i - 1 \in 1..n /\ r[i] = q[i - 1]
        BY <1>1, <1>2, <1>5
    <1>6. \A i \in 1..n : i + 1 \in 1..(n + 1)
        BY <1>1
    <1>7. ToSet(r) = {e} \cup ToSet(q)
        <2>1. \A x : x \in ToSet(r) <=> \E i \in 1..(n + 1) : x = r[i]
            BY <1>3 DEF ToSet
        <2>2. \A x : x \in ToSet(q) <=> \E i \in 1..n : x = q[i]
            BY <1>3 DEF ToSet
        <2>3. e \in ToSet(r)
            BY <1>1, <1>3, <2>1
        <2>4. \A i \in 1..n : q[i] \in ToSet(r)
            BY <1>4, <1>6, <2>1
        <2>5. \A i \in 1..(n + 1) : r[i] \in {e} \cup ToSet(q)
            BY <1>3, <1>5, <2>2
        <2> QED
            BY <2>1, <2>2, <2>3, <2>4, <2>5
    <1>8. ASSUME OneToOne(q), e \notin ToSet(q) PROVE OneToOne(r)
        <2> SUFFICES ASSUME NEW i \in 1..(n + 1), NEW j \in 1..(n + 1), r[i] = r[j] PROVE i = j
            BY <1>3 DEF OneToOne
        <2>1. \A k \in 1..n : q[k] # e
            BY <1>3, <1>8 DEF ToSet
        <2>2. CASE i = 1 \/ j = 1
            BY <1>3, <1>5, <2>1, <2>2
        <2>3. CASE i # 1 /\ j # 1
            <3>1. i - 1 = j - 1
                BY <1>3, <1>5, <1>8, <2>3 DEF OneToOne
            <3> QED
                BY <1>1, <3>1
        <2> QED
            BY <2>2, <2>3
    <1> QED
        BY <1>2, <1>3, <1>4, <1>7, <1>8 DEF r

\* A list without one of its elements.
LEMMA RemoveSet ==
    ASSUME NEW S, NEW q \in Seq(S), OneToOne(q), NEW p \in 1..Len(q)
    PROVE  OneToOne(RemoveAt(q, p)) /\ ToSet(RemoveAt(q, p)) = ToSet(q) \ {q[p]}
    <1> DEFINE r == RemoveAt(q, p)
               n == Len(q)
               old(i) == IF i < p THEN i ELSE i + 1
    <1>1. /\ r \in Seq(S) /\ Len(r) = n - 1
          /\ \A i \in 1..(p - 1) : r[i] = q[i]
          /\ \A i \in p..(n - 1) : r[i] = q[i + 1]
        BY RemoveAtIs
    <1>2. n \in Nat \ {0} /\ DOMAIN q = 1..n /\ DOMAIN r = 1..(n - 1) /\ p \in 1..n
        BY <1>1
    <1> HIDE DEF r, n
    <1>3. \A i \in 1..(n - 1) : old(i) \in 1..n /\ old(i) # p /\ r[i] = q[old(i)]
        BY <1>1, <1>2
    <1>4. \A i, j \in 1..(n - 1) : old(i) = old(j) => i = j
        BY <1>1, <1>2
    <1>5. \A i \in 1..n : i # p => \E j \in 1..(n - 1) : old(j) = i
        <2> TAKE i \in 1..n
        <2> HAVE i # p
        <2> DEFINE j == IF i < p THEN i ELSE i - 1
        <2>1. j \in 1..(n - 1) /\ old(j) = i
            BY <1>2
        <2> QED
            BY <2>1
    <1> HIDE DEF old
    <1>6. OneToOne(r)
        BY <1>2, <1>3, <1>4 DEF OneToOne
    <1>7. ToSet(r) = ToSet(q) \ {q[p]}
        <2>1. \A x : x \in ToSet(r) <=> \E i \in 1..(n - 1) : x = r[i]
            BY <1>2 DEF ToSet
        <2>2. \A x : x \in ToSet(q) <=> \E i \in 1..n : x = q[i]
            BY <1>2 DEF ToSet
        <2>3. ASSUME NEW i \in 1..n, i # p PROVE q[i] \in ToSet(r)
            <3>1. PICK j \in 1..(n - 1) : old(j) = i
                BY <1>5, <2>3
            <3> QED
                BY <1>3, <2>1, <3>1
        <2>4. ASSUME NEW i \in 1..(n - 1) PROVE r[i] \in ToSet(q) /\ r[i] # q[p]
            <3>1. old(i) \in 1..n /\ old(i) # p /\ r[i] = q[old(i)]
                BY <1>3
            <3>2. q[old(i)] # q[p]
                BY <1>2, <3>1 DEF OneToOne
            <3> QED
                BY <2>2, <3>1, <3>2
        <2> QED
            BY <2>1, <2>2, <2>3, <2>4
    <1> QED
        BY <1>6, <1>7 DEF r

\* A list whose first element is replaced.
LEMMA ReplaceHead ==
    ASSUME NEW S, NEW q \in Seq(S), q # <<>>, OneToOne(q), NEW e \in S, e \notin ToSet(q) \ {q[1]}
    PROVE  LET r == [q EXCEPT ![1] = e]
           IN  /\ r \in Seq(S) /\ Len(r) = Len(q) /\ r[1] = e /\ OneToOne(r)
               /\ ToSet(r) = {e} \cup (ToSet(q) \ {q[1]})
    <1> DEFINE r == [q EXCEPT ![1] = e]
               n == Len(q)
    <1>1. n \in Nat \ {0} /\ DOMAIN q = 1..n
        OBVIOUS
    <1>2. r \in Seq(S) /\ Len(r) = n /\ DOMAIN r = 1..n /\ r[1] = e /\ \A i \in 1..n : i # 1 => r[i] = q[i]
        BY <1>1
    <1> HIDE DEF r, n
    <1>3. \A i \in 1..n : i # 1 => q[i] \in ToSet(q) /\ q[i] # q[1] /\ q[i] # e
        BY <1>1 DEF ToSet, OneToOne
    <1>4. OneToOne(r)
        BY <1>1, <1>2, <1>3 DEF OneToOne
    <1>5. ToSet(r) = {e} \cup (ToSet(q) \ {q[1]})
        <2>1. \A x : x \in ToSet(r) <=> \E i \in 1..n : x = r[i]
            BY <1>2 DEF ToSet
        <2>2. \A x : x \in ToSet(q) <=> \E i \in 1..n : x = q[i]
            BY <1>1 DEF ToSet
        <2> QED
            BY <1>1, <1>2, <1>3, <2>1, <2>2
    <1> QED
        BY <1>2, <1>4, <1>5 DEF r, n

\* An element moved to the front of a list.
LEMMA FrontIs ==
    ASSUME NEW S, NEW q \in Seq(S), OneToOne(q), NEW p \in 1..Len(q)
    PROVE  LET r == <<q[p]>> \o RemoveAt(q, p)
           IN  r \in Seq(S) /\ Len(r) = Len(q) /\ r[1] = q[p] /\ OneToOne(r) /\ ToSet(r) = ToSet(q) /\ r # <<>>
    <1> DEFINE t == RemoveAt(q, p)
               r == <<q[p]>> \o t
    <1>1. t \in Seq(S) /\ Len(t) = Len(q) - 1
        BY RemoveAtIs
    <1>2. OneToOne(t) /\ ToSet(t) = ToSet(q) \ {q[p]}
        BY RemoveSet
    <1>3. q[p] \in S /\ q[p] \in ToSet(q) /\ Len(q) \in Nat
        BY DEF ToSet
    <1> HIDE DEF t
    <1>4. r \in Seq(S) /\ Len(r) = Len(t) + 1 /\ r[1] = q[p] /\ ToSet(r) = {q[p]} \cup ToSet(t) /\ OneToOne(r)
        BY <1>1, <1>2, <1>3, ConsIs
    <1> HIDE DEF r
    <1>5. ToSet(r) = ToSet(q) /\ Len(r) = Len(q) /\ r # <<>>
        BY <1>1, <1>2, <1>3, <1>4
    <1> QED
        BY <1>4, <1>5 DEF r, t
-----------------------------------------------------------------------------
(* Hash tables: a function from buckets to chains.                         *)

\* What is where when an element has moved to the front, or to the end.
LEMMA FrontAt ==
    ASSUME NEW S, NEW q \in Seq(S), NEW p \in 1..Len(q)
    PROVE  LET r == <<q[p]>> \o RemoveAt(q, p)
           IN  /\ r[1] = q[p]
               /\ \A j \in 1..(p - 1) : r[j + 1] = q[j]
               /\ \A j \in (p + 1)..Len(q) : r[j] = q[j]
    <1> DEFINE t == RemoveAt(q, p)
               r == <<q[p]>> \o t
    <1>1. /\ t \in Seq(S) /\ Len(t) = Len(q) - 1
          /\ \A i \in 1..(p - 1) : t[i] = q[i]
          /\ \A i \in p..(Len(q) - 1) : t[i] = q[i + 1]
        BY RemoveAtIs
    <1>2. q[p] \in S /\ Len(q) \in Nat
        OBVIOUS
    <1> HIDE DEF t
    <1>3. r[1] = q[p] /\ \A i \in 1..Len(t) : r[i + 1] = t[i]
        BY <1>1, <1>2, ConsIs
    <1> HIDE DEF r
    <1>4. ASSUME NEW j \in 1..(p - 1) PROVE r[j + 1] = q[j]
        BY <1>1, <1>2, <1>3
    <1>5. ASSUME NEW j \in (p + 1)..Len(q) PROVE r[j] = q[j]
        <2>1. j - 1 \in p..(Len(q) - 1) /\ j - 1 \in 1..Len(t) /\ (j - 1) + 1 = j
            BY <1>1, <1>2
        <2> QED
            BY <1>1, <1>3, <2>1
    <1> QED
        BY <1>3, <1>4, <1>5 DEF r, t

LEMMA TailIs ==
    ASSUME NEW S, NEW q \in Seq(S), OneToOne(q), NEW p \in 1..Len(q)
    PROVE  LET r == Append(RemoveAt(q, p), q[p])
           IN  /\ r \in Seq(S) /\ Len(r) = Len(q) /\ OneToOne(r) /\ ToSet(r) = ToSet(q)
               /\ r[Len(q)] = q[p]
               /\ \A j \in 1..(p - 1) : r[j] = q[j]
               /\ \A j \in p..(Len(q) - 1) : r[j] = q[j + 1]
    <1> DEFINE t == RemoveAt(q, p)
               r == Append(t, q[p])
               n == Len(q)
    <1>1. /\ t \in Seq(S) /\ Len(t) = n - 1
          /\ \A i \in 1..(p - 1) : t[i] = q[i]
          /\ \A i \in p..(n - 1) : t[i] = q[i + 1]
        BY RemoveAtIs
    <1>2. OneToOne(t) /\ ToSet(t) = ToSet(q) \ {q[p]}
        BY RemoveSet
    <1>3. q[p] \in S /\ n \in Nat /\ p \in 1..n /\ q[p] \in ToSet(q)
        BY DEF ToSet
    <1> HIDE DEF t, n
    <1>4. r \in Seq(S) /\ Len(r) = n /\ r[n] = q[p] /\ \A i \in 1..(n - 1) : r[i] = t[i]
        BY <1>1, <1>3
    <1> HIDE DEF r
    <1>5. OneToOne(r)
        <2> SUFFICES ASSUME NEW i \in 1..n, NEW j \in 1..n, r[i] = r[j] PROVE i = j
            BY <1>4 DEF OneToOne
        <2>1. ASSUME NEW k \in 1..(n - 1) PROVE r[k] # q[p] /\ k \in DOMAIN t
            <3>1. k \in DOMAIN t
                BY <1>1, <1>3
            <3>2. t[k] \in ToSet(t)
                BY <3>1 DEF ToSet
            <3> QED
                BY <1>2, <1>4, <3>1, <3>2
        <2>2. CASE i = n /\ j # n
            BY <1>3, <1>4, <2>1, <2>2
        <2>3. CASE j = n /\ i # n
            BY <1>3, <1>4, <2>1, <2>3
        <2>4. CASE i # n /\ j # n
            <3>1. i \in 1..(n - 1) /\ j \in 1..(n - 1)
                BY <1>3, <2>4
            <3>2. t[i] = t[j] /\ i \in DOMAIN t /\ j \in DOMAIN t
                BY <1>4, <2>1, <3>1
            <3> QED
                BY <1>2, <3>2 DEF OneToOne
        <2> QED
            BY <2>2, <2>3, <2>4
    <1>6. ToSet(r) = ToSet(q)
        <2>1. ToSet(r) = ToSet(t) \cup {q[p]}
            <3>1. ASSUME NEW z \in ToSet(r) PROVE z \in ToSet(t) \cup {q[p]}
                <4>1. PICK i \in 1..n : z = r[i]
                    BY <1>4 DEF ToSet
                <4>2. i = n \/ i \in 1..(n - 1)
                    BY <1>3
                <4>3. i \in 1..(n - 1) => i \in DOMAIN t
                    BY <1>1, <1>3
                <4> QED
                    BY <1>4, <4>1, <4>2, <4>3 DEF ToSet
            <3>2. ASSUME NEW z \in ToSet(t) \cup {q[p]} PROVE z \in ToSet(r)
                <4>1. CASE z = q[p]
                    <5>1. n \in DOMAIN r
                        BY <1>3, <1>4
                    <5> QED
                        BY <1>4, <4>1, <5>1 DEF ToSet
                <4>2. CASE z \in ToSet(t)
                    <5>1. PICK i \in DOMAIN t : z = t[i]
                        BY <4>2 DEF ToSet
                    <5>2. i \in 1..(n - 1) /\ i \in DOMAIN r
                        BY <1>1, <1>3, <1>4, <5>1
                    <5> QED
                        BY <1>4, <5>1, <5>2 DEF ToSet
                <4> QED
                    BY <3>2, <4>1, <4>2
            <3> QED
                BY <3>1, <3>2
        <2> QED
            BY <1>2, <1>3, <2>1
    <1>7. ASSUME NEW j \in 1..(p - 1) PROVE r[j] = q[j]
        BY <1>1, <1>3, <1>4
    <1>8. ASSUME NEW j \in p..(n - 1) PROVE r[j] = q[j + 1]
        BY <1>1, <1>3, <1>4
    <1> QED
        BY <1>4, <1>5, <1>6, <1>7, <1>8 DEF r, t, n

\* The entries of a table, by bucket and position.
Places(t) == UNION {{h} \X DOMAIN t[h] : h \in DOMAIN t}

LEMMA PlaceIn ==
    ASSUME NEW t, NEW h, NEW i
    PROVE  <<h, i>> \in Places(t) <=> h \in DOMAIN t /\ i \in DOMAIN t[h]
    BY DEF Places

LEMMA PlacesArePairs ==
    ASSUME NEW t, NEW z \in Places(t)
    PROVE  \E h \in DOMAIN t : \E i \in DOMAIN t[h] : z = <<h, i>>
    BY DEF Places

\* Chains of the same length have the same places.
LEMMA PlacesSame ==
    ASSUME NEW t, NEW u, DOMAIN u = DOMAIN t, \A h \in DOMAIN t : DOMAIN u[h] = DOMAIN t[h]
    PROVE  Places(u) = Places(t)
    BY DEF Places

\* A chain with one more entry has one more place.
LEMMA PlacesGrow ==
    ASSUME NEW S, NEW t, NEW u, DOMAIN u = DOMAIN t, NEW h \in DOMAIN t,
           t[h] \in Seq(S), u[h] \in Seq(S), Len(u[h]) = Len(t[h]) + 1,
           \A g \in DOMAIN t : g # h => u[g] = t[g]
    PROVE  Places(u) = Places(t) \cup {<<h, Len(u[h])>>} /\ <<h, Len(u[h])>> \notin Places(t)
    <1> DEFINE n == Len(t[h])
    <1>1. n \in Nat /\ DOMAIN t[h] = 1..n /\ DOMAIN u[h] = 1..(n + 1) /\ Len(u[h]) = n + 1
        OBVIOUS
    <1> HIDE DEF n
    <1>2. 1..(n + 1) = 1..n \cup {n + 1} /\ n + 1 \notin 1..n
        BY <1>1
    <1>3. <<h, n + 1>> \notin Places(t) /\ <<h, n + 1>> \in Places(u)
        BY <1>1, <1>2, PlaceIn
    <1>4. ASSUME NEW z \in Places(u) PROVE z \in Places(t) \cup {<<h, n + 1>>}
        <2>1. PICK g \in DOMAIN u : \E i \in DOMAIN u[g] : z = <<g, i>>
            BY PlacesArePairs
        <2>2. PICK i \in DOMAIN u[g] : z = <<g, i>>
            BY <2>1
        <2>3. CASE g = h
            BY <1>1, <1>2, <2>2, <2>3, PlaceIn
        <2>4. CASE g # h
            BY <2>2, <2>4, PlaceIn
        <2> QED
            BY <2>3, <2>4
    <1>5. ASSUME NEW z \in Places(t) PROVE z \in Places(u)
        <2>1. PICK g \in DOMAIN t : \E i \in DOMAIN t[g] : z = <<g, i>>
            BY PlacesArePairs
        <2>2. PICK i \in DOMAIN t[g] : z = <<g, i>>
            BY <2>1
        <2>3. i \in DOMAIN u[g]
            BY <1>1, <1>2
        <2> QED
            BY <2>2, <2>3, PlaceIn
    <1> QED
        BY <1>1, <1>3, <1>4, <1>5

LEMMA PlacesEmpty ==
    ASSUME NEW t, \A h \in DOMAIN t : t[h] = <<>>
    PROVE  Places(t) = {} /\ IsFiniteSet(Places(t)) /\ Cardinality(Places(t)) = 0
    <1>1. \A h \in DOMAIN t : DOMAIN t[h] = {}
        OBVIOUS
    <1>2. Places(t) = {}
        BY <1>1, PlacesArePairs
    <1> QED
        BY <1>2, FS_EmptySet
=============================================================================
