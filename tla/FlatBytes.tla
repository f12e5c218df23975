----------------------------- MODULE FlatBytes ------------------------------
(***************************************************************************)
(* What memory.c promises its callers: an array of bytes, all zero at      *)
(* first.  A call is asked for with its address, its length and its data,  *)
(* and then served: a read returns the bytes of its run, a write leaves    *)
(* its data there and every other byte alone, and a call that is refused   *)
(* changes nothing.                                                        *)
(***************************************************************************)
EXTENDS Integers, Sequences

CONSTANTS
    AddrSpace,      \* addresses are taken modulo this
    PageSize,       \* the largest access
    WordSize        \* bytes of a word

VARIABLES
    bytes,          \* the contents
    call,           \* the call asked for: [fn, addr, len, data]
    reply           \* the bytes the last call returned, or <<-1>> for a fault

flatVars == <<bytes, call, reply>>

Addr == 0..(AddrSpace - 1)
Idle == [fn |-> "none", addr |-> 0, len |-> 0, data |-> <<>>]

\* The i-th byte of the run of the call.
Place(i) == (call.addr + i - 1) % AddrSpace

\* Accesses come in powers of two, none larger than a page, at multiples of
\* their size.  Zero passes for a power of two, and its one multiple is zero.
Fits(n) ==
    /\ n = 0 \/ \E i \in 0..PageSize : n = 2^i
    /\ n <= PageSize
    /\ \E k \in 0..call.addr : call.addr = k * n

Get(n) == reply' = [i \in 1..n |-> bytes[Place(i)]] /\ UNCHANGED bytes

Put(data) ==
    /\ reply' = <<>>
    /\ bytes' = [x \in Addr |-> LET i == 1 + ((x - call.addr) % AddrSpace)
                                IN  IF i <= Len(data) THEN data[i] ELSE bytes[x]]

Refuse == reply' = <<-1>> /\ UNCHANGED bytes
-----------------------------------------------------------------------------
Whole(n) == (n \div WordSize) * WordSize

Access ==
    \/ call.fn = "access_read" /\ IF Fits(call.len) THEN Get(call.len) ELSE Refuse
    \/ call.fn = "access_write" /\ IF Fits(call.len) THEN Put(call.data) ELSE Refuse

Copy ==
    \/ call.fn = "bcopy_read" /\ Get(call.len)
    \/ call.fn = "bcopy_write" /\ Put(call.data)
    \/ call.fn = "bzero" /\ Put([i \in 1..call.len |-> 0])

\* Whole words only.
Words ==
    LET n == Whole(call.len)
        refused == n > 0 /\ ~Fits(WordSize)
    IN  \/ call.fn = "bcopy4_read" /\ IF refused THEN Refuse ELSE Get(n)
        \/ call.fn = "bcopy4_write" /\ IF refused THEN Refuse ELSE Put(SubSeq(call.data, 1, n))

\* Up to the first zero, which is the last byte copied.
String ==
    \/ /\ call.fn = "strcpy_read" /\ Len(reply') > 0 /\ Get(Len(reply'))
       /\ \A i \in 1..Len(reply') : (bytes[Place(i)] = 0) = (i = Len(reply'))
    \/ call.fn = "strcpy_write" /\ Put(call.data)

\* Addresses, and with each of them what is there.
Dump ==
    /\ call.fn = "dump"
    /\ \/ ~Fits(WordSize) /\ Refuse
       \/ /\ UNCHANGED bytes
          /\ \A i \in 1..Len(reply') : reply'[i][1] \in Addr /\ reply'[i][2] = bytes[reply'[i][1]]
-----------------------------------------------------------------------------
Init == bytes = [x \in Addr |-> 0] /\ call = Idle /\ reply = <<>>

Ask == call = Idle /\ reply = <<>> /\ UNCHANGED <<bytes, reply>>
Serve == (Access \/ Copy \/ Words \/ String \/ Dump) /\ call' = Idle

Take == reply # <<>> /\ reply' = <<>> /\ UNCHANGED <<bytes, call>>

Next == Ask \/ Serve \/ Take

Spec == Init /\ [][Next]_flatVars
=============================================================================
