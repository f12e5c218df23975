----------------------------- MODULE SpecState ------------------------------
(***************************************************************************)
(* The state sim-outorder's instructions see while a wrong path is traced: *)
(* registers with a speculative copy and a bit per copy, and memory under  *)
(* a hash table of speculative stores.  tracer_recover throws both away.   *)
(*                                                                         *)
(* The floating point registers of PISA are halves of pairs with one bit   *)
(* per pair.  view is what a wrong path should see, kept beside the code's *)
(* own state.                                                              *)
(***************************************************************************)
EXTENDS Integers, Sequences, SequencesExt, FiniteSets

CONSTANTS Target,          \* "pisa" or "alpha"
          bugcompat_mode,
          STORE_HASH_SIZE,
          Values, Sizes, Valid, MaxAddr, \* bytes, access sizes, MD_VALID_ADDR, last byte
          MaxWrites

\* spec_mem_access handles these sizes; an aligned access to a valid address is
\* inside memory.
ASSUME SpecStateAssumption ==
    /\ STORE_HASH_SIZE \in Nat \ {0} /\ MaxAddr \in Nat /\ Sizes \subseteq {1, 2, 4, 8} /\ Valid \subseteq 0..MaxAddr
    /\ \A a \in Valid, size \in Sizes : a % size = 0 => a + size - 1 <= MaxAddr

VARIABLES spec_mode, regs, spec_regs, use_spec, mem, store_htable, bucket_free, made, view, writes

pathVars == <<spec_mode, regs, spec_regs, use_spec, mem, store_htable, bucket_free, made, view, writes>>

\* Register files: integer, floating point halves, and the control registers.
Names == [bank : {"R"}, n : {0, 1}] \cup [bank : {"F"}, n : {0, 1}] \cup [bank : {"C"}, n : 0..2]
Zero == [bank |-> "R", n |-> 0]

\* Mutant: all control registers share a bit.
OneBit(r) == [r EXCEPT !.n = IF r.bank = "R" THEN @ ELSE 0]

\* The bit under which a register is read.
ReadBit(r) == IF r.bank = "F" /\ Target = "pisa" THEN [r EXCEPT !.n = @ - (@ % 2)] ELSE r
\* The bit a write sets: FCC of the Alpha sets the bit of UNIQ.
WriteBit(r) == IF r.bank = "C" /\ Target = "alpha" /\ r.n = 2 THEN [r EXCEPT !.n = 1] ELSE ReadBit(r)

Get(r) == IF ReadBit(r) \in use_spec THEN spec_regs[r] ELSE regs[r]

\* SET_GPR, SET_FPR_L/F/D, SET_HI, SET_LO, SET_FCC and their kin.
SetReg(r, v) ==
    /\ r # Zero
    /\ IF spec_mode
       THEN /\ spec_regs' = [spec_regs EXCEPT ![r] = v] /\ use_spec' = use_spec \cup {WriteBit(r)}
            /\ view' = [view EXCEPT !.regs[r] = v] /\ UNCHANGED regs
       ELSE /\ regs' = [regs EXCEPT ![r] = v]
            /\ view' = [view EXCEPT !.regs[r] = v] /\ UNCHANGED <<spec_regs, use_spec>>
    /\ UNCHANGED <<spec_mode, mem, store_htable, bucket_free, made>>
-----------------------------------------------------------------------------
HASH_ADDR(a) == a % STORE_HASH_SIZE
Aligned(a, size) == a % size = 0
Found(chain, a) == {i \in DOMAIN chain : chain[i].addr = a}

\* The entry of the address moves to the front of its chain.
ToFront(chain, a) ==
    IF Found(chain, a) = {} THEN chain
    ELSE LET i == CHOOSE j \in Found(chain, a) : TRUE IN <<chain[i]>> \o RemoveAt(chain, i)

\* Mutant: the entry at the head is taken for the one looked for.
AnyEntry(chain, a) == IF chain # <<>> THEN chain ELSE <<[addr |-> a, data |-> [i \in 0..7 |-> 0]]>>

\* An entry for a store: the one there is, or a zeroed one at the front.
Entry(chain, a) ==
    IF Found(chain, a) # {} THEN ToFront(chain, a)
    ELSE <<[addr |-> a, data |-> [i \in 0..7 |-> 0]]>> \o chain

Put(data, v, size) == [i \in 0..7 |-> IF i < size THEN v ELSE data[i]]

\* spec_mem_access, Write: every byte stored is v.
SpecWrite(a, size, v) ==
    LET h == HASH_ADDR(a)
        old == Found(store_htable[h], a)
        chain == Entry(store_htable[h], a)
    IN  IF ~Aligned(a, size) \/ a \notin Valid THEN UNCHANGED <<store_htable, bucket_free, made>>
        ELSE /\ store_htable' = IF bugcompat_mode /\ old = {} THEN store_htable
                                ELSE [store_htable EXCEPT ![h] = [chain EXCEPT ![1].data = Put(@, v, size)]]
             /\ bucket_free' = IF old # {} \/ bucket_free = 0 THEN bucket_free ELSE bucket_free - 1
             /\ made' = IF old # {} \/ bucket_free > 0 THEN made ELSE made + 1

\* spec_mem_access, Read: the value read, and the chain that is relinked.
SpecRead(a, size) ==
    LET chain == store_htable[HASH_ADDR(a)]
    IN  IF ~Aligned(a, size) \/ a \notin Valid THEN [i \in 0..(size - 1) |-> 0]
        ELSE IF Found(chain, a) # {} THEN [i \in 0..(size - 1) |-> ToFront(chain, a)[1].data[i]]
        ELSE [i \in 0..(size - 1) |-> mem[a + i]]

Stored(m, a, size, v) == [b \in DOMAIN m |-> IF b \in a..(a + size - 1) THEN v ELSE m[b]]

\* __WRITE_SPECMEM; only a wrong path may use an address that is not sane.
Write(a, size, v) ==
    /\ spec_mode \/ (a \in Valid /\ Aligned(a, size))
    /\ IF spec_mode THEN SpecWrite(a, size, v) /\ UNCHANGED mem
       ELSE mem' = Stored(mem, a, size, v) /\ UNCHANGED <<store_htable, bucket_free, made>>
    /\ view' = IF a \notin Valid \/ ~Aligned(a, size) THEN view
               ELSE [view EXCEPT !.mem = Stored(@, a, size, v), !.sizes = IF spec_mode THEN @ \cup {size} ELSE @]
    /\ UNCHANGED <<spec_mode, regs, spec_regs, use_spec>>

\* __READ_SPECMEM of a wrong path, for what it does to the chains.
Read(a) ==
    /\ spec_mode /\ a \in Valid
    /\ store_htable' = [store_htable EXCEPT ![HASH_ADDR(a)] = ToFront(@, a)]
    /\ UNCHANGED <<spec_mode, regs, spec_regs, use_spec, mem, bucket_free, made, view>>

\* ruu_dispatch enters a wrong path.
EnterSpec ==
    /\ ~spec_mode /\ spec_mode' = TRUE
    /\ UNCHANGED <<regs, spec_regs, use_spec, mem, store_htable, bucket_free, made, view>>

\* The buckets of a table, by chain and position.
Slots(table) == UNION {{h} \X DOMAIN table[h] : h \in DOMAIN table}

\* Mutant: one bucket of a chain is given back.
ReleasedHeads == Cardinality({h \in DOMAIN store_htable : store_htable[h] # <<>>})
Released == Cardinality(Slots(store_htable))

tracer_recover ==
    /\ spec_mode /\ spec_mode' = FALSE
    /\ use_spec' = {}
    /\ store_htable' = [h \in DOMAIN store_htable |-> <<>>]
    /\ bucket_free' = bucket_free + Released
    /\ view' = [regs |-> regs, mem |-> mem, sizes |-> {}]
    /\ UNCHANGED <<regs, spec_regs, mem, made>>

PathInit == \* tracer_init
    /\ spec_mode = FALSE /\ use_spec = {}
    /\ regs = [r \in Names |-> 0] /\ spec_regs = [r \in Names |-> 0] /\ mem = [a \in 0..MaxAddr |-> 0]
    /\ store_htable = [h \in 0..(STORE_HASH_SIZE - 1) |-> <<>>] /\ bucket_free = 0 /\ made = 0
    /\ view = [regs |-> regs, mem |-> mem, sizes |-> {}]
    /\ writes = 0

PathStep ==
    \/ \E r \in Names, v \in Values : SetReg(r, v)
    \/ \E a \in 0..MaxAddr, size \in Sizes, v \in Values : Write(a, size, v)
    \/ \E a \in 0..MaxAddr : Read(a)
    \/ EnterSpec \/ tracer_recover

PathNext == writes < MaxWrites /\ writes' = writes + 1 /\ PathStep
PathSpec == PathInit /\ [][PathNext]_pathVars
-----------------------------------------------------------------------------
\* A wrong path reads back the integer and control registers it wrote, and the
\* architectural value of the others; after recovery all are architectural.
RegistersExact == \A r \in Names : r.bank # "F" => Get(r) = view.regs[r]

\* While a wrong path stores with one size only, a load of that size sees the
\* last store, or memory; other sizes are not combined (spec_mem_access says so).
OwnStoresSeen ==
    \A size \in view.sizes : Cardinality(view.sizes) = 1 =>
      \A a \in Valid : Aligned(a, size) => \A i \in 0..(size - 1) : SpecRead(a, size)[i] = view.mem[a + i]

\* Every bucket is in the table or free, over any number of wrong paths.
BucketsConserved == made = bucket_free + Cardinality(Slots(store_htable))

\* A wrong path reads the integer and control registers it wrote and, storing
\* with one size, loads what it stored; recovery brings the architectural state
\* back, with every bucket of the store table in it or free.
WrongPathExact == RegistersExact /\ OwnStoresSeen /\ BucketsConserved
=============================================================================
