------------------------------ MODULE NewInsts ------------------------------
(***************************************************************************)
(* addOK and bitCount, the two instructions Project1/part1 adds to the     *)
(* machine definition, executed by sim-fast on any registers in any order, *)
(* sources and destination possibly the same register.                     *)
(***************************************************************************)
EXTENDS Pisa

CONSTANTS
    Sources,            \* the registers the instructions name
    Inputs              \* the words they may hold at first

VARIABLES
    R,                  \* regs.regs_R
    done                \* the last instruction with the operands it read

vars == <<R, done>>

WordBits == 2 * ImmBits
Words == (-(WordMod \div 2))..MAXINT_VAL

\* Mutant: the overflow of two negative numbers is not looked for.
ADDOK_HALF(x, y) == IF x > 0 /\ y > 0 /\ MAXINT_VAL - x < y THEN 0 ELSE 1

ADDOK_IMPL(x, y) == IF OVER(x, y) THEN 0 ELSE 1

\* Mutant: the loop leaves out the sign bit.
BITCOUNT_SHORT(n, uimm) == Cardinality({i \in 0..(WordBits - 2) : (n \div 2^i) % 2 = uimm})

\* The loop counts the i for which !(n>>i&1^UIMM); n is signed and the shift
\* keeps its sign, as \div does.
BITCOUNT_IMPL(n, uimm) == Cardinality({i \in 0..(WordBits - 1) : (n \div 2^i) % 2 = uimm})

Init == R \in [Sources -> Inputs \cap Words] /\ done = [op |-> "NOP", x |-> 0, y |-> 0, val |-> 0]

addOK(rd, rs, rt) ==
    LET val == ADDOK_IMPL(R[rs], R[rt])
    IN  /\ R' = [R EXCEPT ![rd] = val]
        /\ done' = [op |-> "ADDOK", x |-> R[rs], y |-> R[rt], val |-> val]

bitCount(rt, rs, uimm) ==
    LET val == BITCOUNT_IMPL(R[rs], uimm)
    IN  /\ R' = [R EXCEPT ![rt] = val]
        /\ done' = [op |-> "BITCOUNT", x |-> R[rs], y |-> uimm, val |-> val]

Next == \E a, b, c \in Sources : addOK(a, b, c) \/ \E u \in 0..2 : bitCount(a, b, u)

Spec == Init /\ [][Next]_vars
-----------------------------------------------------------------------------
\* A sum that addOK allows is the sum that ADDU computes: it does not wrap.
AddOKSafe == done.op = "ADDOK" /\ done.val = 1 => Wrap(done.x + done.y) = done.x + done.y

\* Bit by bit from the low end of the unsigned word.
PopCount[u \in 0..(WordMod - 1)] == IF u = 0 THEN 0 ELSE (u % 2) + PopCount[u \div 2]

\* bitCount counts the ones of the word for 1 and its zeros for 0, sign bit
\* included; no bit equals a larger immediate.
BitCountExact ==
    done.op = "BITCOUNT" =>
        done.val = CASE done.y = 1 -> PopCount[Unsigned(done.x)]
                     [] done.y = 0 -> WordBits - PopCount[Unsigned(done.x)]
                     [] OTHER -> 0
=============================================================================
