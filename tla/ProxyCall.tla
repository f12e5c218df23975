----------------------------- MODULE ProxyCall -----------------------------
(***************************************************************************)
(* What the two system call proxies (target-pisa/syscall.c and             *)
(* target-alpha/syscall.c) have in common: target memory as far as a call  *)
(* may write it, the outcomes of a host call, and the heap.                *)
(*                                                                         *)
(* A byte of target memory is "own" when it still holds what the program   *)
(* had there before the call, "host" when it holds what the host answered, *)
(* "junk" when it holds bytes nobody produced (an uninitialised structure, *)
(* the tail of a buffer).                                                  *)
(***************************************************************************)
EXTENDS Integers

\* Target addresses; address 0 is NULL.  A program passes buffers from Buf
\* up; Buf2 is a second, disjoint buffer.
Top  == 15
Buf  == 4
Buf2 == 10

Untouched == [a \in 0..Top |-> "own"]

\* mem_bcopy(mem_fn, mem, Write, a, vp, n): n bytes, none for n <= 0.
mem_bcopy(m, a, n, what) ==
  [i \in 0..Top |-> IF i \in a..(a + n - 1) THEN what ELSE m[i]]

Span(a, n) == {i \in 0..Top : i \in a..(a + n - 1)}

\* The outcomes of a host call: a result of oks, or, where fails, -1 with
\* one of errnos in errno.
Outcomes(oks, fails, errnos) ==
  {[rc |-> v, errno |-> 0] : v \in oks}
    \cup (IF fails THEN {[rc |-> -1, errno |-> e] : e \in errnos} ELSE {})

\* A structure the host fills when it succeeds and leaves as it was, which
\* is uninitialised, when it fails.
Filled(o) == IF o.rc = -1 THEN "junk" ELSE "host"

RoundUp(x, page) == ((x + page - 1) \div page) * page
=============================================================================
