----------------------------- MODULE FlatMemory -----------------------------
(***************************************************************************)
(* What the pipeline expects of its memory port, with no cache in sight:   *)
(* one array of words.  A load answers with the word stored last, a store  *)
(* replaces one word, and the host system call handler sees the whole      *)
(* array and may overwrite part of it.  This is the contract of            *)
(* cache_read, cache_write and cache_flush followed by SYSCALL in          *)
(* Project2/sim-pipe.c; module UCache is shown to implement it.            *)
(***************************************************************************)
CONSTANTS
    Addr,           \* the word-aligned addresses of the simulated memory
    Port,           \* the addresses the pipeline fetches, loads or stores
    Word,           \* the values of a memory word
    SyscallWrites   \* what a system call may store: functions address -> word

VARIABLES
    contents,       \* contents[a] is the word at address a
    reply           \* what the last operation answered

vars == <<contents, reply>>

Init ==
    /\ contents \in [Addr -> Word]
    /\ reply = [op |-> "none"]

Read(a) ==
    /\ reply' = [op |-> "read", addr |-> a, word |-> contents[a]]
    /\ UNCHANGED contents

Write(a, w) ==
    /\ contents' = [contents EXCEPT ![a] = w]
    /\ reply' = [op |-> "write", addr |-> a, word |-> w]

Syscall(ws) ==
    /\ reply' = [op |-> "syscall", image |-> contents]
    /\ contents' = [a \in Addr |-> IF a \in DOMAIN ws THEN ws[a] ELSE contents[a]]

Next ==
    \/ \E a \in Port : Read(a)
    \/ \E a \in Port, w \in Word : Write(a, w)
    \/ \E ws \in SyscallWrites : Syscall(ws)

Spec == Init /\ [][Next]_vars
=============================================================================
