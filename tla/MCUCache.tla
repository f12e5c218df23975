------------------------------ MODULE MCUCache ------------------------------
(* Small instances of UCache for TLC. *)
EXTENDS UCache, TLC

\* Three blocks of set 0 and one of set 1, all of their words.
Blocks == {0, 256, 512, 16}
MCAddr == {b + 4 * i : b \in Blocks, i \in Slot}

\* The words the pipeline touches: two in the first block, one in the others.
MCPort == {0, 4, 256, 512, 16}
MCWord == {0, 1}
MCInitMem == [a \in MCAddr |-> IF a \in {4, 256} THEN 1 ELSE 0]

\* System calls that only read memory (exit, write).
MCReadOnly == {<<>>}

\* System calls that may also store a word the program can hold in the cache
\* (read into a buffer).
MCRead == {<<>>, 0 :> 1}
=============================================================================
