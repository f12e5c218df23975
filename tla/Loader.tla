------------------------------- MODULE Loader -------------------------------
(***************************************************************************)
(* ld_load_prog(): an executable becomes the initial memory and registers  *)
(* of the simulated machine.  One module for the three loaders of the      *)
(* repository: target-pisa/loader.c, its copy for the first project, whose *)
(* read of the data sections is commented out, and target-alpha/loader.c.  *)
(*                                                                         *)
(* A cell of memory is an instruction, a word, a pointer or a character;   *)
(* it holds a tuple saying what it is and where it came from.  An access   *)
(* of mem_bcopy() or mem_strcpy() is one step.                             *)
(***************************************************************************)
EXTENDS Integers, Sequences

CONSTANTS Executables,\* for each loader: [magic, dstart, dsize, bsize, tstart, tsize, entry, scns; Alpha gp]
          Strings,    \* lengths of the argument and environment strings
          MaxStrings, \* bound: strings of each kind
          TEXT_BASE, DATA_BASE, STACK_BASE, \* MD_TEXT_BASE, ...
          MAX_ENVIRON, PAGE, PAD            \* MD_MAX_ENVIRON, MD_PAGE_SIZE, TEXT_TAIL_PADDING

LoaderAssumption == DOMAIN Executables \subseteq {"pisa", "project1", "alpha"} /\ PAGE > 0

VARIABLES variant, ex, argv, envp,  \* the loader and its inputs
          pc, i, status,   \* where ld_load_prog() is; its loop counter; "ok" or "fatal"
          mem, sp, ld, regs
vars == <<variant, ex, argv, envp, pc, i, status, mem, sp, ld, regs>>
inputs == <<variant, ex, argv, envp>>

Top  == STACK_BASE + 6
Zero == <<"zero", 0, 0>>
Text == {"TEXT"}
Data == {"RDATA", "DATA", "SDATA"}
Code == {"INIT", "FINI"}          \* Alpha only, with the many data kinds left out
Bss  == {"BSS", "SBSS"}

MutantBcopy(m, a, data) ==
  [c \in 0..Top |-> IF c \in a..(a + Len(data) - 2) THEN data[c - a + 1] ELSE m[c]]
mem_bcopy(m, a, data) ==
  [c \in 0..Top |-> IF c \in a..(a + Len(data) - 1) THEN data[c - a + 1] ELSE m[c]]
Raw(k)         == [j \in 1..ex.scns[k].size |-> <<"raw", k, j>>]
Zeros(n)       == [j \in 1..n |-> Zero]
CString(w, k, n) == Append([j \in 1..n |-> <<w, k, j>>], Zero)
RoundUp(x)     == ((x + PAGE - 1) \div PAGE) * PAGE

-----------------------------------------------------------------------------
Init ==
  /\ variant \in DOMAIN Executables
  /\ ex \in Executables[variant]
  /\ argv \in UNION {[1..n -> Strings] : n \in 1..MaxStrings}
  /\ envp \in UNION {[1..n -> Strings] : n \in 0..MaxStrings}
  /\ pc = "header" /\ i = 1 /\ status = "ok"
  /\ mem = [c \in 0..Top |-> Zero] /\ sp = 0
  /\ ld = [text_base |-> 0, text_size |-> 0, data_base |-> 0, data_size |-> 0, brk |-> 0,
           stack_base |-> 0, environ |-> 0, entry |-> 0, argv |-> 0, envp |-> 0]
  /\ regs = [SP |-> 0, PC |-> 0, GP |-> 0, A0 |-> 0, A1 |-> 0]

Goto(l) == pc' = l /\ i' = 1 /\ UNCHANGED status
Fatal   == pc' = "done" /\ status' = "fatal" /\ UNCHANGED <<inputs, i, mem, sp, ld, regs>>

\* Every PISA magic but the host's own is refused, an Alpha loader takes only
\* its own.
BadMagic(x) == x.magic # (IF variant = "alpha" THEN "ALPHA" ELSE "EL")
HeaderBad == pc = "header" /\ BadMagic(ex) /\ Fatal

\* PISA fixes the segment bases and takes sizes from the a.out header; the
\* text size comes from the section.
MutantDataBreak(x) == DATA_BASE + x.dsize
DataBreak(x)       == DATA_BASE + x.dsize + x.bsize
HeaderPisa ==
  /\ pc = "header" /\ variant # "alpha" /\ ~BadMagic(ex)
  /\ sp' = STACK_BASE - MAX_ENVIRON
  /\ ld' = [ld EXCEPT !.stack_base = STACK_BASE, !.environ = STACK_BASE - MAX_ENVIRON,
              !.text_base = TEXT_BASE, !.data_base = DATA_BASE, !.entry = ex.entry,
              !.data_size = DataBreak(ex) - DATA_BASE]
  /\ Goto("sections") /\ UNCHANGED <<inputs, mem, regs>>

\* Alpha takes everything from the header and puts the stack below the text.
HeaderAlpha ==
  /\ pc = "header" /\ variant = "alpha" /\ ~BadMagic(ex)
  /\ ld' = [ld EXCEPT !.text_base = ex.tstart, !.text_size = ex.tsize, !.entry = ex.entry,
              !.data_base = ex.dstart, !.data_size = ex.dsize + ex.bsize,
              !.stack_base = ex.tstart - 1, !.environ = ex.tstart - 1 - MAX_ENVIRON]
  /\ sp' = ex.tstart - 1 - MAX_ENVIRON
  /\ regs' = [regs EXCEPT !.GP = ex.gp]
  /\ Goto("sections") /\ UNCHANGED <<inputs, mem>>

-----------------------------------------------------------------------------
\* The loop over the section headers.

Here == ex.scns[i]
More == pc = "sections" /\ i <= Len(ex.scns)
Load(m, s) ==
  /\ mem' = m
  /\ ld' = [ld EXCEPT !.text_size = s]
  /\ i' = i + 1 /\ UNCHANGED <<inputs, pc, status, sp, regs>>

MutantPadding == Zeros(4 * PAD)
Padding       == Zeros(PAD)

\* ECOFF_STYP_TEXT; fread() of an empty section reads nothing, which is fatal.
SectionText ==
  /\ More /\ Here.kind \in Text /\ Here.size > 0
  /\ IF variant = "alpha" THEN Load(mem_bcopy(mem, Here.vaddr, Raw(i)), ld.text_size)
     ELSE Load(mem_bcopy(mem_bcopy(mem, Here.vaddr, Raw(i)), Here.vaddr + Here.size, Padding),
               (Here.vaddr + Here.size) - TEXT_BASE + PAD)

\* What is copied for a data section: what the file holds, except in the
\* first project, whose buffer stays as calloc() made it.
DataRead(k) == IF variant = "project1" THEN Zeros(ex.scns[k].size) ELSE Raw(k)
SectionData ==
  /\ More /\ Here.kind \in Data
  /\ Here.size > 0 \/ variant # "pisa"
  /\ Load(mem_bcopy(mem, Here.vaddr, DataRead(i)), ld.text_size)

SectionEmpty ==
  /\ More /\ Here.size = 0 /\ Fatal
  /\ Here.kind \in (IF variant = "pisa" THEN Text \cup Data ELSE Text)

\* .init and .fini of an Alpha executable, nothing for .bss and the rest.
MutantSectionCode ==
  /\ More /\ Here.kind \in Code
  /\ Load(mem_bcopy(mem, ld.text_base, Raw(i)), ld.text_size)
SectionCode ==
  /\ More /\ Here.kind \in Code
  /\ Load(IF variant = "alpha" THEN mem_bcopy(mem, Here.vaddr, Raw(i)) ELSE mem, ld.text_size)
SectionOther == More /\ Here.kind \notin Text \cup Data \cup Code /\ Load(mem, ld.text_size)

\* The sanity checks behind the loop; the first project dropped the one on data.
Sane == /\ ld.text_base # 0 /\ ld.text_size # 0 /\ ld.entry # 0
        /\ variant = "project1" \/ (ld.data_base # 0 /\ ld.data_size # 0)
Insane   == pc = "sections" /\ i > Len(ex.scns) /\ ~Sane /\ Fatal

-----------------------------------------------------------------------------
\* The stack: [argc] [argv pointers] 0 [envp pointers] 0 [strings]

\* argc is written, the two pointer arrays are skipped.
MutantSkip(a) == [argv |-> a + 1, envp |-> a + 1 + Len(argv), data |-> a + 1 + Len(argv) + Len(envp)]
Skip(a) == [argv |-> a + 1, envp |-> a + 1 + Len(argv) + 1,
            data |-> a + 1 + Len(argv) + 1 + Len(envp) + 1]
StackHead ==
  /\ pc = "sections" /\ i > Len(ex.scns) /\ Sane
  /\ mem' = [mem EXCEPT ![sp] = <<"int", Len(argv), 0>>]
  /\ ld' = [ld EXCEPT !.argv = Skip(sp).argv, !.envp = Skip(sp).envp]
  /\ sp' = Skip(sp).data
  /\ regs' = IF variant = "alpha" THEN [regs EXCEPT !.A0 = Len(argv), !.A1 = Skip(sp).argv] ELSE regs
  /\ Goto("argv") /\ UNCHANGED inputs

\* One string: its pointer goes to the array, its characters to the stack.
Push(table, w, strs) ==
  /\ i <= Len(strs)
  /\ mem' = mem_bcopy([mem EXCEPT ![table + i - 1] = <<"ptr", sp, 0>>], sp, CString(w, i, strs[i]))
  /\ sp' = sp + strs[i] + 1
  /\ i' = i + 1 /\ UNCHANGED <<inputs, pc, status, ld, regs>>
Terminate(table, strs, l) ==
  /\ i > Len(strs)
  /\ mem' = [mem EXCEPT ![table + i - 1] = Zero]
  /\ Goto(l) /\ UNCHANGED <<inputs, sp, ld, regs>>
Argv    == pc = "argv" /\ Push(ld.argv, "arg", argv)
ArgvEnd == pc = "argv" /\ Terminate(ld.argv, argv, "envp")
Envp    == pc = "envp" /\ Push(ld.envp, "env", envp)
EnvpEnd == pc = "envp" /\ Terminate(ld.envp, envp, "finish")

MutantOverflow == FALSE
Overflow       == sp > ld.stack_base
TooMuch == pc = "finish" /\ Overflow /\ Fatal

\* Heap, registers; the Alpha loader is done here.
Finish ==
  /\ pc = "finish" /\ ~Overflow
  /\ ld' = [ld EXCEPT !.brk = RoundUp(ld.data_base + ld.data_size)]
  /\ regs' = [regs EXCEPT !.SP = ld.environ, !.PC = ld.entry]
  /\ Goto(IF variant = "alpha" THEN "done" ELSE "predecode")
  /\ UNCHANGED <<inputs, mem, sp>>

\* PISA replaces the opcode of every instruction between ld_text_base and
\* its end by the simulator's own number.
Decode(v)  == IF v[1] = "raw" THEN <<"decoded", v[2], v[3]>>
              ELSE IF v[1] = "decoded" THEN <<"twice", v[2], v[3]>> ELSE v
MutantTextRange == ld.text_base..(ld.text_base + ld.text_size - PAD - 2)
TextRange       == ld.text_base..(ld.text_base + ld.text_size - 1)
Predecode ==
  /\ pc = "predecode"
  /\ mem' = [c \in 0..Top |-> IF c \in TextRange THEN Decode(mem[c]) ELSE mem[c]]
  /\ Goto("done") /\ UNCHANGED <<inputs, sp, ld, regs>>

Next == HeaderBad \/ HeaderPisa \/ HeaderAlpha \/ SectionText \/ SectionData \/ SectionEmpty
          \/ SectionCode \/ SectionOther \/ Insane \/ StackHead \/ Argv \/ ArgvEnd
          \/ Envp \/ EnvpEnd \/ TooMuch \/ Finish \/ Predecode
Spec == Init /\ [][Next]_vars

-----------------------------------------------------------------------------
Ready == pc = "done" /\ status = "ok"
Cells(s) == s.vaddr..(s.vaddr + s.size - 1)

\* "load program text and initialized data into simulated virtual memory
\* space": a program that starts finds every data section as the file has it,
\* whatever was loaded, padded or decoded after it.
DataIntact ==
  Ready => \A k \in DOMAIN ex.scns : ex.scns[k].kind \in Data =>
             \A c \in Cells(ex.scns[k]) : mem[c] = <<"raw", k, c - ex.scns[k].vaddr + 1>>

\* Every instruction is in memory in the form the simulators execute it, and
\* the words behind the text, which they may fetch ahead, decode as well.
TextReady ==
  Ready => \A k \in DOMAIN ex.scns : ex.scns[k].kind \in Text =>
    LET want == IF variant = "alpha" THEN "raw" ELSE "decoded"
    IN /\ \A c \in Cells(ex.scns[k]) : mem[c] = <<want, k, c - ex.scns[k].vaddr + 1>>
       /\ variant # "alpha" =>
            \A c \in (ex.scns[k].vaddr + ex.scns[k].size)..(ex.scns[k].vaddr + ex.scns[k].size + PAD - 1) :
              mem[c] = Zero

\* What the program's startup code sees from its stack pointer: argc, the
\* strings behind argv[] and envp[], and a null behind each array.
StringAt(p, w, k, n) ==
  /\ p[1] = "ptr"
  /\ \A j \in 1..n : mem[p[2] + j - 1] = <<w, k, j>>
  /\ mem[p[2] + n] = Zero
StackReadable ==
  Ready =>
    LET a == regs.SP + 1
        e == a + Len(argv) + 1
    IN /\ mem[regs.SP] = <<"int", Len(argv), 0>>
       /\ \A k \in DOMAIN argv : StringAt(mem[a + k - 1], "arg", k, argv[k])
       /\ mem[e - 1] = Zero
       /\ \A k \in DOMAIN envp : StringAt(mem[e + k - 1], "env", k, envp[k])
       /\ mem[e + Len(envp)] = Zero
       /\ variant = "alpha" => regs.A0 = Len(argv) /\ regs.A1 = a

\* A program that starts has its heap above every section that the loader
\* placed or that is to be zero, and nothing of it on the stack segment.
SegmentsApart ==
  Ready =>
    /\ ld.brk % PAGE = 0
    /\ \A k \in DOMAIN ex.scns : ex.scns[k].kind \in (Data \cup Bss) \ {"RDATA"} =>
         ex.scns[k].vaddr + ex.scns[k].size <= ld.brk
    /\ sp <= ld.stack_base
    /\ ld.brk <= ld.environ \/ ld.stack_base < ld.text_base
=============================================================================
