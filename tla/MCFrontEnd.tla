----------------------------- MODULE MCFrontEnd -----------------------------
(***************************************************************************)
(* What a user of the simulators meets: the options and their              *)
(* configuration files, the life of the process, and the debugger.  A      *)
(* behaviour is about one of them: the process then has not started, and   *)
(* the variables of the other parts are Off.                               *)
(***************************************************************************)
EXTENDS OptionDB, SimMain, TLC

CONSTANT Parts      \* "options", "process", "debugger"

VARIABLES
    part,
    executed, user, mode, PC, NPC, dlite_active, dlite_check, dlite_return, dlite_bps, break_id, dump_addr, dis_addr, cmds,
    atEntry, how, shown

ofOptions  == <<sim, odb, vals, stack, cwd, files, exec, status, session, dumps>>
ofDebugger == <<executed, user, mode, PC, NPC, dlite_active, dlite_check, dlite_return, dlite_bps, break_id, dump_addr,
                dis_addr, cmds, atEntry, how, shown>>
allVars == <<part, cmd, ofOptions, processVars, ofDebugger>>

Off == "off"

\* Exit codes of the program, the one that longjmp() turns into 0 among them.
MCCodes == {-2, -1, 0, 1, 7}
-----------------------------------------------------------------------------
(* Two simulators: one with an option of each kind the repository's own    *)
(* register, one with the classes they do not use.                         *)
UsualTable == <<
    opt_reg_flag("v", 0, FALSE), opt_reg_flag("compress", 0, TRUE),
    opt_reg_int("nice", Num(0), TRUE), opt_reg_uint("max", Num(0), TRUE),
    opt_reg_string("redir", Null, FALSE), opt_reg_string("dl1", Word("none"), TRUE),
    opt_reg_int_list("2lev", 3, <<Num(1), Num(8)>>, TRUE, FALSE),
    opt_reg_string_list("pcstat", 2, <<>>, FALSE, TRUE)>>
Policies == <<<<Word("lru"), 0>>, <<Word("fifo"), 1>>>>
OtherTable == <<
    opt_reg_enum("pol", 0, Policies, TRUE),
    opt_reg_uint_list("u", 2, <<Num(1)>>, TRUE, FALSE),
    opt_reg_float_list("f", 2, <<Num(1)>>, TRUE, FALSE),
    opt_reg_double_list("d", 2, <<Num(1), Num(2)>>, TRUE, FALSE),
    opt_reg_enum_list("e", 2, <<0>>, Policies, TRUE, FALSE),
    opt_reg_flag_list("b", 2, <<1>>, TRUE, FALSE),
    opt_reg_float("s", Num(1), TRUE), opt_reg_double("r", Num(0), TRUE)>>

Config(d, b) == <<Opt("config"), Path(d, b)>>
DumpTo(b)    == <<Opt("dumpconfig"), Path("", b)>>

\* "big" sets a list and includes "low" of its own directory; "sub/big" does
\* the same where "low" is another file.
MCLibrary ==
    (<<"home", "big">> :> <<<<Opt("2lev"), Num(2), Num(4), Num(6)>>, <<>>, Config("", "low") \o <<Opt("v")>>,
                            <<Opt("pcstat"), Word("a")>>>>) @@
    (<<"home", "low">> :> <<<<Opt("nice"), Num(-1), Opt("compress"), Word("on")>>>>) @@
    (<<"sub", "big">>  :> <<<<Opt("max"), Num(3)>>, Config("", "low"), <<Opt("2lev"), Num(7)>>>>) @@
    (<<"sub", "low">>  :> <<<<Opt("dl1"), Word("l"), Opt("compress"), Word("off")>>, <<Opt("redir"), Word("o")>>>>) @@
    (<<"home", "bad">> :> <<<<Opt("v"), Word("prog")>>>>)

Pieces == {Config("", "big"), Config("sub", "big"), DumpTo("out"), <<Opt("dumpconfig"), Single>>,
           <<Opt("nice"), Num(-2)>>, <<Opt("2lev"), Num(5), Num(3)>>, <<Opt("pcstat"), Word("b")>>,
           <<Opt("compress")>>, <<Opt("dl1"), Word("d"), Opt("v"), Word("off")>>}
Few    == {<<>>, Config("sub", "big"), DumpTo("out"), <<Opt("nice"), Num(-2)>>, <<Opt("pcstat"), Word("b")>>}
Others == {<<>>, DumpTo("out"), Config("sub", "big"), <<Opt("2lev"), Num(9), Num(9), Num(9)>>}
Tails  == {<<>>, <<Word("prog"), Opt("v"), Num(1)>>, <<Opt("v"), Word("prog")>>,
           <<Opt("compress"), Word("off"), Word("prog")>>}
Wrong  == {<<Opt("nope")>>, <<Opt("nice"), Word("x")>>, <<Opt("max"), Num(-1)>>, <<Opt("nice")>>, <<Single>>,
           Config("", "bad"), Config("", "none"), <<Opt("config")>>, <<Opt("dumpconfig"), Opt("v")>>}
UsualLines == {a \o b \o c \o t : a \in Pieces, b \in Few, c \in Others, t \in Tails}
              \cup {a \o w : a \in Pieces, w \in Wrong} \cup {<<>>}
Uses == {<<Opt("pol"), Word("fifo")>>, <<Opt("pol"), Word("none")>>, <<Opt("u"), Num(2), Num(3), Opt("pol"), Word("lru")>>,
         <<Opt("u"), Num(-2)>>, <<Opt("u"), Fine(1)>>, <<Opt("f"), Num(2), Num(3)>>, <<Opt("f"), Num(0)>>, <<Opt("f"), Num(2), Num(-1)>>,
         <<Opt("d"), Num(-1)>>, <<Opt("d"), Num(0), Word("x")>>, <<Opt("d"), Num(3), Num(4)>>,
         <<Opt("e"), Word("fifo"), Word("fifo")>>, <<Opt("e"), Word("true")>>, <<Opt("b"), Word("off"), Word("true")>>,
         <<Opt("b"), Word("off"), Num(1)>>, <<Opt("b"), Word("f"), Num(2)>>, <<Opt("s"), Num(4)>>, <<Opt("r"), Num(-1)>>}
OtherLines == {a \o b \o DumpTo("out") : a \in Uses, b \in Uses}

\* The second session loads what the first one dumped.
MCSimulators == {[table |-> UsualTable, commands |-> <<UsualLines, {Config("", "out"), Config("", "big")}>>],
                 [table |-> OtherTable, commands |-> <<OtherLines, {Config("", "out")}>>]}
-----------------------------------------------------------------------------
\* A loop of six instructions that loads, stores and jumps; the accesses are at
\* odd addresses, which a break one below also meets.
Inst(acc, addr, target) == [acc |-> acc, addr |-> addr, target |-> target]
Prog == (10 :> Inst("read", 3, 0)) @@ (12 :> Inst("none", 0, 0)) @@ (14 :> Inst("write", 5, 18)) @@
        (16 :> Inst("none", 0, 0)) @@ (18 :> Inst("none", 0, 12)) @@ (20 :> Inst("none", 0, 10))

Command(c, addr, x) == [c |-> c, a |-> addr, x |-> x, r |-> <<>>]
Do(c) == Command(c, 0, {})
Number(mark, v) == [mark |-> mark, n |-> v, name |-> ""]
Symbol(mark, s) == [mark |-> mark, n |-> 0, name |-> s]
Open == Symbol("none", "none")
Range2(from, to, x) == [c |-> "rbreak", a |-> 0, x |-> x, r |-> <<from, to>>]

Breaks == {
    Command("break", 18, {}), Command("dbreak", 4, {}), Command("dbreak", 2, {"r", "x"}), Command("dbreak", 3, {"r", "w"}),
    Range2(Number("", 2), Number("+", 1), {}), Range2(Number("@", 14), Symbol("@", "loop"), {"x"}),
    Range2(Number("@", 1), Number("@", 5), {"w"}), Range2(Open, Number("@", 18), {}),
    Range2(Number("#", 5), Number("+", -1), {}), Range2(Symbol("@", "nowhere"), Open, {}),
    Range2(Number("#", 3), Symbol("+", "loop"), {}), Range2(Number("#", 3), Open, {}),
    Command("delete", 1, {}), Command("delete", 2, {}), Do("clear"), Do("cont"), Do("step"), Do("quit"), Do("bad"), Do("")}
Screens == {
    Command("dump", 8, {3}), Command("dump", 8, {4}), Command("dump", 10, {6}), Do("dump"), Command("dump", 8, {0}),
    Command("dis", 12, {}), Command("dis", 13, {}), Do("dis"), Do("show"), Do("step"), Do("terminate"), Do("")}
\* On the Alpha, whose instructions have four bytes, a break reaches two further.
MCUsers == {[commands |-> Breaks, max |-> 5, extra |-> 1], [commands |-> Screens, max |-> 4, extra |-> 1],
            [commands |-> {Command("break", 14, {}), Command("break", 18, {}), Command("delete", 1, {}), Do("clear"),
                           Do("cont"), Do("step")}, max |-> 5, extra |-> 5]}

\* A user who goes on at another address.
Elsewhere == {[commands |-> {Command("cont", 16, {}), Do("step")}, max |-> 4, extra |-> 1]}

CONSTANT Users
Debugger == INSTANCE Dlite WITH Far <- 99, Symbols <- [s \in {"loop"} |-> 18], Entry <- 10, Size <- 2,
                Interactive <- BOOLEAN, BYTES_PER_LINE <- 4, LINES_PER_SCREEN <- 2, INSTS_PER_SCREEN <- 2, MaxInsn <- 8,
                sim_num_insn <- executed
-----------------------------------------------------------------------------
OptionsOff ==
    /\ sim = Off /\ odb = Off /\ vals = Off /\ stack = Off /\ cwd = Off /\ files = Off /\ exec = Off /\ status = Off
    /\ session = Off /\ dumps = Off
DebuggerOff ==
    /\ executed = Off /\ user = Off /\ mode = Off /\ PC = Off /\ NPC = Off /\ dlite_active = Off /\ dlite_check = Off
    /\ dlite_return = Off /\ dlite_bps = Off /\ break_id = Off /\ dump_addr = Off /\ dis_addr = Off /\ cmds = Off
    /\ atEntry = Off /\ how = Off /\ shown = Off

AllInit ==
    /\ part \in Parts
    /\ ProcessInit
    /\ \/ part = "options" /\ Init /\ DebuggerOff
       \/ part = "process" /\ cmd = Off /\ OptionsOff /\ DebuggerOff
       \/ part = "debugger" /\ Debugger!Init /\ OptionsOff

AllNext ==
    \/ part = "options" /\ Next /\ UNCHANGED <<part, processVars, ofDebugger>>
    \/ part = "process" /\ ProcessNext /\ UNCHANGED <<part, cmd, ofOptions, ofDebugger>>
    \/ part = "debugger" /\ Debugger!Next /\ UNCHANGED <<part, ofOptions, processVars>>

\* The processing of options is a loop of the simulator, which runs on.
AllSpec == AllInit /\ [][AllNext]_allVars /\ WF_vars(part = "options" /\ Step)
-----------------------------------------------------------------------------
(* The properties of each part, while it is the one considered;            *)
(* ProcessEnds of SimMain is checked as it is.                             *)

\* Every option has the value of its last setting in the order of the text,
\* configuration files included; a dump shows the final values in a form that
\* -config reads back; and each file leaves the working directory as it was.
OptionsExact == Effective /\ DumpFinal /\ RoundTrip /\ CwdRestored

\* The program stops after an instruction exactly when the user asked for a
\* step, or for a break that this instruction meets; a dump without an address
\* goes on with the byte after the last one shown; and none of these commands
\* changes what the program executes.
DebuggerExact ==
    /\ [](part = "debugger" => Debugger!Undisturbed)
    /\ [][part = "debugger" => Debugger!StopsExactly /\ Debugger!DumpGoesOn]_allVars

\* cont <addr> goes on at <addr> (dlite.c:435).
ContinuesThere == [][part = "debugger" => Debugger!ContinuesThere]_allVars
=============================================================================
