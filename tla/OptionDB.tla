------------------------------ MODULE OptionDB ------------------------------
(***************************************************************************)
(* The option database of the simulators (options.c): registration, the    *)
(* processing of a command line with nested configuration files, and the   *)
(* dump of the current values to a file a later session can load.          *)
(*                                                                         *)
(* A command-line argument is a token: an option's name, a number, the     *)
(* single dash, or a word.  Of a number the model keeps an integer part n  *)
(* and whether digits beyond the fourth decimal follow (fine); of a file   *)
(* name its directory (dir, "" for none) and base.  A session is one run   *)
(* of the simulator; files outlive it.                                     *)
(***************************************************************************)
EXTENDS Integers, Sequences, FiniteSets, SequencesExt

CONSTANTS Simulators, \* [table, commands]: the options in the order of their
                      \* registration, and the command lines of each session
          Home,     \* the directory a session starts in
          Library   \* the configuration files there are before the first session

VARIABLES sim,      \* the simulator that is run
          odb,      \* the registered options
          vals,     \* their variables: [var |-> cells, nelt |-> elements]
          stack,    \* open command line, configuration files and their lines
          cwd, files,
          exec,     \* exec_index, 0 while no orphan was met
          status,   \* "register", "launch", "run", "done" or "fatal"
          session, cmd,
          dumps     \* ghost: the dumps of this session, with the values they were made from

vars == <<sim, odb, vals, stack, cwd, files, exec, status, session, cmd, dumps>>

Opt(n)       == [k |-> "opt", name |-> n]
Num(n)       == [k |-> "num", n |-> n, fine |-> FALSE]
Fine(n)      == [k |-> "num", n |-> n, fine |-> TRUE]
Word(w)      == [k |-> "word", w |-> w]
Path(d, b)   == [k |-> "path", dir |-> d, base |-> b]
Single       == [k |-> "dash"]
Null         == [k |-> "null"]

---------------------------------------------------------------------------
(* Registration.                                                           *)

Option(n, oc, nvars, list, accrue, print, def, emap) ==
  [name |-> n, oc |-> oc, nvars |-> nvars, list |-> list, accrue |-> accrue,
   print |-> print, def |-> def, emap |-> emap]

Scalar(n, oc, def, print, emap) == Option(n, oc, 1, FALSE, FALSE, print, <<def>>, emap)
\* One spelling for each word the code takes in several cases.
flag_emap == <<<<Word("true"), 1>>, <<Word("t"), 1>>, <<Num(1), 1>>, <<Word("y"), 1>>, <<Word("on"), 1>>,
               <<Word("false"), 0>>, <<Word("f"), 0>>, <<Num(0), 0>>, <<Word("n"), 0>>, <<Word("off"), 0>>>>

opt_reg_int(n, def, print)    == Scalar(n, "int", def, print, <<>>)
opt_reg_uint(n, def, print)   == Scalar(n, "uint", def, print, <<>>)
opt_reg_float(n, def, print)  == Scalar(n, "float", def, print, <<>>)
opt_reg_double(n, def, print) == Scalar(n, "double", def, print, <<>>)
opt_reg_enum(n, def, emap, print) == Scalar(n, "enum", def, print, emap)
opt_reg_flag(n, def, print)   == Scalar(n, "flag", def, print, flag_emap)
opt_reg_string(n, def, print) == Scalar(n, "string", def, print, <<>>)
opt_reg_int_list(n, nvars, def, print, accrue)    == Option(n, "int", nvars, TRUE, accrue, print, def, <<>>)
opt_reg_uint_list(n, nvars, def, print, accrue)   == Option(n, "uint", nvars, TRUE, accrue, print, def, <<>>)
opt_reg_float_list(n, nvars, def, print, accrue)  == Option(n, "float", nvars, TRUE, accrue, print, def, <<>>)
opt_reg_double_list(n, nvars, def, print, accrue) == Option(n, "double", nvars, TRUE, accrue, print, def, <<>>)
opt_reg_enum_list(n, nvars, def, emap, print, accrue) == Option(n, "enum", nvars, TRUE, accrue, print, def, emap)
opt_reg_flag_list(n, nvars, def, print, accrue)   == Option(n, "flag", nvars, TRUE, accrue, print, def, flag_emap)
opt_reg_string_list(n, nvars, def, print, accrue) == Option(n, "string", nvars, TRUE, accrue, print, def, <<>>)

Default(o) == [var  |-> [j \in 1..o.nvars |-> IF j <= Len(o.def) THEN o.def[j] ELSE Null],
               nelt |-> Len(o.def)]

add_option ==
  /\ status = "register"
  /\ Len(odb) < Len(sim.table)
  /\ LET o     == sim.table[Len(odb) + 1]
         twice == \E e \in Range(odb) : e.name = o.name
     IN /\ status' = IF twice THEN "fatal" ELSE status
        /\ odb' = IF twice THEN odb ELSE Append(odb, o)
        /\ vals' = IF twice THEN vals
                   ELSE [m \in DOMAIN vals \cup {o.name} |-> IF m = o.name THEN Default(o) ELSE vals[m]]
  /\ UNCHANGED <<sim, stack, cwd, files, exec, session, cmd, dumps>>

---------------------------------------------------------------------------
(* One option and its arguments (process_option).                          *)

Dash(t) == t.k \in {"opt", "dash"} \/ (t.k = "num" /\ t.n < 0)

bind_to_enum(t, emap) == LET hits == {j \in DOMAIN emap : emap[j][1] = t} IN
  IF hits = {} THEN {} ELSE {emap[CHOOSE j \in hits : \A i \in hits : j <= i][2]}
\* A mutant: the value taken for the index of its string.
MutantIndex(v, emap) == emap[v + 1][1]

bind_to_str(v, emap) == LET hits == {j \in DOMAIN emap : emap[j][2] = v} IN
  emap[CHOOSE j \in hits : \A i \in hits : j <= i][1]

\* What a class takes for an argument, and the set of its value (empty when
\* it cannot be parsed).
IntArg(o, t)    == [arg |-> ~Dash(t) \/ t.k = "num", val |-> IF t.k = "num" /\ ~t.fine THEN {t} ELSE {}]
UintArg(o, t)   == [arg |-> ~Dash(t), val |-> IF t.k = "num" /\ ~t.fine THEN {t} ELSE {}]
FloatArg(o, t)  == [arg |-> ~Dash(t) \/ t.k = "num",
                    val |-> IF t.k = "num" /\ (t.n > 0 \/ (t.n = 0 /\ t.fine)) THEN {t} ELSE {}]
DoubleArg(o, t) == [arg |-> ~Dash(t) \/ t.k = "num", val |-> IF t.k = "num" THEN {t} ELSE {}]
EnumArg(o, t)   == [arg |-> ~Dash(t), val |-> bind_to_enum(t, o.emap)]
FlagArg(o, t)   == [arg |-> ~Dash(t), val |-> bind_to_enum(t, o.emap)]
StringArg(o, t) == [arg |-> ~Dash(t), val |-> {t}]

Argument(o, t) == CASE o.oc = "int"    -> IntArg(o, t)
                    [] o.oc = "uint"   -> UintArg(o, t)
                    [] o.oc = "float"  -> FloatArg(o, t)
                    [] o.oc = "double" -> DoubleArg(o, t)
                    [] o.oc = "enum"   -> EnumArg(o, t)
                    [] o.oc = "flag"   -> FlagArg(o, t)
                    [] o.oc = "string" -> StringArg(o, t)

IsArg(o, args, i) == i <= Len(args) /\ Argument(o, args[i]).arg
Parses(o, t)      == Argument(o, t).val # {}

\* A mutant: an accruing option that takes as many arguments as are left.
MutantRoom(o) == o.nvars

\* A mutant: a list that takes one argument.
MutantRoomOne(o) == 1

\* The number of arguments consumed from position i: as many as there are
\* variables (one when the uses accrue); an unparsable one ends a flag's
\* arguments and is an error of the other classes.

Room(o) == IF o.accrue THEN 1 ELSE o.nvars
Taken(o, args, i) == LET good(n) == \A j \in i..(i + n - 1) : IsArg(o, args, j) /\ (o.oc = "flag" => Parses(o, args[j]))
                     IN CHOOSE n \in 0..Room(o) : good(n) /\ (n = Room(o) \/ ~good(n + 1))

Fatal == [ok |-> FALSE]
process_option(o, cell, args, i) ==
  LET ent == IF o.accrue THEN cell.nelt ELSE 0
      n   == Taken(o, args, i)
      put == [j \in 1..n |-> Argument(o, args[i + j - 1]).val]
      var == [j \in 1..o.nvars |-> IF j - ent \in 1..n THEN CHOOSE v \in put[j - ent] : TRUE
                                   ELSE IF o.oc = "flag" /\ n < Room(o) /\ j = ent + n + 1 /\ IsArg(o, args, i + n)
                                     THEN 1 ELSE cell.var[j]]
  IN IF ~IsArg(o, args, i)
       THEN IF o.oc = "flag" THEN [ok |-> TRUE, i |-> i, cell |-> [cell EXCEPT !.var[1] = 1]] ELSE Fatal
     ELSE IF (o.accrue /\ ent >= o.nvars) \/ \E j \in 1..n : put[j] = {} THEN Fatal
     ELSE [ok |-> TRUE, i |-> i + n,
           cell |-> [var |-> var, nelt |-> IF o.list THEN ent + n ELSE cell.nelt]]

---------------------------------------------------------------------------
(* The dump (opt_print_options in its long form).                          *)

Printed(o, v) == CASE o.oc \in {"enum", "flag"}    -> bind_to_str(v, o.emap)
                   [] o.oc \in {"float", "double"} -> [v EXCEPT !.fine = FALSE]   \* %.4f
                   [] OTHER                        -> v
opt_print_option(o, cell) == [j \in 1..cell.nelt |-> Printed(o, cell.var[j])]
opt_null_string(o, cell) == o.oc = "string" /\ (IF o.list THEN cell.nelt = 0 ELSE cell.var[1] = Null)
opt_print_options(table, vs) ==
  LET shown == SelectSeq(table, LAMBDA o : o.print /\ ~opt_null_string(o, vs[o.name]))
  IN [j \in DOMAIN shown |-> <<Opt(shown[j].name)>> \o opt_print_option(shown[j], vs[shown[j].name])]

---------------------------------------------------------------------------
(* The command line and the configuration files.                           *)

NoDump == [k |-> "none"]
Args(a)  == [kind |-> "args", args |-> a, i |-> 1, dump |-> NoDump]
Top      == Head(stack)
Cur      == Top.args[Top.i]
Depth    == Cardinality({j \in DOMAIN stack : stack[j].kind = "file"})
AtArg    == status = "run" /\ stack # <<>> /\ Top.kind = "args" /\ Top.i <= Len(Top.args)
IsName(t, n) == t.k = "opt" /\ t.name = n

\* The file a name stands for.  A name without a directory is looked up in
\* the working directory, one with a directory below Home only.
Resolve(p) == IF p.dir = "" THEN <<cwd, p.base>> ELSE IF cwd = Home THEN <<p.dir, p.base>> ELSE <<"none", p.base>>

Fail == status' = "fatal" /\ UNCHANGED <<vals, stack, cwd, files, exec, dumps>>
Shift(n) == <<[Top EXCEPT !.i = @ + n]>> \o Tail(stack)

orphan ==
  /\ AtArg /\ ~Dash(Cur)
  /\ IF Depth > 0 THEN Fail
     ELSE /\ exec' = Top.i
          /\ stack' = <<[Top EXCEPT !.args = SubSeq(@, 1, Top.i - 1)]>> \o Tail(stack)   \* goto done_processing
          /\ UNCHANGED <<vals, cwd, files, status, dumps>>
  /\ UNCHANGED <<sim, odb, session, cmd>>

HasFile(p) == p.k = "path" /\ Resolve(p) \in DOMAIN files
Named      == Top.i < Len(Top.args) /\ ~Dash(Top.args[Top.i + 1])

\* A mutant: the name of the file is not stepped over.
MutantRereads ==
  /\ AtArg /\ IsName(Cur, "config")
  /\ IF ~Named \/ ~HasFile(Top.args[Top.i + 1]) THEN Fail
     ELSE LET p == Top.args[Top.i + 1] IN
          /\ stack' = <<[kind |-> "file", lines |-> files[Resolve(p)], cwd |-> cwd]>> \o Shift(0)
          /\ cwd' = IF p.dir = "" THEN cwd ELSE p.dir
          /\ UNCHANGED <<vals, files, exec, status, dumps>>
  /\ UNCHANGED <<sim, odb, session, cmd>>

process_file ==
  /\ AtArg /\ IsName(Cur, "config")
  /\ IF ~Named \/ ~HasFile(Top.args[Top.i + 1]) THEN Fail
     ELSE LET p == Top.args[Top.i + 1] IN
          /\ stack' = <<[kind |-> "file", lines |-> files[Resolve(p)], cwd |-> cwd]>> \o Shift(2)
          /\ cwd' = IF p.dir = "" THEN cwd ELSE p.dir
          /\ UNCHANGED <<vals, files, exec, status, dumps>>
  /\ UNCHANGED <<sim, odb, session, cmd>>

\* The next line of a configuration file is one more argument array.
NextLine ==
  /\ status = "run" /\ stack # <<>> /\ Top.kind = "file" /\ Top.lines # <<>>
  /\ stack' = (IF Head(Top.lines) = <<>> THEN <<>> ELSE <<Args(Head(Top.lines))>>)
              \o <<[Top EXCEPT !.lines = Tail(@)]>> \o Tail(stack)
  /\ UNCHANGED <<sim, odb, vals, cwd, files, exec, status, session, cmd, dumps>>

\* A mutant: the directory is not restored.
MutantStays ==
  /\ status = "run" /\ stack # <<>> /\ Top.kind = "file" /\ Top.lines = <<>>
  /\ stack' = Tail(stack)
  /\ UNCHANGED <<sim, odb, vals, cwd, files, exec, status, session, cmd, dumps>>

EndFile ==
  /\ status = "run" /\ stack # <<>> /\ Top.kind = "file" /\ Top.lines = <<>>
  /\ stack' = Tail(stack)
  /\ cwd' = Top.cwd
  /\ UNCHANGED <<sim, odb, vals, files, exec, status, session, cmd, dumps>>

dump_config(p) ==
  IF p.k = "path"
    THEN /\ files' = [f \in DOMAIN files \cup {Resolve(p)} |->
                        IF f = Resolve(p) THEN opt_print_options(odb, vals) ELSE files[f]]
         /\ dumps' = dumps \cup {[file |-> Resolve(p), depth |-> Depth, session |-> session, vals |-> vals]}
    ELSE UNCHANGED <<files, dumps>>                      \* "-", the standard error

\* A mutant: the dump is made as soon as it is asked for.
MutantDumpNow ==
  /\ AtArg /\ IsName(Cur, "dumpconfig")
  /\ IF Top.i = Len(Top.args) \/ (Dash(Top.args[Top.i + 1]) /\ Top.args[Top.i + 1] # Single) THEN Fail
     ELSE /\ stack' = Shift(2)
          /\ dump_config(Top.args[Top.i + 1])
          /\ UNCHANGED <<vals, cwd, exec, status>>
  /\ UNCHANGED <<sim, odb, session, cmd>>

RequestDump ==
  /\ AtArg /\ IsName(Cur, "dumpconfig")
  /\ IF Top.i = Len(Top.args) \/ (Dash(Top.args[Top.i + 1]) /\ Top.args[Top.i + 1] # Single) THEN Fail
     ELSE /\ stack' = <<[Top EXCEPT !.dump = Top.args[Top.i + 1], !.i = @ + 2]>> \o Tail(stack)
          /\ UNCHANGED <<vals, cwd, files, exec, status, dumps>>
  /\ UNCHANGED <<sim, odb, session, cmd>>

UserOption ==
  /\ AtArg /\ Dash(Cur) /\ ~IsName(Cur, "config") /\ ~IsName(Cur, "dumpconfig")
  /\ LET hit == {j \in DOMAIN odb : IsName(Cur, odb[j].name)}
         o   == odb[CHOOSE j \in hit : TRUE]
         res == IF hit = {} THEN Fatal ELSE process_option(o, vals[o.name], Top.args, Top.i + 1)
     IN IF ~res.ok THEN Fail
        ELSE /\ vals' = [vals EXCEPT ![o.name] = res.cell]
             /\ stack' = <<[Top EXCEPT !.i = res.i]>> \o Tail(stack)
             /\ UNCHANGED <<cwd, files, exec, status, dumps>>
  /\ UNCHANGED <<sim, odb, session, cmd>>

\* The end of one argument array: its dump, if it asked for one, is made now.
EndArgs ==
  /\ status = "run" /\ stack # <<>> /\ Top.kind = "args" /\ Top.i > Len(Top.args)
  /\ stack' = Tail(stack)
  /\ dump_config(Top.dump)
  /\ status' = IF Len(stack) = 1 THEN "done" ELSE "run"
  /\ UNCHANGED <<sim, odb, vals, cwd, exec, session, cmd>>

opt_process_options(c) ==
  /\ status = "register" /\ Len(odb) = Len(sim.table)
  /\ cmd' = c
  /\ stack' = IF c = <<>> THEN <<>> ELSE <<Args(c)>>
  /\ status' = IF c = <<>> THEN "done" ELSE "run"
  /\ UNCHANGED <<sim, odb, vals, cwd, files, exec, session, dumps>>

\* Another run of the simulator, in a process of its own.
NewSession ==
  /\ status \in {"done", "fatal"} /\ session < Len(sim.commands)
  /\ session' = session + 1 /\ status' = "register" /\ cwd' = Home /\ exec' = 0
  /\ odb' = <<>> /\ vals' = <<>> /\ stack' = <<>> /\ cmd' = <<>>
  /\ UNCHANGED <<sim, files, dumps>>

Init ==
  /\ sim \in Simulators
  /\ odb = <<>> /\ vals = <<>> /\ stack = <<>> /\ cwd = Home /\ files = Library
  /\ exec = 0 /\ status = "register" /\ session = 1 /\ cmd = <<>> /\ dumps = {}

Step == \/ add_option \/ orphan \/ process_file \/ NextLine \/ EndFile
        \/ RequestDump \/ UserOption \/ EndArgs
        \/ \E c \in sim.commands[session] : opt_process_options(c)
Next == Step \/ NewSession
Spec == Init /\ [][Next]_vars /\ WF_vars(Step)

---------------------------------------------------------------------------
(* The text of a command line with its configuration files written out, a  *)
(* separator after every line, and the simulated program's own arguments. *)

Eol == Opt("end of line")
RECURSIVE Written(_, _)
Written(args, dir) ==
  IF args = <<>> THEN <<>>
  ELSE IF IsName(Head(args), "config")
    THEN LET p  == args[2]
             d  == IF p.dir = "" THEN dir ELSE p.dir
             ls == files[<<d, p.base>>]
         IN FlattenSeq([j \in DOMAIN ls |-> Written(ls[j], d) \o <<Eol>>]) \o Written(Tail(Tail(args)), dir)
    ELSE <<Head(args)>> \o Written(Tail(args), dir)
Before == Written(IF exec = 0 THEN cmd ELSE SubSeq(cmd, 1, exec - 1), Home)
After  == IF exec = 0 THEN <<>> ELSE SubSeq(cmd, exec, Len(cmd))

Latest(S) == CHOOSE p \in S : \A q \in S : q <= p
Meaning(o, own, text) ==
  LET uses == {p \in 1..own : IsName(text[p], o.name)}
      p    == Latest(uses)
      ok(j) == \A i \in 1..j : Argument(o, text[p + i]).arg /\ Parses(o, text[p + i])
      n    == CHOOSE j \in 0..o.nvars : ok(j) /\ (j = o.nvars \/ ~ok(j + 1))
      one(q) == CHOOSE v \in Argument(o, text[q]).val : TRUE
  IN IF uses = {} THEN o.def
     ELSE IF o.accrue THEN o.def \o [j \in 1..Cardinality(uses) |-> one(SetToSortSeq(uses, <)[j] + 1)]
     ELSE IF n = 0 THEN <<1>>                             \* a flag without a value
     ELSE [j \in 1..n |-> one(p + j)]

\* Once the command line is processed, every option has the value of its last
\* use in the text with the configuration files written out in place (an
\* accruing list all its uses, in order; a flag without a value true), and
\* the simulated program's name is the first argument no option could take.
Effective == status = "done" =>
  LET own  == Len(Before)
      text == Before \o After \o <<Eol>> IN
  \A o \in Range(odb) : SubSeq(vals[o.name].var, 1, vals[o.name].nelt) = Meaning(o, own, text)

\* A file named by -dumpconfig on the command line holds the values the
\* session goes on with, wherever on the line it stands.
DumpFinal == status = "done" =>
  \A d \in dumps : d.session = session /\ d.depth = 0 => files[d.file] = opt_print_options(odb, vals)

\* A session that only loads what an earlier one dumped gets through, and
\* every printed option has the value it was dumped with.
Loads(d) == d.session < session /\ cmd # <<>> /\ Written(cmd, Home) = Written(<<Opt("config"), Path(d.file[1], d.file[2])>>, Home)
RoundTrip == status \in {"done", "fatal"} =>
  \A d \in dumps : Loads(d) =>
    /\ status = "done"
    /\ \A o \in Range(odb) : o.print => SubSeq(vals[o.name].var, 1, vals[o.name].nelt)
                                        = SubSeq(d.vals[o.name].var, 1, d.vals[o.name].nelt)

\* Between the arguments of the command line the simulator is in the
\* directory it was started in, however the configuration files nested.
CwdRestored == status \in {"run", "done"} /\ Len(stack) <= 1 => cwd = Home

\* The processing of options ends, when no configuration file includes
\* itself.
Terminates == (status = "register") ~> (status \in {"done", "fatal"})
=============================================================================
