------------------------------ MODULE MCFigures -----------------------------
(***************************************************************************)
(* What the simulators compute for their user: the value of an expression  *)
(* typed token by token into the debugger's print command, and the         *)
(* statistics.  A behaviour is about one of them; the variables of the     *)
(* other are Off.                                                          *)
(***************************************************************************)
EXTENDS Stats

CONSTANT Parts      \* "expression", "statistics"

VARIABLES
    part,
    alphabet,       \* [tokens, max]: what may be typed, and how much of it
    typed

ofStats == <<sim, phase, stats, var, arr, overflows, sarr, pcstat, insns, added, pending, printed>>
allVars == <<part, alphabet, typed, ofStats>>

Off == "off"
-----------------------------------------------------------------------------
Stat(sc, v) == [sc |-> sc, val |-> v, formula |-> <<>>]
Counted == [n \in {"i", "f", "q"} |->
              CASE n = "i" -> Stat("int", V("int", -(2^(IntBits - 1)), 1)) [] n = "f" -> Stat("float", V("float", 3, 2))
                [] n = "q" -> Stat("qword", V("qword", 2^QwordBits - 1, 1))]
Env == [regs |-> [r \in {"$r"} |-> V("uint", 2^IntBits - 1, 1)], syms |-> [s \in {"main"} |-> 2^AddrBits - 2],
        stats |-> Counted]
Names == [n \in {"$r", "main", "i", "f", "q"} |->
            CASE n = "$r" -> Env.regs[n] [] n = "main" -> V("addr", Env.syms[n], 1) [] OTHER -> Env.stats[n].val]

\* Nesting and the order of operators; every type against every other; and a
\* character that no token starts with.
Operators == {T(k) : k \in {"+", "-", "*", "/", "(", ")"}}
Alphabets == {[tokens |-> Operators \cup {Num(2, 1), Num(0, 1), Num(1, 2), Id("i")}, max |-> 6],
              [tokens |-> {T("+"), T("-"), T("/")} \cup {Num(k, 1) : k \in {1, 7, 8, 15, 16, 31, 32, 63, 64}}
                          \cup {Num(3, 2), BadNum} \cup {Id(s) : s \in {"$r", "main", "i", "f", "q", "nothing"}},
               max |-> 4],
              [tokens |-> {T(k) : k \in {"+", "*", "-", "(", ")", "invalid"}} \cup {Num(2, 1), Num(3, 1)}, max |-> 6]}

Type == Len(typed) < alphabet.max /\ \E t \in alphabet.tokens : typed' = Append(typed, t)

\* A simulator that samples distributions and one with formulas over counters.
Decl(name, sc, init, size, bucket, f) ==
    [name |-> name, sc |-> sc, init |-> init, size |-> size, bucket |-> bucket, formula |-> f]
Counter(name, sc, init) == Decl(name, sc, init, 0, 1, <<>>)
Formulated(name, f) == Decl(name, "formula", 0, 0, 1, f)
Distributions ==
    {Counter("cnt", "sqword", 1), Counter("n", "uint", 2), Decl("wide", "dist", 1, 2, 2, <<>>),
     Decl("sparse", "sdist", 1, 0, 1, <<>>), Formulated("f", <<Id("wide"), T("+"), Num(1, 1)>>)}
Rates ==
    {Counter("c", "sqword", 0), Counter("t", "int", 1), Formulated("rate", <<Id("c"), T("/"), Id("t")>>),
     Formulated("gain", <<Num(5, 2), T("-"), Id("rate"), T("*"), Num(3, 1)>>),
     Formulated("lost", <<T("-"), Id("rate"), T("/"), Id("c")>>), Formulated("bad", <<Num(2, 1), T("*")>>)}
MCSimulators ==
    {[decls |-> Distributions, tracked |-> <<"n", "cnt">>, pcs |-> {0, 2}, indexes |-> {0, 3, 4}, counts |-> {1, 14}, max |-> 3],
     [decls |-> Rates, tracked |-> <<>>, pcs |-> {0}, indexes |-> {0}, counts |-> {1, 2}, max |-> 2]}
-----------------------------------------------------------------------------
StatsOff ==
    /\ sim = Off /\ phase = Off /\ stats = Off /\ var = Off /\ arr = Off /\ overflows = Off /\ sarr = Off
    /\ pcstat = Off /\ insns = Off /\ added = Off /\ pending = Off /\ printed = Off

AllInit ==
    /\ part \in Parts
    /\ \/ part = "expression" /\ alphabet \in Alphabets /\ typed = <<>> /\ StatsOff
       \/ part = "statistics" /\ Init /\ alphabet = Off /\ typed = Off

AllNext ==
    \/ part = "expression" /\ Type /\ UNCHANGED <<part, alphabet, ofStats>>
    \/ part = "statistics" /\ Next /\ UNCHANGED <<part, alphabet, typed>>

AllSpec == AllInit /\ [][AllNext]_allVars
-----------------------------------------------------------------------------
\* The text used, but for the characters that are not recognised.
UsedText(r) == SelectSeq(SubSeq(typed, 1, r.endp - 1), LAMBDA t : t.k # "invalid")

Agrees(r, all) ==
    /\ r.err = "" => r.val \in RefExpr(UsedText(r), Names)
    /\ all # {} => CASE all = {NoVal} -> r.err \notin {"", "trap"}
                     [] all = {Trap} -> r.err = "trap"
                     [] OTHER -> r.err = "" /\ r.endp = Len(typed) + 1

\* An expression has the value of the documented grammar (dlite.h:84), an error
\* is reported where there is none, the host stops the process for the one
\* integer quotient that does not fit and for nothing else, and what is not
\* used is handed back; characters that are not recognised count for nothing
\* in the text that is used.
Documented == part = "expression" => Agrees(eval_expr("dlite", Env, typed), RefExpr(typed, Names))

\* A distribution prints every sample in its row, a profile by address every
\* increment sampled there as long as the count fits, and a formula over
\* formulas has the value of the expression with their texts put in.
StatisticsExact == RowsExact /\ FormulaInlined
=============================================================================
