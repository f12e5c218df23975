--------------------------------- MODULE Eval -------------------------------
(***************************************************************************)
(* The expression evaluator (eval.c) and the two evaluators of identifiers *)
(* it is used with: the statistics' (stats.c) and the debugger's (dlite.c).*)
(*                                                                         *)
(* An expression is a sequence of tokens; its characters matter only where *)
(* they make a token.  A value is a type and an exact number n/d, with     *)
(* d = 1 for the integer types; the rounding of floats is left out.  Two's *)
(* complement wraps as it does on the hosts the simulators are built for.  *)
(***************************************************************************)
EXTENDS Integers, Sequences, FiniteSets

CONSTANTS IntBits, AddrBits, QwordBits,    \* widths of int, md_addr_t and qword_t
          LongBits                         \* width of long on the host

---------------------------------------------------------------------------
(* Values.                                                                 *)

V(t, n, d) == [type |-> t, n |-> n, d |-> d]
err_value  == V("int", 0, 1)

Floating == {"float", "double"}
Signed   == {"int", "sqword"}
Bits(t)  == CASE t \in {"int", "uint"} -> IntBits [] t = "addr" -> AddrBits [] OTHER -> QwordBits

Wrap(t, n) == LET m == n % 2^Bits(t) IN IF t \in Signed /\ m >= 2^(Bits(t) - 1) THEN m - 2^Bits(t) ELSE m
Quot(a, b) == LET q == (IF a < 0 THEN -a ELSE a) \div (IF b < 0 THEN -b ELSE b) IN IF (a < 0) = (b < 0) THEN q ELSE -q

Gcd(a, b) == CHOOSE g \in 1..(a + b) : a % g = 0 /\ b % g = 0 /\ \A k \in (g + 1)..(a + b) : a % k # 0 \/ b % k # 0
Reduce(t, n, d) == LET s == IF d < 0 THEN -1 ELSE 1
                       g == Gcd(IF n < 0 THEN -n ELSE n, s * d)
                   IN V(t, Quot(s * n, g), Quot(s * d, g))
Value(t, n, d) == IF t \in Floating THEN Reduce(t, n, d) ELSE V(t, Wrap(t, n), 1)

\* eval_as_int(), eval_as_uint(), ..., eval_as_double(): by their type.
eval_as(t, v) == IF t \in Floating THEN V(t, v.n, v.d) ELSE V(t, Wrap(t, Quot(v.n, v.d)), 1)

Ranks == <<"double", "float", "qword", "sqword", "addr", "uint", "int">>
result_type(t1, t2) == Ranks[CHOOSE i \in DOMAIN Ranks : Ranks[i] \in {t1, t2} /\ \A j \in 1..(i - 1) : Ranks[j] \notin {t1, t2}]

\* A mutant: int and unsigned int are combined as int.
MutantPair(v1, v2) ==
  LET t == IF {v1.type, v2.type} = {"int", "uint"} THEN "int" ELSE result_type(v1.type, v2.type)
  IN [t |-> t, x |-> eval_as(t, v1), y |-> eval_as(t, v2)]

Pair(v1, v2) == LET t == result_type(v1.type, v2.type) IN [t |-> t, x |-> eval_as(t, v1), y |-> eval_as(t, v2)]

f_add(v1, v2)  == LET q == Pair(v1, v2) IN Value(q.t, q.x.n * q.y.d + q.y.n * q.x.d, q.x.d * q.y.d)
f_sub(v1, v2)  == LET q == Pair(v1, v2) IN Value(q.t, q.x.n * q.y.d - q.y.n * q.x.d, q.x.d * q.y.d)
f_mult(v1, v2) == LET q == Pair(v1, v2) IN Value(q.t, q.x.n * q.y.n, q.x.d * q.y.d)

\* The one quotient of integers that does not fit: the host stops the
\* process with SIGFPE, and no error is set.
Traps(q) == q.t \in Signed /\ q.x.n = -(2^(Bits(q.t) - 1)) /\ q.y.n = -1
f_div(v1, v2) ==
  LET q == Pair(v1, v2) IN
  IF Traps(q) THEN V("trap", 0, 1)
  ELSE IF q.t \in Floating THEN Value(q.t, q.x.n * q.y.d, q.x.d * q.y.n)
  ELSE V(q.t, Wrap(q.t, Quot(q.x.n, q.y.n)), 1)

\* A mutant: the largest unsigned number of an int is promoted, too few are.
MutantNeg(v) ==
  CASE v.type = "uint"  -> Value("int", -v.n, 1)
    [] v.type = "qword" -> Value("sqword", -v.n, 1)
    [] OTHER            -> Value(v.type, -v.n, v.d)

f_neg(v) ==
  CASE v.type = "uint"  -> Value(IF v.n > 2^(IntBits - 1) THEN "sqword" ELSE "int", -v.n, 1)
    [] v.type = "int"   -> Value(IF v.n = -(2^(IntBits - 1)) THEN "uint" ELSE "int", -v.n, 1)
    [] v.type = "qword" -> Value("sqword", -v.n, 1)
    [] OTHER            -> Value(v.type, -v.n, v.d)
f_eq_zero(v) == v.n = 0

---------------------------------------------------------------------------
(* Tokens, and the evaluator's state over them: the next token p, one      *)
(* token of look-ahead, the token last read, and what the functions        *)
(* return.  The kind of a character no token starts with is "invalid",     *)
(* which also marks an empty look-ahead.                                   *)

T(k)       == [k |-> k, n |-> 0, d |-> 1, id |-> ""]
Num(n, d)  == [k |-> "const", n |-> n, d |-> d, id |-> ""]
BadNum     == Num(0, 0)
Id(s)      == [k |-> "ident", n |-> 0, d |-> 1, id |-> s]

get_next_token(s) ==
  IF s.peek # "invalid" THEN [s EXCEPT !.tok = s.peek, !.peek = "invalid"]
  ELSE IF s.p > Len(s.toks) THEN [s EXCEPT !.tok = "eof"]
  ELSE [s EXCEPT !.tok = s.toks[s.p].k, !.buf = s.p, !.p = s.p + 1]

peek_next_token(s) ==
  IF s.peek # "invalid" THEN [s EXCEPT !.tok = s.peek]
  ELSE LET g == get_next_token([s EXCEPT !.lastp = s.p]) IN [g EXCEPT !.peek = g.tok]

Fail(s, e)   == [s EXCEPT !.err = e, !.val = err_value]
Return(s, v) == IF v.type = "trap" THEN Fail(s, "trap") ELSE [s EXCEPT !.val = v]

\* strtol(), strtoul(), myatosq(), myatoq() and strtod() in turn.
constant(s) ==
  LET c == s.toks[s.buf] IN
  IF c.d = 0 THEN Fail(s, "badconst")
  ELSE IF c.d # 1 THEN Return(s, V("double", c.n, c.d))
  ELSE Return(s, CASE c.n < 2^(LongBits - 1)  -> V("int", Wrap("int", c.n), 1)
                   [] c.n \in 2^(LongBits - 1)..(2^LongBits - 1) -> V("uint", Wrap("uint", c.n), 1)
                   [] c.n \in 2^LongBits..(2^(QwordBits - 1) - 1) -> V("sqword", c.n, 1)
                   [] c.n \in 2^LongBits..(2^QwordBits - 1) /\ c.n >= 2^(QwordBits - 1) -> V("qword", c.n, 1)
                   [] OTHER -> V("double", c.n, 1))

RECURSIVE factor(_), term(_), expr(_), eval_expr(_, _, _)

\* A nested formula has an evaluator of its own; what it leaves unused of its
\* text makes its value zero.
Nested(s, toks, r) == [s EXCEPT !.err = r.err, !.val = IF r.err # "" \/ r.endp <= Len(toks) THEN err_value ELSE r.val]
Formula(s, toks) == Nested(s, toks, eval_expr(s.kind, s.env, toks))

\* A mutant: the nested formula is read with the evaluator of the outer one.
MutantStatIdent(s) ==
  LET id == s.toks[s.buf].id IN
  IF id \notin DOMAIN s.env.stats THEN Fail(s, "undefvar")
  ELSE LET e == s.env.stats[id] IN
    CASE e.sc \in {"int", "uint", "float", "double"} -> Return(s, e.val)
      [] e.sc \in {"qword", "sqword"} -> Return(s, eval_as("double", e.val))
      [] e.sc \in {"dist", "sdist"}   -> Fail(s, "fatal")
      [] e.sc = "formula" -> LET r == expr([s EXCEPT !.toks = e.formula, !.p = 1]) IN [r EXCEPT !.toks = s.toks, !.p = s.p]

stat_eval_ident(s) ==
  LET id == s.toks[s.buf].id IN
  IF id \notin DOMAIN s.env.stats THEN Fail(s, "undefvar")
  ELSE LET e == s.env.stats[id] IN
    CASE e.sc \in {"int", "uint", "float", "double"} -> Return(s, e.val)
      [] e.sc \in {"qword", "sqword"} -> Return(s, eval_as("double", e.val))
      [] e.sc \in {"dist", "sdist"}   -> Fail(s, "fatal")
      [] e.sc = "formula"             -> Formula(s, e.formula)

\* A register, else a symbol of the program, else a statistic.
ident_evaluator(s) ==
  LET id == s.toks[s.buf].id IN
  IF id \in DOMAIN s.env.regs THEN Return(s, s.env.regs[id])
  ELSE IF id \in DOMAIN s.env.syms THEN Return(s, V("addr", s.env.syms[id], 1))
  ELSE IF id \notin DOMAIN s.env.stats THEN Fail(s, "undefvar")
  ELSE LET e == s.env.stats[id] IN
    CASE e.sc \in {"int", "uint", "qword", "float", "double"} -> Return(s, e.val)
      [] e.sc \in {"dist", "sdist"} -> Fail(s, "badexpr")
      [] e.sc = "formula"           -> Formula(s, e.formula)
      [] OTHER                      -> Fail(s, "panic")

f_eval_ident(s) == IF s.kind = "stat" THEN stat_eval_ident(s) ELSE ident_evaluator(s)

\* After the expression in parentheses.
Close(e) ==
  IF e.err # "" THEN e
  ELSE IF peek_next_token(e).tok # ")" THEN Fail(peek_next_token(e), "uparen") ELSE get_next_token(peek_next_token(e))

Minus(f) == IF f.err # "" THEN f ELSE Return(f, f_neg(f.val))

\* By the token that is next.
FactorOf(s) ==
  CASE s.tok = "("     -> Close(expr(get_next_token(s)))
    [] s.tok = "-"     -> Minus(factor(get_next_token(s)))
    [] s.tok = "ident" -> f_eval_ident(get_next_token(s))
    [] s.tok = "const" -> constant(get_next_token(s))
    [] OTHER           -> Fail(s, "noterm")
factor(s) == FactorOf(peek_next_token(s))

\* The operation, if the right operand has a value.
Multiplicative(f, op, r) ==
  CASE r.err # "" -> r
    [] r.err = "" /\ op = "*" -> Return(r, f_mult(f.val, r.val))
    [] r.err = "" /\ op = "/" -> IF f_eq_zero(r.val) THEN Fail(r, "div0") ELSE Return(r, f_div(f.val, r.val))
Additive(f, op, r) ==
  CASE r.err # "" -> r
    [] r.err = "" /\ op = "+" -> Return(r, f_add(f.val, r.val))
    [] r.err = "" /\ op = "-" -> Return(r, f_sub(f.val, r.val))

\* A mutant: the right operand is a factor, the rest of the term is left.
MutantTermTail(f, s) ==
  IF f.err # "" THEN f
  ELSE IF s.tok \notin {"*", "/"} THEN s ELSE Multiplicative(f, s.tok, factor(get_next_token(s)))

\* f is the left operand and s the state with the token after it.
TermTail(f, s) ==
  IF f.err # "" THEN f
  ELSE IF s.tok \notin {"*", "/"} THEN s ELSE Multiplicative(f, s.tok, term(get_next_token(s)))
TermOf(f) == TermTail(f, peek_next_token(f))
term(s) == TermOf(factor(s))

ExprTail(f, s) ==
  IF f.err # "" THEN f
  ELSE IF s.tok \notin {"+", "-"} THEN s ELSE Additive(f, s.tok, expr(get_next_token(s)))
ExprOf(f) == ExprTail(f, peek_next_token(f))
expr(s) == ExprOf(term(s))

Used(r) == [val |-> r.val, err |-> r.err, endp |-> IF r.peek # "invalid" THEN r.lastp ELSE r.p]
eval_expr(kind, env, toks) ==
  Used(expr([toks |-> toks, p |-> 1, peek |-> "invalid", lastp |-> 1, buf |-> 0, tok |-> "invalid",
             err |-> "", val |-> err_value, env |-> env, kind |-> kind]))

---------------------------------------------------------------------------
(* What an expression means, by the grammar of dlite.h:84-90:              *)
(*   expr <- factor +|- expr,  factor <- term *|/ factor,                  *)
(*   term <- ( expr ) | - term | const | symbol                            *)
(* as the set of the values of its derivations.  NoVal is the value of one *)
(* that divides by zero or has no value otherwise, Trap of one with the    *)
(* integer quotient that does not fit; of two operands the left one counts.*)

NoVal == V("none", 0, 1)
Trap  == V("trap", 0, 1)
Valueless == {NoVal, Trap}

\* C's conversions: the operands in the type that holds both, the exact
\* result cut to an integer and wrapped where the type is one.
Apply(op, a, b) ==
  IF a \in Valueless THEN a ELSE IF b \in Valueless THEN b
  ELSE IF op = "/" /\ b.n = 0 THEN NoVal
  ELSE LET t == result_type(a.type, b.type)
           in(v) == IF t \in Floating THEN <<v.n, v.d>> ELSE <<Wrap(t, v.n), 1>>
           x == in(a)
           y == in(b)
           n == CASE op = "+" -> x[1] * y[2] + y[1] * x[2] [] op = "-" -> x[1] * y[2] - y[1] * x[2]
                  [] op = "*" -> x[1] * y[1] [] op = "/" -> x[1] * y[2]
           d == IF op = "/" THEN x[2] * y[1] ELSE x[2] * y[2]
       IN IF t \in Floating THEN Reduce(t, n, d)
          ELSE IF op = "/" /\ Quot(n, d) # Wrap(t, Quot(n, d)) THEN Trap
          ELSE V(t, Wrap(t, Quot(n, d)), 1)

\* The negation of an int or unsigned int is exact, in the first type that holds it.
Holds(t, n) == n = Wrap(t, n)
Negate(a) ==
  CASE a \in Valueless -> a
    [] a.type \in {"int", "uint"} -> V(IF Holds("int", -a.n) THEN "int" ELSE IF Holds("uint", -a.n) THEN "uint" ELSE "sqword", -a.n, 1)
    [] a.type \in Floating -> V(a.type, -a.n, a.d)
    [] OTHER -> LET t == IF a.type = "qword" THEN "sqword" ELSE a.type IN V(t, Wrap(t, -a.n), 1)

\* The value of a number, in the first type that holds it.
Literal(c) ==
  IF c.d = 0 THEN NoVal
  ELSE LET t == CASE c.d # 1 -> "double" [] Holds("int", c.n) -> "int" [] Holds("uint", c.n) -> "uint"
                  [] Holds("sqword", c.n) -> "sqword" [] Holds("qword", c.n) -> "qword" [] OTHER -> "double"
       IN V(t, c.n, c.d)

RECURSIVE RefExpr(_, _), RefFactor(_, _), RefTerm(_, _)

Part(ts, a, b) == SubSeq(ts, a, b)
Name(id, names) == IF id \in DOMAIN names THEN names[id] ELSE NoVal

RefTerm(ts, names) ==
  LET n == Len(ts) IN
  (IF n >= 3 /\ ts[1].k = "(" /\ ts[n].k = ")" THEN RefExpr(Part(ts, 2, n - 1), names) ELSE {})
  \cup (IF n >= 2 /\ ts[1].k = "-" THEN {Negate(a) : a \in RefTerm(Tail(ts), names)} ELSE {})
  \cup (IF n = 1 /\ ts[1].k = "const" THEN {Literal(ts[1])} ELSE {})
  \cup (IF n = 1 /\ ts[1].k = "ident" THEN {Name(ts[1].id, names)} ELSE {})

RefFactor(ts, names) ==
  RefTerm(ts, names) \cup UNION {
    {Apply(ts[k].k, a, b) : a \in RefTerm(Part(ts, 1, k - 1), names), b \in RefFactor(Part(ts, k + 1, Len(ts)), names)}
      : k \in {j \in 2..(Len(ts) - 1) : ts[j].k \in {"*", "/"}}}

RefExpr(ts, names) ==
  RefFactor(ts, names) \cup UNION {
    {Apply(ts[k].k, a, b) : a \in RefFactor(Part(ts, 1, k - 1), names), b \in RefExpr(Part(ts, k + 1, Len(ts)), names)}
      : k \in {j \in 2..(Len(ts) - 1) : ts[j].k \in {"+", "-"}}}
=============================================================================
