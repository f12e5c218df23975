------------------------------- MODULE Ranges -------------------------------
(***************************************************************************)
(* Execution ranges (range.c): a stretch of addresses, of instruction      *)
(* counts or of cycles, as the debugger, the pipetrace and the statistics  *)
(* use it.  The text of an end is its mark, "@", "#", "+" or "", and what  *)
(* follows: the digits of a number, or a name.  None is the empty text.    *)
(***************************************************************************)
EXTENDS Integers

CONSTANTS Far,      \* the position no execution reaches, end of an open range
          Symbols   \* the program's symbols and their addresses

Text(mark, n)    == [mark |-> mark, n |-> n, name |-> ""]
Name(mark, s)    == [mark |-> mark, n |-> 0, name |-> s]
None             == Name("none", "none")

At(a)   == [t |-> "addr", v |-> a]
Unbound == [t |-> "none", v |-> 0]

range_parse_pos(p) ==
  LET t == CASE p.mark = "@" -> "addr" [] p.mark = "#" -> "cycle" [] OTHER -> "inst"
  IN IF p.name = "" THEN [t |-> t, v |-> p.n]
     ELSE IF p.name \in DOMAIN Symbols THEN [t |-> t, v |-> Symbols[p.name]] ELSE Unbound

Delta(start, p) == IF p.name = "" THEN [t |-> start.t, v |-> start.v + p.n] ELSE Unbound

range_parse_range(from, to) ==
  LET start == IF from = None THEN [t |-> "inst", v |-> 0] ELSE range_parse_pos(from)
      end   == CASE to = None     -> [t |-> start.t, v |-> Far]
                 [] to.mark = "+" -> Delta(start, to)
                 [] OTHER         -> range_parse_pos(to)
  IN [ok |-> Unbound \notin {start, end}, start |-> start, end |-> end]

range_cmp_range(r, val) == IF val < r.start.v THEN -1 ELSE IF val <= r.end.v THEN 0 ELSE 1

range_cmp_range1(r, addr, icount, cycle) ==
  range_cmp_range(r, CASE r.start.t = "addr" -> addr [] r.start.t = "inst" -> icount [] r.start.t = "cycle" -> cycle)
=============================================================================
