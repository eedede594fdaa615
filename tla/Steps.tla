-------------------------------- MODULE Steps -------------------------------
(* Folds over sequences for the modules that TLC evaluates over long ones.    *)
EXTENDS Naturals, Sequences

(* f of the value of x.  As the element of a set x is evaluated once, as the  *)
(* argument of an operator wherever it is used.                               *)
Given(x, f(_)) == CHOOSE y \in {f(v): v \in {x}}: TRUE

(* FoldLeft, each intermediate result computed once, and by halves, so that   *)
(* TLC's recursion stays shallow.                                             *)
Steps(op(_, _), base, s) ==
  LET RECURSIVE go(_, _, _)
      go(acc, lo, hi) ==
        CASE lo > hi -> acc
          [] lo = hi -> Given(acc, LAMBDA a: op(a, s[lo]))
          [] OTHER -> LET mid == (lo + hi) \div 2
                      IN  Given(go(acc, lo, mid), LAMBDA a: go(a, mid + 1, hi))
  IN  go(base, 1, Len(s))

Sum(f(_), s) == Steps(LAMBDA n, x: n + f(x), 0, s)

Upto(n) == [i \in 1 .. n |-> i]

Concat(f(_), s) == Steps(LAMBDA acc, x: acc \o f(x), <<>>, s)
=============================================================================
