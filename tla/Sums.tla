--------------------------------- MODULE Sums ---------------------------------
(***************************************************************************)
(* Totals, as the code takes them with iter().sum().                       *)
(***************************************************************************)
EXTENDS Integers, Functions

\* The sum of the values of h, a function with a finite domain.
SumOf(h) == FoldFunction(+, 0, h)
===============================================================================
