-------------------------------- MODULE Suites --------------------------------
(* A sequence taken out of the numbers 1..n: what a loop over a list keeps. *)
EXTENDS Integers, Sequences

\* The members of P among 1..n, in order.
EnOrdre(n, P) ==
  LET jusque[i \in 0..n] ==
        IF i = 0 THEN <<>>
        ELSE IF i \in P THEN Append(jusque[i - 1], i) ELSE jusque[i - 1]
  IN jusque[n]
===============================================================================
