------------------------------ MODULE Numbers ------------------------------
(* Sums and powers, how many characters a number takes, and what a numeral     *)
(* stands for.                                                                 *)
EXTENDS Integers, FiniteSets, Sequences

\* w[1] + ... + w[n]
SumTo(w, n) == LET sum[i \in 0..n] == IF i = 0 THEN 0 ELSE sum[i - 1] + w[i] IN sum[n]

Pow(b, n) == LET p[m \in 0..n] == IF m = 0 THEN 1 ELSE b * p[m - 1] IN p[n]

\* One more for every power of ten it reaches; an int reaches the ninth at most.
Tens == <<10, 100, 1000, 10000, 100000, 1000000, 10000000, 100000000, 1000000000>>
Digits(n) == 1 + Cardinality({w \in 1..9 : n >= Tens[w]})

\* The last n decimal digits of j, zeros and all.
LastDigits(j, n) == [d \in 1..n |-> (j \div Pow(10, n - d)) % 10]

IsNumeral(s) == Len(s) > 0 /\ \A d \in 1..Len(s) : s[d] \in 0..9
ValueOf(s) == LET v[d \in 0..Len(s)] == IF d = 0 THEN 0 ELSE 10 * v[d - 1] + s[d] IN v[Len(s)]
=============================================================================
