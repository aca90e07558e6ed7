----------------------------- MODULE Induction -----------------------------
(***************************************************************************)
(* Induction over the numbers as facts about sets of them, and what it     *)
(* gives for functions that are defined by recursion: those of Sums.       *)
(***************************************************************************)
EXTENDS Numbers, WellFoundedInduction, FiniteSetTheorems, TLAPS

\* A set of numbers has a least one.
LEMMA Least ==
    ASSUME NEW S \in SUBSET Nat, S # {}
    PROVE  \E x \in S : \A y \in S : x <= y
<1> DEFINE R == {ss \in Nat \X Nat : ss[1] < ss[2]}
<1>1. \E x \in S : \A y \in S : ~(<<y, x>> \in R)
  <2>1. IsWellFoundedOn(R, Nat)
    BY NatLessThanWellFounded DEF OpToRel
  <2> HIDE DEF R
  <2> QED BY <2>1, WFMin
<1>2. \A x, y \in Nat : <<y, x>> \in R <=> y < x
  OBVIOUS
<1> HIDE DEF R
<1>3. PICK x \in S : \A y \in S : ~(<<y, x>> \in R)
  BY <1>1
<1>4. \A y \in S : x <= y
  <2> TAKE y \in S
  <2>1. x \in Nat /\ y \in Nat /\ ~(y < x)
    BY <1>2, <1>3
  <2> QED BY <2>1
<1> QED BY <1>4

\* And one below a bound a greatest.
LEMMA Greatest ==
    ASSUME NEW n \in Nat, NEW S \in SUBSET (0..n), S # {}
    PROVE  \E x \in S : \A y \in S : x >= y
<1> DEFINE T == {k \in Nat : k <= n /\ n - k \in S}
<1>1. T \in SUBSET Nat /\ T # {}
  <2>1. PICK x \in S : TRUE
    OBVIOUS
  <2>2. x \in Nat /\ n - x \in Nat /\ n - x <= n /\ n - (n - x) = x
    OBVIOUS
  <2> QED BY <2>1, <2>2
<1>2. PICK k \in T : \A j \in T : k <= j
  <2> HIDE DEF T
  <2> QED BY <1>1, Least
<1>3. ASSUME NEW y \in S PROVE n - k >= y
  <2>1. y \in Nat /\ n - y \in Nat /\ n - y <= n /\ n - (n - y) = y
    OBVIOUS
  <2>2. k <= n - y
    BY <1>2, <2>1
  <2> QED BY <2>1, <2>2
<1> QED BY <1>2, <1>3

\* Induction: what holds of 0 and goes on to the next number holds of all.
LEMMA Inductive ==
    ASSUME NEW S, 0 \in S, \A n \in Nat : n \in S => n + 1 \in S
    PROVE  Nat \subseteq S
<1> DEFINE T == Nat \ S
<1>1. SUFFICES ASSUME T # {} PROVE FALSE
  OBVIOUS
<1>2. PICK x \in T : \A y \in T : x <= y
  BY <1>1, Least
<1>3. x \in Nat /\ x # 0 /\ x \notin S
  BY <1>2
<1>4. (x - 1) \in Nat /\ (x - 1) + 1 = x /\ ~(x <= x - 1)
  BY <1>3
<1>5. x - 1 \in S
  BY <1>2, <1>4
<1> QED BY <1>3, <1>4, <1>5

\* The functions that one turn after the other makes on 0..k.
Made(V, a, turn, k) == {f \in [0..k -> V] : f[0] = a /\ \A m \in 1..k : f[m] = turn[m][f[m - 1]]}

LEMMA MadeFirst ==
    ASSUME NEW V, NEW a \in V, NEW turn
    PROVE  Made(V, a, turn, 0) # {}
<1>1. [m \in 0..0 |-> a] \in Made(V, a, turn, 0)
  BY DEF Made
<1> QED BY <1>1

LEMMA MadeNext ==
    ASSUME NEW V, NEW a \in V, NEW n \in Nat, NEW turn \in [1..n -> [V -> V]],
           NEW k \in Nat, k + 1 <= n, Made(V, a, turn, k) # {}
    PROVE  Made(V, a, turn, k + 1) # {}
<1>1. PICK f \in Made(V, a, turn, k) : TRUE
  OBVIOUS
<1>2. /\ f \in [0..k -> V] /\ f[0] = a
      /\ \A m \in 1..k : f[m] = turn[m][f[m - 1]]
  BY <1>1 DEF Made
<1> DEFINE new == turn[k + 1][f[k]]
           g == [m \in 0..(k + 1) |-> IF m = k + 1 THEN new ELSE f[m]]
<1>3. k + 1 \in 1..n /\ f[k] \in V
  BY <1>2
<1>4. new \in V
  BY <1>3
<1>5. \A m \in 1..(k + 1) : m = k + 1 \/ (m \in 1..k /\ m - 1 \in 0..k /\ m \in 0..k)
  OBVIOUS
<1> HIDE DEF new
<1>6. g \in [0..(k + 1) -> V] /\ g[0] = a
  BY <1>2, <1>4
<1>7. ASSUME NEW m \in 1..(k + 1) PROVE g[m] = turn[m][g[m - 1]]
  <2>1. CASE m = k + 1
    <3>1. g[m] = new /\ g[m - 1] = f[k]
      BY <2>1
    <3> QED BY <2>1, <3>1 DEF new
  <2>2. CASE m # k + 1
    <3>1. m \in 1..k /\ g[m] = f[m] /\ g[m - 1] = f[m - 1]
      BY <2>2
    <3> QED BY <1>2, <3>1
  <2> QED BY <2>1, <2>2
<1> HIDE DEF g
<1>8. g \in Made(V, a, turn, k + 1)
  BY <1>6, <1>7 DEF Made
<1> QED BY <1>8

\* A function on 0..n can be made one turn after the other.
Turns(V, n) == [1..n -> [V -> V]]

LEMMA Recursion ==
    ASSUME NEW V, NEW a, NEW n, NEW turn, a \in V, n \in Nat, turn \in Turns(V, n)
    PROVE  Made(V, a, turn, n) # {}
<1> DEFINE S == {k \in Nat : k <= n => Made(V, a, turn, k) # {}}
<1> USE DEF Turns
<1>1. 0 \in S
  BY MadeFirst
<1>2. ASSUME NEW k \in Nat, k \in S PROVE k + 1 \in S
  <2>1. k + 1 <= n => k <= n
    OBVIOUS
  <2> QED BY <1>2, <2>1, MadeNext
<1>3. n \in S
  <2> HIDE DEF S
  <2> QED BY <1>1, <1>2, Inductive
<1> QED BY <1>3

\* And what follows the same steps stays where they lead.
LEMMA Typed ==
    ASSUME NEW V, NEW n \in Nat, NEW u, u[0] \in V,
           \A i \in 1..n : u[i - 1] \in V => u[i] \in V
    PROVE  \A i \in 0..n : u[i] \in V
<1> DEFINE T == {i \in Nat : i <= n => u[i] \in V}
<1>1. 0 \in T
  OBVIOUS
<1>2. ASSUME NEW i \in Nat, i \in T PROVE i + 1 \in T
  <2>1. i + 1 <= n => i + 1 \in 1..n /\ (i + 1) - 1 = i /\ i <= n
    OBVIOUS
  <2> QED BY <1>2, <2>1
<1>3. Nat \subseteq T
  <2> HIDE DEF T
  <2> QED BY <1>1, <1>2, Inductive
<1> QED BY <1>3

\* What adds up the numbers of w.
Adds(u, w, n) == u[0] = 0 /\ \A i \in 1..n : u[i] = u[i - 1] + w[i]

\* There is one of them only.
LEMMA AddsOnce ==
    ASSUME NEW w, NEW n \in Nat, NEW u, NEW v, Adds(u, w, n), Adds(v, w, n)
    PROVE  \A i \in 0..n : u[i] = v[i]
<1> USE DEF Adds
<1> DEFINE T == {i \in Nat : i <= n => u[i] = v[i]}
<1>1. 0 \in T
  OBVIOUS
<1>2. ASSUME NEW i \in Nat, i \in T PROVE i + 1 \in T
  <2>1. i + 1 <= n => i + 1 \in 1..n /\ (i + 1) - 1 = i /\ i <= n
    OBVIOUS
  <2> QED BY <1>2, <2>1
<1>3. Nat \subseteq T
  <2> HIDE DEF T
  <2> QED BY <1>1, <1>2, Inductive
<1> QED BY <1>3

-----------------------------------------------------------------------------
(* Sums *)

LEMMA SumSteps ==
    ASSUME NEW w, NEW n \in Nat, \A i \in 1..n : w[i] \in Nat
    PROVE  \E u : SumTo(w, n) = u[n] /\ Adds(u, w, n)
<1> DEFINE V == Nat
           none == 0
           turn == [m \in 1..n |-> [v \in V |-> v + w[m]]]
           F(g) == [i \in 0..n |-> IF i = 0 THEN 0 ELSE g[i - 1] + w[i]]
           u == CHOOSE g : g = F(g)
<1>1. none \in V /\ \A i \in 1..n : \A v \in V : v + w[i] \in V
  OBVIOUS
<1>2. turn \in Turns(V, n)
  <2> HIDE DEF V
  <2> QED BY <1>1 DEF Turns
<1>3. \A m \in 1..n : \A v \in V : turn[m][v] = v + w[m]
  <2> HIDE DEF V
  <2> QED OBVIOUS
<1>4. PICK f \in Made(V, none, turn, n) : TRUE
  <2> HIDE DEF V, none, turn, F, u
  <2>1. n \in Nat /\ none \in V
    BY <1>1
  <2> QED BY <1>2, <2>1, Recursion
<1>5. f \in [0..n -> V] /\ f[0] = none /\ \A m \in 1..n : f[m] = turn[m][f[m - 1]]
  <2> HIDE DEF V, none, turn, F, u
  <2> QED BY <1>4 DEF Made
<1>6. \A m \in 1..n : m - 1 \in 0..n /\ f[m - 1] \in V
  <2> HIDE DEF V
  <2> QED BY <1>1, <1>5
<1>7. \A m \in 1..n : f[m] = f[m - 1] + w[m]
  BY <1>3, <1>5, <1>6, Zenon
<1>8. f = F(f)
  <2>1. f = [i \in 0..n |-> f[i]]
    <3> HIDE DEF V
    <3> QED BY <1>5
  <2>2. \A i \in 0..n : i = 0 \/ i \in 1..n
    OBVIOUS
  <2>3. \A i \in 0..n : f[i] = IF i = 0 THEN 0 ELSE f[i - 1] + w[i]
    BY <1>5, <1>7, <2>2, Zenon DEF none
  <2> QED BY <2>1, <2>3, Zenon
<1>9. u = F(u)
  BY <1>8, Zenon
<1>10. SumTo(w, n) = u[n]
  BY DEF SumTo
<1> HIDE DEF u
<1>11. \A i \in 1..n : u[i] = u[i - 1] + w[i]
  <2> TAKE i \in 1..n
  <2>1. i \in 0..n /\ i # 0
    OBVIOUS
  <2>2. u[i] = F(u)[i]
    BY <1>9, Zenon
  <2> QED BY <2>1, <2>2, Zenon
<1>12. u[0] = 0
  <2>1. 0 \in 0..n
    OBVIOUS
  <2>2. u[0] = F(u)[0]
    BY <1>9, Zenon
  <2> QED BY <2>1, <2>2, Zenon
<1> QED BY <1>10, <1>11, <1>12, Zenon DEF Adds

LEMMA SumType ==
    ASSUME NEW w, NEW n \in Nat, \A i \in 1..n : w[i] \in Nat
    PROVE  SumTo(w, n) \in Nat
<1>1. PICK u : SumTo(w, n) = u[n] /\ Adds(u, w, n)
  BY SumSteps
<1>2. u[0] \in Nat /\ \A i \in 1..n : u[i - 1] \in Nat => u[i] \in Nat
  BY <1>1 DEF Adds
<1>3. \A i \in 0..n : u[i] \in Nat
  BY <1>2, Typed, Zenon
<1>4. n \in 0..n
  OBVIOUS
<1> QED BY <1>1, <1>3, <1>4

\* The sum of what is equal is equal.
LEMMA SumSame ==
    ASSUME NEW w, NEW x, NEW n \in Nat, \A i \in 1..n : w[i] \in Nat /\ x[i] = w[i]
    PROVE  SumTo(x, n) = SumTo(w, n)
<1>1. PICK u : SumTo(w, n) = u[n] /\ Adds(u, w, n)
  BY SumSteps
<1>2. \A i \in 1..n : x[i] \in Nat
  OBVIOUS
<1>3. PICK v : SumTo(x, n) = v[n] /\ Adds(v, x, n)
  BY <1>2, SumSteps
<1>4. Adds(v, w, n)
  BY <1>3 DEF Adds
<1>5. \A i \in 0..n : u[i] = v[i]
  BY <1>1, <1>4, AddsOnce
<1>6. n \in 0..n
  OBVIOUS
<1> QED BY <1>1, <1>3, <1>5, <1>6

LEMMA SumFirst == ASSUME NEW w PROVE SumTo(w, 0) = 0
<1>1. PICK u : SumTo(w, 0) = u[0] /\ Adds(u, w, 0)
  BY SumSteps
<1> QED BY <1>1 DEF Adds

LEMMA SumNext ==
    ASSUME NEW w, NEW n \in Nat, \A i \in 1..(n + 1) : w[i] \in Nat
    PROVE  SumTo(w, n + 1) = SumTo(w, n) + w[n + 1]
<1>1. n + 1 \in Nat
  OBVIOUS
<1>2. PICK v : SumTo(w, n + 1) = v[n + 1] /\ Adds(v, w, n + 1)
  BY <1>1, SumSteps
<1>3. \A i \in 1..n : w[i] \in Nat /\ i \in 1..(n + 1)
  OBVIOUS
<1>4. PICK u : SumTo(w, n) = u[n] /\ Adds(u, w, n)
  BY <1>3, SumSteps
<1>5. Adds(v, w, n)
  BY <1>2, <1>3 DEF Adds
<1>6. \A i \in 0..n : u[i] = v[i]
  BY <1>4, <1>5, AddsOnce
<1>7. n \in 0..n /\ n + 1 \in 1..(n + 1) /\ (n + 1) - 1 = n
  OBVIOUS
<1> QED BY <1>2, <1>4, <1>6, <1>7 DEF Adds

\* The more is added the greater the sum.
LEMMA SumGrows ==
    ASSUME NEW w, NEW n \in Nat, \A i \in 1..n : w[i] \in Nat, NEW m \in 0..n
    PROVE  SumTo(w, m) <= SumTo(w, n)
<1> DEFINE T == {i \in Nat : m + i <= n => SumTo(w, m) <= SumTo(w, m + i)}
<1>1. m \in Nat /\ \A j \in 0..n : SumTo(w, j) \in Nat
  <2>1. ASSUME NEW j \in 0..n PROVE SumTo(w, j) \in Nat
    <3>1. j \in Nat /\ \A i \in 1..j : w[i] \in Nat
      OBVIOUS
    <3> QED BY <3>1, SumType
  <2> QED BY <2>1
<1>2. 0 \in T
  BY <1>1
<1>3. ASSUME NEW i \in Nat, i \in T PROVE i + 1 \in T
  <2>1. SUFFICES ASSUME m + (i + 1) <= n PROVE SumTo(w, m) <= SumTo(w, m + (i + 1))
    OBVIOUS
  <2>2. m + i \in Nat /\ m + i \in 0..n /\ m + i <= n /\ m + (i + 1) = (m + i) + 1
        /\ (m + i) + 1 \in 1..n
    BY <1>1, <2>1
  <2>3. \A j \in 1..((m + i) + 1) : w[j] \in Nat
    BY <2>2
  <2>4. SumTo(w, (m + i) + 1) = SumTo(w, m + i) + w[(m + i) + 1]
    BY <2>2, <2>3, SumNext
  <2>5. SumTo(w, m) <= SumTo(w, m + i)
    BY <1>3, <2>2
  <2>6. SumTo(w, m) \in Nat /\ SumTo(w, m + i) \in Nat /\ w[(m + i) + 1] \in Nat
    BY <1>1, <2>2
  <2>7. SumTo(w, m) <= SumTo(w, (m + i) + 1)
    BY <2>4, <2>5, <2>6
  <2> QED BY <2>2, <2>7
<1>4. Nat \subseteq T
  <2> HIDE DEF T
  <2> QED BY <1>2, <1>3, Inductive
<1>5. n - m \in T
  BY <1>4
<1>6. m + (n - m) = n
  OBVIOUS
<1> QED BY <1>5, <1>6

\* No int takes more than ten characters.
LEMMA DigitsBound == \A n : Digits(n) \in 1..10
<1> TAKE n
<1> DEFINE W == {w \in 1..9 : n >= Tens[w]}
<1>1. IsFiniteSet(1..9) /\ Cardinality(1..9) = 9
  <2>1. \A a, b \in Int : IsFiniteSet(a..b) /\ Cardinality(a..b) = IF a > b THEN 0 ELSE b - a + 1
    BY FS_Interval, Zenon
  <2>2. 1 \in Int /\ 9 \in Int /\ (IF 1 > 9 THEN 0 ELSE 9 - 1 + 1) = 9
    OBVIOUS
  <2> QED BY <2>1, <2>2, Zenon
<1>2. W \subseteq 1..9
  OBVIOUS
<1>3. Digits(n) = 1 + Cardinality(W)
  BY DEF Digits
<1> HIDE DEF W
<1>4. IsFiniteSet(W) /\ Cardinality(W) <= 9
  BY <1>1, <1>2, FS_Subset
<1>5. Cardinality(W) \in Nat
  BY <1>4, FS_CardinalityType
<1> QED BY <1>3, <1>4, <1>5

-----------------------------------------------------------------------------
(* Division *)

LEMMA Product ==
    ASSUME NEW a \in Int, NEW c \in Nat \ {0}, NEW d \in Int, a > d
    PROVE  a * c >= d * c + c
<1>1. a - d - 1 \in Nat
  OBVIOUS
<1>2. (a - d - 1) * c \in Nat
  BY <1>1
<1> QED BY <1>2

LEMMA DivBounds ==
    ASSUME NEW j \in Nat, NEW b \in Nat \ {0}
    PROVE  j \div b \in Nat /\ b * (j \div b) <= j /\ j < b * (j \div b) + b
  OBVIOUS

\* Nothing else is a quotient.
LEMMA DivOnly ==
    ASSUME NEW j \in Nat, NEW b \in Nat \ {0}, NEW r \in Nat, b * r <= j, j < b * r + b
    PROVE  j \div b = r
<1> DEFINE q == j \div b
<1>1. q \in Nat /\ b * q <= j /\ j < b * q + b
  BY DivBounds
<1> HIDE DEF q
<1>2. ~(q < r)
  <2> SUFFICES ASSUME q < r PROVE FALSE
    OBVIOUS
  <2>1. r * b >= q * b + b
    BY <1>1, Product
  <2> QED BY <1>1, <2>1
<1>3. ~(q > r)
  <2> SUFFICES ASSUME q > r PROVE FALSE
    OBVIOUS
  <2>1. q * b >= r * b + b
    BY <1>1, Product
  <2> QED BY <1>1, <2>1
<1>4. q = r
  BY <1>1, <1>2, <1>3
<1> QED BY <1>4 DEF q

LEMMA DivTen ==
    ASSUME NEW q \in Nat
    PROVE  /\ q \div 10 \in Nat /\ q % 10 \in 0..9
           /\ q = 10 * (q \div 10) + (q % 10)
  OBVIOUS

LEMMA DivDiv ==
    ASSUME NEW j \in Nat, NEW b \in Nat \ {0}
    PROVE  (j \div b) \div 10 = j \div (10 * b)
<1> DEFINE q == j \div b
           r == q \div 10
<1>1. q \in Nat /\ b * q <= j /\ j < b * q + b
  BY DivBounds
<1> HIDE DEF q
<1>2. r \in Nat /\ 10 * r <= q /\ q <= 10 * r + 9
  BY <1>1, DivTen
<1> HIDE DEF r
<1>3. (q - 10 * r) * b \in Nat /\ (10 * r + 9 - q) * b \in Nat
  BY <1>1, <1>2
<1>4. (q - 10 * r) * b = b * q - 10 * b * r /\ (10 * r + 9 - q) * b = 10 * b * r + 9 * b - b * q
  BY <1>1, <1>2
<1>5. b * q \in Nat /\ 10 * b * r \in Nat /\ (10 * b) * r = 10 * b * r
  BY <1>1, <1>2
<1>6. (10 * b) * r <= j /\ j < (10 * b) * r + 10 * b /\ 10 * b \in Nat \ {0}
  BY <1>1, <1>3, <1>4, <1>5
<1>7. j \div (10 * b) = r
  BY <1>2, <1>6, DivOnly
<1> QED BY <1>7 DEF r, q

-----------------------------------------------------------------------------
(* Powers *)

Raises(u, b, n) == u[0] = 1 /\ \A i \in 1..n : u[i] = b * u[i - 1]

LEMMA RaisesOnce ==
    ASSUME NEW b, NEW n \in Nat, NEW u, NEW v, Raises(u, b, n), Raises(v, b, n)
    PROVE  \A i \in 0..n : u[i] = v[i]
<1> DEFINE T == {i \in Nat : i <= n => u[i] = v[i]}
<1>1. 0 \in T
  BY DEF Raises
<1>2. ASSUME NEW i \in Nat, i \in T PROVE i + 1 \in T
  <2>1. i + 1 <= n => i + 1 \in 1..n /\ (i + 1) - 1 = i /\ i <= n
    OBVIOUS
  <2> QED BY <1>2, <2>1 DEF Raises
<1>3. Nat \subseteq T
  <2> HIDE DEF T
  <2> QED BY <1>1, <1>2, Inductive
<1> QED BY <1>3

LEMMA PowSteps ==
    ASSUME NEW b \in Nat \ {0}, NEW n \in Nat
    PROVE  \E u : Pow(b, n) = u[n] /\ Raises(u, b, n)
<1> DEFINE V == Nat
           one == 1
           turn == [m \in 1..n |-> [v \in V |-> b * v]]
           F(g) == [i \in 0..n |-> IF i = 0 THEN 1 ELSE b * g[i - 1]]
           u == CHOOSE g : g = F(g)
<1>1. one \in V /\ \A v \in V : b * v \in V
  OBVIOUS
<1>2. turn \in Turns(V, n)
  <2> HIDE DEF V
  <2> QED BY <1>1 DEF Turns
<1>3. \A m \in 1..n : \A v \in V : turn[m][v] = b * v
  <2> HIDE DEF V
  <2> QED OBVIOUS
<1>4. PICK f \in Made(V, one, turn, n) : TRUE
  <2> HIDE DEF V, one, turn, F, u
  <2>1. n \in Nat /\ one \in V
    BY <1>1
  <2> QED BY <1>2, <2>1, Recursion
<1>5. f \in [0..n -> V] /\ f[0] = one /\ \A m \in 1..n : f[m] = turn[m][f[m - 1]]
  <2> HIDE DEF V, one, turn, F, u
  <2> QED BY <1>4 DEF Made
<1>6. \A m \in 1..n : m - 1 \in 0..n /\ f[m - 1] \in V
  <2> HIDE DEF V
  <2> QED BY <1>1, <1>5
<1>7. \A m \in 1..n : f[m] = b * f[m - 1]
  BY <1>3, <1>5, <1>6, Zenon
<1>8. f = F(f)
  <2>1. f = [i \in 0..n |-> f[i]]
    <3> HIDE DEF V
    <3> QED BY <1>5
  <2>2. \A i \in 0..n : i = 0 \/ i \in 1..n
    OBVIOUS
  <2>3. \A i \in 0..n : f[i] = IF i = 0 THEN 1 ELSE b * f[i - 1]
    BY <1>5, <1>7, <2>2, Zenon DEF one
  <2> QED BY <2>1, <2>3, Zenon
<1>9. u = F(u)
  BY <1>8, Zenon
<1>10. Pow(b, n) = u[n]
  BY DEF Pow
<1> HIDE DEF u
<1>11. \A i \in 1..n : u[i] = b * u[i - 1]
  <2> TAKE i \in 1..n
  <2>1. i \in 0..n /\ i # 0
    OBVIOUS
  <2>2. u[i] = F(u)[i]
    BY <1>9, Zenon
  <2> QED BY <2>1, <2>2, Zenon
<1>12. u[0] = 1
  <2>1. 0 \in 0..n
    OBVIOUS
  <2>2. u[0] = F(u)[0]
    BY <1>9, Zenon
  <2> QED BY <2>1, <2>2, Zenon
<1> QED BY <1>10, <1>11, <1>12, Zenon DEF Raises

LEMMA PowType == ASSUME NEW b \in Nat \ {0}, NEW n \in Nat PROVE Pow(b, n) \in Nat \ {0}
<1> DEFINE V == Nat \ {0}
<1>1. PICK u : Pow(b, n) = u[n] /\ Raises(u, b, n)
  BY PowSteps
<1>2. 1 \in V /\ \A v \in V : b * v \in V
  OBVIOUS
<1>3. u[0] \in V /\ \A i \in 1..n : u[i - 1] \in V => u[i] \in V
  <2> HIDE DEF V
  <2> QED BY <1>1, <1>2 DEF Raises
<1>4. \A i \in 0..n : u[i] \in V
  <2> HIDE DEF V
  <2> QED BY <1>3, Typed, Zenon
<1>5. n \in 0..n
  OBVIOUS
<1> QED BY <1>1, <1>4, <1>5

LEMMA PowZero == ASSUME NEW b \in Nat \ {0} PROVE Pow(b, 0) = 1
<1>1. PICK u : Pow(b, 0) = u[0] /\ Raises(u, b, 0)
  BY PowSteps
<1> QED BY <1>1 DEF Raises

LEMMA PowNext == ASSUME NEW b \in Nat \ {0}, NEW n \in Nat PROVE Pow(b, n + 1) = b * Pow(b, n)
<1>1. n + 1 \in Nat
  OBVIOUS
<1>2. PICK v : Pow(b, n + 1) = v[n + 1] /\ Raises(v, b, n + 1)
  BY <1>1, PowSteps
<1>3. PICK u : Pow(b, n) = u[n] /\ Raises(u, b, n)
  BY PowSteps
<1>4. \A i \in 1..n : i \in 1..(n + 1)
  OBVIOUS
<1>5. Raises(v, b, n)
  BY <1>2, <1>4 DEF Raises
<1>6. \A i \in 0..n : u[i] = v[i]
  BY <1>3, <1>5, RaisesOnce
<1>7. n \in 0..n /\ n + 1 \in 1..(n + 1) /\ (n + 1) - 1 = n
  OBVIOUS
<1> QED BY <1>2, <1>3, <1>6, <1>7 DEF Raises

LEMMA PowSum ==
    ASSUME NEW b \in Nat \ {0}, NEW m \in Nat, NEW n \in Nat
    PROVE  Pow(b, m + n) = Pow(b, m) * Pow(b, n)
<1> DEFINE T == {k \in Nat : Pow(b, m + k) = Pow(b, m) * Pow(b, k)}
<1>1. 0 \in T
  BY PowZero, PowType
<1>2. ASSUME NEW k \in Nat, k \in T PROVE k + 1 \in T
  <2>1. Pow(b, m + k) = Pow(b, m) * Pow(b, k)
    BY <1>2
  <2>2. m + k \in Nat /\ m + (k + 1) = (m + k) + 1
    OBVIOUS
  <2>3. Pow(b, (m + k) + 1) = b * Pow(b, m + k) /\ Pow(b, k + 1) = b * Pow(b, k)
    BY <2>2, PowNext
  <2>4. Pow(b, m) \in Nat /\ Pow(b, k) \in Nat
    BY PowType
  <2>5. b * (Pow(b, m) * Pow(b, k)) = Pow(b, m) * (b * Pow(b, k))
    BY <2>4
  <2>6. Pow(b, m + (k + 1)) = Pow(b, m) * Pow(b, k + 1)
    BY <2>1, <2>2, <2>3, <2>5
  <2> QED BY <2>6
<1>3. Nat \subseteq T
  <2> HIDE DEF T
  <2> QED BY <1>1, <1>2, Inductive
<1> QED BY <1>3

-----------------------------------------------------------------------------
(* Numerals *)

Reads(u, s, n) == u[0] = 0 /\ \A d \in 1..n : u[d] = 10 * u[d - 1] + s[d]

LEMMA ReadsOnce ==
    ASSUME NEW s, NEW n \in Nat, NEW u, NEW v, Reads(u, s, n), Reads(v, s, n)
    PROVE  \A i \in 0..n : u[i] = v[i]
<1> DEFINE T == {i \in Nat : i <= n => u[i] = v[i]}
<1>1. 0 \in T
  BY DEF Reads
<1>2. ASSUME NEW i \in Nat, i \in T PROVE i + 1 \in T
  <2>1. i + 1 <= n => i + 1 \in 1..n /\ (i + 1) - 1 = i /\ i <= n
    OBVIOUS
  <2> QED BY <1>2, <2>1 DEF Reads
<1>3. Nat \subseteq T
  <2> HIDE DEF T
  <2> QED BY <1>1, <1>2, Inductive
<1> QED BY <1>3

LEMMA ValueSteps ==
    ASSUME NEW s \in Seq(0..9)
    PROVE  \E u : ValueOf(s) = u[Len(s)] /\ Reads(u, s, Len(s))
<1> DEFINE V == Nat
           none == 0
           n == Len(s)
           turn == [m \in 1..n |-> [v \in V |-> 10 * v + s[m]]]
           F(g) == [i \in 0..n |-> IF i = 0 THEN 0 ELSE 10 * g[i - 1] + s[i]]
           u == CHOOSE g : g = F(g)
<1>1. n \in Nat /\ none \in V /\ \A m \in 1..n : \A v \in V : 10 * v + s[m] \in V
  OBVIOUS
<1>2. turn \in Turns(V, n)
  <2> HIDE DEF V, n
  <2> QED BY <1>1 DEF Turns
<1>3. \A m \in 1..n : \A v \in V : turn[m][v] = 10 * v + s[m]
  <2> HIDE DEF V, n
  <2> QED OBVIOUS
<1>4. PICK f \in Made(V, none, turn, n) : TRUE
  <2> HIDE DEF V, none, turn, F, u, n
  <2> QED BY <1>1, <1>2, Recursion
<1>5. f \in [0..n -> V] /\ f[0] = none /\ \A m \in 1..n : f[m] = turn[m][f[m - 1]]
  <2> HIDE DEF V, none, turn, F, u, n
  <2> QED BY <1>4 DEF Made
<1>6. \A m \in 1..n : m - 1 \in 0..n /\ f[m - 1] \in V
  <2> HIDE DEF V, n
  <2> QED BY <1>1, <1>5
<1>7. \A m \in 1..n : f[m] = 10 * f[m - 1] + s[m]
  BY <1>3, <1>5, <1>6, Zenon
<1>8. f = F(f)
  <2>1. f = [i \in 0..n |-> f[i]]
    <3> HIDE DEF V, n
    <3> QED BY <1>5
  <2>2. \A i \in 0..n : i = 0 \/ i \in 1..n
    BY <1>1
  <2>3. \A i \in 0..n : f[i] = IF i = 0 THEN 0 ELSE 10 * f[i - 1] + s[i]
    BY <1>5, <1>7, <2>2, Zenon DEF none
  <2> QED BY <2>1, <2>3, Zenon
<1>9. u = F(u)
  BY <1>8, Zenon
<1>10. ValueOf(s) = u[n]
  BY DEF ValueOf
<1> HIDE DEF u
<1>11. \A i \in 1..n : u[i] = 10 * u[i - 1] + s[i]
  <2> TAKE i \in 1..n
  <2>1. i \in 0..n /\ i # 0
    BY <1>1
  <2>2. u[i] = F(u)[i]
    BY <1>9, Zenon
  <2> QED BY <2>1, <2>2, Zenon
<1>12. u[0] = 0
  <2>1. 0 \in 0..n
    BY <1>1
  <2>2. u[0] = F(u)[0]
    BY <1>9, Zenon
  <2> QED BY <2>1, <2>2, Zenon
<1> QED BY <1>10, <1>11, <1>12, Zenon DEF Reads

LEMMA ValueType == ASSUME NEW s \in Seq(0..9) PROVE ValueOf(s) \in Nat
<1>1. PICK u : ValueOf(s) = u[Len(s)] /\ Reads(u, s, Len(s))
  BY ValueSteps
<1>2. Len(s) \in Nat /\ \A i \in 1..Len(s) : s[i] \in Nat
  OBVIOUS
<1>3. u[0] \in Nat /\ \A i \in 1..Len(s) : u[i - 1] \in Nat => u[i] \in Nat
  BY <1>1, <1>2 DEF Reads
<1>4. \A i \in 0..Len(s) : u[i] \in Nat
  BY <1>2, <1>3, Typed, Zenon
<1>5. Len(s) \in 0..Len(s)
  BY <1>2
<1> QED BY <1>1, <1>4, <1>5

LEMMA ValueEmpty == ValueOf(<<>>) = 0
<1>1. <<>> \in Seq(0..9) /\ Len(<<>>) = 0
  OBVIOUS
<1>2. PICK u : ValueOf(<<>>) = u[0] /\ Reads(u, <<>>, 0)
  BY <1>1, ValueSteps
<1> QED BY <1>2 DEF Reads

\* The quotients by the powers of ten differ by one digit.
LEMMA DivPow ==
    ASSUME NEW j \in Nat, NEW m \in Nat
    PROVE  /\ j \div Pow(10, m) \in Nat /\ (j \div Pow(10, m)) % 10 \in 0..9
           /\ j \div Pow(10, m) = 10 * (j \div Pow(10, m + 1)) + ((j \div Pow(10, m)) % 10)
<1> DEFINE P == Pow(10, m)
           q == j \div P
<1>1. P \in Nat \ {0} /\ Pow(10, m + 1) = 10 * P
  <2>1. 10 \in Nat \ {0}
    OBVIOUS
  <2> QED BY <2>1, PowType, PowNext
<1> HIDE DEF P
<1>2. q \in Nat /\ q \div 10 = j \div (10 * P)
  BY <1>1, DivBounds, DivDiv
<1> HIDE DEF q
<1>3. q = 10 * (q \div 10) + (q % 10) /\ q % 10 \in 0..9
  BY <1>2, DivTen
<1> QED BY <1>1, <1>2, <1>3 DEF q, P

LEMMA LastDigitsType ==
    ASSUME NEW j \in Nat, NEW n \in Nat
    PROVE  LastDigits(j, n) \in Seq(0..9) /\ Len(LastDigits(j, n)) = n
<1>1. \A d \in 1..n : (j \div Pow(10, n - d)) % 10 \in 0..9
  <2> TAKE d \in 1..n
  <2>1. n - d \in Nat
    OBVIOUS
  <2> QED BY <2>1, DivPow
<1> DEFINE f == [d \in 1..n |-> (j \div Pow(10, n - d)) % 10]
<1>2. f \in [1..n -> 0..9]
  BY <1>1
<1> HIDE DEF f
<1>3. f \in Seq(0..9) /\ Len(f) = n
  BY <1>2
<1> QED BY <1>3 DEF LastDigits, f

\* A numeral followed by the last n digits of j.
LEMMA ValueAppended ==
    ASSUME NEW s \in Seq(0..9), NEW n \in Nat, NEW j \in Nat, j < Pow(10, n)
    PROVE  ValueOf(s \o LastDigits(j, n)) = ValueOf(s) * Pow(10, n) + j
<1> DEFINE L == LastDigits(j, n)
           t == s \o L
           N == Len(s)
           A == ValueOf(s)
           P(d) == Pow(10, d)
           Q(d) == j \div P(d)
<1>1. L \in Seq(0..9) /\ Len(L) = n /\ \A d \in 1..n : L[d] = Q(n - d) % 10
  BY LastDigitsType DEF LastDigits
<1>2. 10 \in Nat \ {0} /\ N \in Nat /\ A \in Nat
  BY ValueType
<1>3. P(0) = 1 /\ \A d \in Nat : P(d) \in Nat \ {0} /\ P(d + 1) = 10 * P(d)
  BY <1>2, PowZero, PowType, PowNext
<1>4. \A d \in Nat : Q(d) \in Nat /\ Q(d) % 10 \in 0..9 /\ Q(d) = 10 * Q(d + 1) + (Q(d) % 10)
  BY DivPow
<1>5. Q(n) = 0 /\ Q(0) = j
  <2> DEFINE b == P(n)
  <2>0. b \in Nat \ {0} /\ j < b
    BY <1>3
  <2> HIDE DEF b
  <2>1. b * 0 <= j /\ j < b * 0 + b /\ 0 \in Nat
    BY <2>0
  <2>2. Q(n) = 0
    BY <2>0, <2>1, DivOnly DEF b
  <2>3. 1 * j <= j /\ j < 1 * j + 1
    OBVIOUS
  <2>4. j \div 1 = j
    BY <2>3, DivOnly
  <2> QED BY <1>3, <2>2, <2>4
<1> HIDE DEF L, P, Q
<1>6. /\ t \in Seq(0..9) /\ Len(t) = N + n
      /\ \A d \in 1..N : t[d] = s[d]
      /\ \A d \in 1..n : t[N + d] = L[d]
  BY <1>1
<1> HIDE DEF t
<1>7. PICK u : ValueOf(t) = u[Len(t)] /\ Reads(u, t, Len(t))
  BY <1>6, ValueSteps
<1>8. PICK v : A = v[N] /\ Reads(v, s, N)
  BY ValueSteps
<1>9. \A d \in 1..N : d \in 1..Len(t)
  BY <1>2, <1>6
<1>10. Reads(u, s, N)
  BY <1>6, <1>7, <1>9 DEF Reads
<1>11. u[N] = A
  <2>1. \A i \in 0..N : u[i] = v[i]
    BY <1>2, <1>8, <1>10, ReadsOnce
  <2> QED BY <1>2, <1>8, <2>1
<1> HIDE DEF N, A
<1> DEFINE T == {d \in Nat : d <= n => u[N + d] = A * P(d) + Q(n - d)}
<1>12. 0 \in T
  <2>1. N + 0 = N /\ n - 0 = n /\ A * 1 + 0 = A
    BY <1>2
  <2>2. u[N + 0] = A * P(0) + Q(n - 0)
    BY <1>3, <1>5, <1>11, <2>1
  <2> QED BY <2>2
<1>13. ASSUME NEW d \in Nat, d \in T PROVE d + 1 \in T
  <2>1. SUFFICES ASSUME d + 1 <= n PROVE u[N + (d + 1)] = A * P(d + 1) + Q(n - (d + 1))
    OBVIOUS
  <2> DEFINE m == n - (d + 1)
  <2>2. /\ d + 1 \in 1..n /\ m \in Nat /\ m + 1 \in Nat /\ m + 1 = n - d
        /\ N + (d + 1) \in 1..Len(t) /\ (N + (d + 1)) - 1 = N + d
    BY <1>2, <1>6, <2>1
  <2> HIDE DEF m
  <2>3. u[N + d] = A * P(d) + Q(m + 1)
    BY <1>13, <2>1, <2>2
  <2>4. t[N + (d + 1)] = Q(m) % 10
    BY <1>1, <1>6, <2>2 DEF m
  <2>5. u[N + (d + 1)] = 10 * u[N + d] + t[N + (d + 1)]
    BY <1>7, <2>2 DEF Reads
  <2>6. Q(m) = 10 * Q(m + 1) + (Q(m) % 10) /\ Q(m + 1) \in Nat /\ Q(m) % 10 \in 0..9 /\ Q(m) \in Nat
    BY <1>4, <2>2
  <2>7. A * P(d + 1) = 10 * (A * P(d)) /\ A * P(d) \in Nat
    <3>1. P(d) \in Nat /\ P(d + 1) = 10 * P(d)
      BY <1>3
    <3>2. A * (10 * P(d)) = 10 * (A * P(d)) /\ A * P(d) \in Nat
      BY <1>2, <3>1
    <3> QED BY <3>1, <3>2
  <2>8. u[N + (d + 1)] = A * P(d + 1) + Q(m)
    <3>1. ASSUME NEW x \in Nat, NEW y \in Nat, NEW z \in Nat, NEW q \in Nat, q = 10 * y + z
          PROVE  10 * (x + y) + z = 10 * x + q
      BY <3>1
    <3> QED BY <2>3, <2>4, <2>5, <2>6, <2>7, <3>1
  <2> QED BY <2>8 DEF m
<1>14. n \in T
  <2> HIDE DEF T
  <2>1. Nat \subseteq T
    BY <1>12, <1>13, Inductive
  <2> QED BY <2>1
<1>15. u[N + n] = A * P(n) + Q(0)
  BY <1>14
<1> QED BY <1>5, <1>6, <1>7, <1>15 DEF t, A, P, N, L

\* The zeros a number begins with.
LEMMA LeadingZeros ==
    ASSUME NEW j \in Nat, NEW n \in Nat, j < Pow(10, n), NEW e \in 0..n,
           \A d \in 1..e : LastDigits(j, n)[d] = 0
    PROVE  j < Pow(10, n - e)
<1> DEFINE P(m) == Pow(10, m)
           T == {d \in Nat : d <= e => j < P(n - d)}
<1>1. \A m \in Nat : P(m) \in Nat \ {0} /\ P(m + 1) = 10 * P(m)
  <2>1. 10 \in Nat \ {0}
    OBVIOUS
  <2> QED BY <2>1, PowType, PowNext
<1>2. 0 \in T
  <2>1. n - 0 = n
    OBVIOUS
  <2> QED BY <2>1
<1>3. ASSUME NEW d \in Nat, d \in T PROVE d + 1 \in T
  <2>1. SUFFICES ASSUME d + 1 <= e PROVE j < P(n - (d + 1))
    OBVIOUS
  <2> DEFINE m == n - (d + 1)
             b == P(m)
             q == j \div b
  <2>2. d + 1 \in 1..e /\ d + 1 \in 1..n /\ m \in Nat /\ m + 1 = n - d /\ d <= e
    BY <2>1
  <2>3. j < P(m + 1)
    BY <1>3, <2>2
  <2>4. b \in Nat \ {0} /\ j < 10 * b
    BY <1>1, <2>2, <2>3
  <2>5. LastDigits(j, n)[d + 1] = q % 10
    BY <2>2 DEF LastDigits
  <2>6. q % 10 = 0
    BY <2>2, <2>5
  <2> HIDE DEF b
  <2>7. q \in Nat /\ b * q <= j /\ j < b * q + b
    BY <2>4, DivBounds
  <2> HIDE DEF q
  <2>8. q < 10
    <3> SUFFICES ASSUME q > 9 PROVE FALSE
      BY <2>7
    <3>1. q * b >= 9 * b + b
      BY <2>4, <2>7, Product
    <3> QED BY <2>4, <2>7, <3>1
  <2>9. q = 0
    BY <2>6, <2>7, <2>8
  <2> QED BY <2>4, <2>7, <2>9 DEF b, m
<1>4. e \in T
  <2> HIDE DEF T
  <2>1. Nat \subseteq T
    BY <1>2, <1>3, Inductive
  <2> QED BY <2>1
<1> QED BY <1>4

LEMMA SameSequence ==
    ASSUME NEW S, NEW s \in Seq(S), NEW t \in Seq(S), Len(s) = Len(t),
           \A i \in 1..Len(s) : s[i] = t[i]
    PROVE  s = t
  OBVIOUS

LEMMA Ending ==
    ASSUME NEW S, NEW s \in Seq(S), NEW a \in 1..Len(s)
    PROVE  /\ SubSeq(s, a, Len(s)) \in Seq(S) /\ Len(SubSeq(s, a, Len(s))) = Len(s) - a + 1
           /\ \A i \in 1..(Len(s) - a + 1) : SubSeq(s, a, Len(s))[i] = s[a + i - 1]
  OBVIOUS

\* Without them it is still that number.
LEMMA WithoutZeros ==
    ASSUME NEW j \in Nat \ {0}, NEW n \in Nat, j < Pow(10, n),
           NEW first, first = CHOOSE d \in 1..n : /\ LastDigits(j, n)[d] # 0
                                                  /\ \A e \in 1..(d - 1) : LastDigits(j, n)[e] = 0
    PROVE  /\ first \in 1..n
           /\ j < Pow(10, n - (first - 1))
           /\ SubSeq(LastDigits(j, n), first, n) = LastDigits(j, n - (first - 1))
           /\ LastDigits(j, n - (first - 1))[1] # 0
<1> DEFINE L == LastDigits(j, n)
           Z == {d \in 1..n : L[d] # 0}
           Is(d) == d \in 1..n /\ L[d] # 0 /\ \A e \in 1..(d - 1) : L[e] = 0
<1>1. Z # {}
  <2> SUFFICES ASSUME Z = {} PROVE FALSE
    OBVIOUS
  <2>1. \A d \in 1..n : L[d] = 0
    OBVIOUS
  <2>2. n \in 0..n /\ n - n = 0
    OBVIOUS
  <2>3. j < Pow(10, 0)
    BY <2>1, <2>2, LeadingZeros
  <2>4. Pow(10, 0) = 1
    <3>1. 10 \in Nat \ {0}
      OBVIOUS
    <3> QED BY <3>1, PowZero
  <2> QED BY <2>3, <2>4
<1>2. PICK z \in Z : \A y \in Z : z <= y
  <2>1. Z \in SUBSET Nat
    OBVIOUS
  <2> HIDE DEF Z
  <2> QED BY <1>1, <2>1, Least
<1>3. Is(z)
  <2>1. \A e \in 1..(z - 1) : e \in 1..n /\ ~(z <= e)
    OBVIOUS
  <2>2. \A e \in 1..(z - 1) : L[e] = 0
    BY <1>2, <2>1
  <2> QED BY <2>2
<1>4. Is(first)
  BY <1>3, Zenon
<1> DEFINE k == first - 1
           m == n - k
<1>5. /\ first \in 1..n /\ k \in 0..n /\ m \in Nat /\ m >= 1 /\ n - first + 1 = m
      /\ \A e \in 1..k : L[e] = 0
  BY <1>4
<1>6. j < Pow(10, m)
  BY <1>5, LeadingZeros
<1>7. L \in Seq(0..9) /\ Len(L) = n
  BY LastDigitsType
<1>8. LastDigits(j, m) \in Seq(0..9) /\ Len(LastDigits(j, m)) = m
  BY <1>5, LastDigitsType
<1>9. \A d \in 1..m : L[k + d] = LastDigits(j, m)[d]
  <2> TAKE d \in 1..m
  <2>1. k + d \in 1..n /\ n - (k + d) = m - d
    BY <1>5
  <2> HIDE DEF m, k
  <2> QED BY <2>1 DEF LastDigits
<1>10. SubSeq(L, first, n) = LastDigits(j, m)
  <2> DEFINE D == 0..9
             t == SubSeq(L, first, n)
             r == LastDigits(j, m)
  <2>1. L \in Seq(D) /\ first \in 1..Len(L) /\ n = Len(L) /\ r \in Seq(D) /\ Len(r) = m
    BY <1>5, <1>7, <1>8
  <2>2. \A d \in 1..m : first + d - 1 = k + d
    BY <1>5
  <2>3. \A d \in 1..m : L[k + d] = r[d]
    BY <1>9
  <2>4. n - first + 1 = m
    BY <1>5
  <2> HIDE DEF L, Z, Is, m, k, D, r
  <2>5. t \in Seq(D) /\ Len(t) = m /\ \A d \in 1..m : t[d] = L[first + d - 1]
    <3>1. L \in Seq(D) /\ first \in 1..Len(L)
      BY <2>1
    <3>2. /\ SubSeq(L, first, Len(L)) \in Seq(D)
          /\ Len(SubSeq(L, first, Len(L))) = Len(L) - first + 1
          /\ \A d \in 1..(Len(L) - first + 1) : SubSeq(L, first, Len(L))[d] = L[first + d - 1]
      BY <3>1, Ending, ZenonT(60)
    <3> QED BY <2>1, <2>4, <3>2, Zenon DEF t
  <2> HIDE DEF t
  <2>6. \A d \in 1..m : t[d] = r[d]
    BY <2>2, <2>3, <2>5
  <2>7. t = r
    BY <2>1, <2>5, <2>6, SameSequence
  <2> QED BY <2>7 DEF t, r
<1>11. LastDigits(j, m)[1] # 0
  <2>1. 1 \in 1..m /\ k + 1 = first
    BY <1>5
  <2>2. L[k + 1] = LastDigits(j, m)[1]
    BY <1>9, <2>1
  <2>3. L[first] # 0
    BY <1>4
  <2> QED BY <2>1, <2>2, <2>3
<1> QED BY <1>5, <1>6, <1>10, <1>11

-----------------------------------------------------------------------------
(* Powers of ten and quotients by them *)

LEMMA TenPower == ASSUME NEW n \in Nat PROVE Pow(10, n) \in Nat \ {0} /\ Pow(10, n + 1) = 10 * Pow(10, n)
<1>1. 10 \in Nat \ {0}
  OBVIOUS
<1> QED BY <1>1, PowType, PowNext

LEMMA TenPowerGrows ==
    ASSUME NEW m \in Nat, NEW n \in Nat, m <= n
    PROVE  Pow(10, m) <= Pow(10, n)
<1>1. 10 \in Nat \ {0} /\ n - m \in Nat /\ m + (n - m) = n
  OBVIOUS
<1>2. Pow(10, m + (n - m)) = Pow(10, m) * Pow(10, n - m)
  BY <1>1, PowSum
<1>3. Pow(10, m) \in Nat \ {0} /\ Pow(10, n - m) \in Nat \ {0}
  BY <1>1, TenPower
<1>4. ASSUME NEW a \in Nat, NEW b \in Nat \ {0} PROVE a <= a * b
  <2>1. a * (b - 1) \in Nat /\ a * b = a * (b - 1) + a
    OBVIOUS
  <2> QED BY <2>1
<1> QED BY <1>1, <1>2, <1>3, <1>4

LEMMA TenPowerAbove == ASSUME NEW n \in Nat PROVE n < Pow(10, n)
<1> DEFINE T == {m \in Nat : m < Pow(10, m)}
<1>1. 0 \in T
  BY TenPower
<1>2. ASSUME NEW m \in Nat, m \in T PROVE m + 1 \in T
  BY <1>2, TenPower
<1>3. Nat \subseteq T
  <2> HIDE DEF T
  <2> QED BY <1>1, <1>2, Inductive
<1> QED BY <1>3

LEMMA DivDivided ==
    ASSUME NEW j \in Nat, NEW a \in Nat \ {0}, NEW b \in Nat \ {0}
    PROVE  (j \div a) \div b = j \div (a * b)
<1> DEFINE q == j \div a
           r == q \div b
<1>1. q \in Nat /\ a * q <= j /\ j < a * q + a
  BY DivBounds
<1> HIDE DEF q
<1>2. r \in Nat /\ b * r <= q /\ q + 1 <= b * r + b
  BY <1>1, DivBounds
<1> HIDE DEF r
<1>3. (q - b * r) * a \in Nat /\ (b * r + b - (q + 1)) * a \in Nat
  BY <1>1, <1>2
<1>4. /\ (q - b * r) * a = a * q - (a * b) * r
      /\ (b * r + b - (q + 1)) * a = (a * b) * r + a * b - (a * q + a)
  BY <1>1, <1>2
<1>5. a * q \in Nat /\ (a * b) * r \in Nat /\ a * b \in Nat \ {0}
  BY <1>1, <1>2
<1>6. (a * b) * r <= j /\ j < (a * b) * r + a * b
  BY <1>1, <1>3, <1>4, <1>5
<1>7. j \div (a * b) = r
  BY <1>2, <1>5, <1>6, DivOnly
<1> QED BY <1>7 DEF r, q

\* A number of n digits, of which the last m are taken off.
LEMMA DivBelow ==
    ASSUME NEW j \in Nat, NEW m \in Nat, NEW n \in Nat, j < Pow(10, m + n)
    PROVE  j \div Pow(10, m) < Pow(10, n)
<1> DEFINE q == j \div Pow(10, m)
<1>1. 10 \in Nat \ {0} /\ Pow(10, m) \in Nat \ {0} /\ Pow(10, n) \in Nat
  BY TenPower
<1>2. Pow(10, m + n) = Pow(10, m) * Pow(10, n)
  BY <1>1, PowSum
<1>3. q \in Nat /\ Pow(10, m) * q <= j
  BY <1>1, DivBounds
<1> HIDE DEF q
<1>4. ASSUME NEW a \in Nat \ {0}, NEW b \in Nat, NEW c \in Nat, a * b < a * c PROVE b < c
  <2>1. CASE c <= b
    <3>1. a * (b - c) \in Nat /\ a * (b - c) = a * b - a * c
      BY <2>1
    <3> QED BY <1>4, <3>1
  <2> QED BY <2>1
<1>5. Pow(10, m) * q < Pow(10, m) * Pow(10, n)
  BY <1>1, <1>2, <1>3
<1> QED BY <1>1, <1>3, <1>4, <1>5 DEF q

\* All the digits of a number.
LEMMA ValueWhole ==
    ASSUME NEW n \in Nat, NEW j \in Nat, j < Pow(10, n)
    PROVE  ValueOf(LastDigits(j, n)) = j
<1>1. LastDigits(j, n) \in Seq(0..9) /\ Pow(10, n) \in Nat
  BY LastDigitsType, TenPower
<1>2. <<>> \in Seq(0..9) /\ <<>> \o LastDigits(j, n) = LastDigits(j, n)
  BY <1>1
<1>3. ValueOf(<<>> \o LastDigits(j, n)) = ValueOf(<<>>) * Pow(10, n) + j
  BY <1>2, ValueAppended
<1> QED BY <1>1, <1>2, <1>3, ValueEmpty

\* It has one number of digits.
LEMMA LengthOnly ==
    ASSUME NEW n \in Nat, NEW a \in Nat \ {0}, NEW b \in Nat \ {0},
           Pow(10, a - 1) <= n, n < Pow(10, a), Pow(10, b - 1) <= n, n < Pow(10, b)
    PROVE  a = b
<1>1. a - 1 \in Nat /\ b - 1 \in Nat /\ a \in Nat /\ b \in Nat
  OBVIOUS
<1>2. /\ Pow(10, a) \in Nat /\ Pow(10, b) \in Nat
      /\ Pow(10, a - 1) \in Nat /\ Pow(10, b - 1) \in Nat
  BY <1>1, TenPower
<1>3. a < b => Pow(10, a) <= Pow(10, b - 1)
  BY <1>1, TenPowerGrows
<1>4. b < a => Pow(10, b) <= Pow(10, a - 1)
  BY <1>1, TenPowerGrows
<1> QED BY <1>2, <1>3, <1>4

LEMMA LengthSome ==
    ASSUME NEW n \in Nat \ {0}
    PROVE  \E a \in 1..n : Pow(10, a - 1) <= n /\ n < Pow(10, a)
<1> DEFINE S == {a \in Nat : n < Pow(10, a)}
<1>1. S \in SUBSET Nat /\ n \in S
  BY TenPowerAbove
<1>2. PICK a \in S : \A b \in S : a <= b
  <2> HIDE DEF S
  <2> QED BY <1>1, Least
<1>3. a \in Nat /\ n < Pow(10, a) /\ a <= n
  BY <1>1, <1>2
<1>4. a # 0
  <2>1. 10 \in Nat \ {0}
    OBVIOUS
  <2>2. Pow(10, 0) = 1
    BY <2>1, PowZero
  <2> QED BY <1>3, <2>2
<1>5. a - 1 \in Nat /\ a - 1 \notin S
  BY <1>2, <1>3, <1>4
<1>6. Pow(10, a - 1) <= n
  BY <1>5, TenPower
<1> QED BY <1>3, <1>4, <1>6
=============================================================================
