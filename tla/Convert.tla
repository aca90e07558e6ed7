------------------------------ MODULE Convert ------------------------------
(***************************************************************************)
(* The numbers to text of hydroprot's convert.cc: integers by groups of    *)
(* digits looked up in a table, from the first group that is not zero on   *)
(* (fastlltoa, fastulltoa), and doubles by the digits of _cvt, which       *)
(* rounds, and the length of their integer part.                           *)
(*                                                                         *)
(* A double is an integer number of units of 10^-Places and the arithmetic *)
(* on it exact: the error of floating point is left out.                   *)
(***************************************************************************)
EXTENDS Numbers

CONSTANTS
    Width,     \* digits of a group: 4
    Groups,    \* elements of divisors: 5
    Bits,      \* of a long long: 64
    IntBits,   \* of an unsigned int: 32
    Prec,      \* decimals asked of a double: 3
    Places,    \* decimals a double has
    DigPrec,   \* digits of a double that are picked off, zeros after them: 17
    DigMax,    \* digits the string of _cvt may have: 30
    Signed, Unsigned, Doubles   \* the values converted

VARIABLES
    kind,      \* "signed", "unsigned" or "double"
    in,        \* the value
    stage,     \* "start", "lead", "rest" or "done"
    i,         \* what is left of it
    aux,       \* the group at hand
    out        \* the characters written, up to the length returned

vars == <<kind, in, stage, i, aux, out>>

Abs(n) == IF n < 0 THEN -n ELSE n

\* Characters: the digits are themselves.
Dot == 10  Minus == 11  Nul == 12  Old == 13

Init ==
    /\ \/ kind = "signed" /\ in \in Signed
       \/ kind = "unsigned" /\ in \in Unsigned
       \/ kind = "double" /\ in \in Doubles
    /\ stage = "start"
    /\ i = in /\ aux = Groups - 1
    /\ out = <<>>

-----------------------------------------------------------------------------
(* Integers *)

Divisor(a) == Pow(10, a * Width)

\* The Width digits of j in the table.
GroupDigits(j) == LastDigits(j, Width)

\* Mutant: the first group keeps its zeros.
StrippedNot(j) == GroupDigits(j)

\* Without the zeros it begins with; j is not zero.
Stripped(j) ==
    LET first == CHOOSE d \in 1..Width :
                    GroupDigits(j)[d] # 0 /\ \A e \in 1..(d - 1) : GroupDigits(j)[e] = 0
    IN  SubSeq(GroupDigits(j), first, Width)

\* The sign: the smallest number is its own opposite.
Opposite(n) == IF n = -Pow(2, Bits - 1) THEN n ELSE -n

Start ==
    /\ stage = "start" /\ kind # "double"
    /\ i' = IF in < 0 THEN Opposite(in) ELSE in
    /\ out' = IF in < 0 THEN <<Minus>> ELSE IF in = 0 THEN <<0>> ELSE <<>>
    /\ stage' = IF in = 0 THEN "done" ELSE "lead"
    /\ UNCHANGED <<kind, in, aux>>

\* The first group that is not zero, if one is found.
Lead ==
    LET j == i \div Divisor(aux) IN
    /\ stage = "lead"
    /\ IF aux < 0 THEN stage' = "done" /\ UNCHANGED <<i, aux, out>>
       ELSE /\ aux' = aux - 1
            /\ IF i >= Divisor(aux)
               THEN /\ out' = out \o Stripped(j)
                    /\ i' = i - j * Divisor(aux)
                    /\ stage' = "rest"
               ELSE UNCHANGED <<i, out, stage>>
    /\ UNCHANGED <<kind, in>>

\* Those after it, zeros and all.
Rest ==
    LET j == i \div Divisor(aux) IN
    /\ stage = "rest"
    /\ IF aux < 0 THEN stage' = "done" /\ UNCHANGED <<i, aux, out>>
       ELSE /\ out' = out \o GroupDigits(j)
            /\ i' = i - j * Divisor(aux)
            /\ aux' = aux - 1
            /\ UNCHANGED stage
    /\ UNCHANGED <<kind, in>>

-----------------------------------------------------------------------------
(* Doubles *)

\* The number of digits of n > 0.
Length(n) == CHOOSE d \in 1..n : Pow(10, d - 1) <= n /\ n < Pow(10, d)

\* The first n digits of a value of v > 0 units, zeros after its own and after
\* the significant ones.
FirstDigits(v, n) ==
    [d \in 1..n |-> IF d > Length(v) \/ d > DigPrec THEN 0
                    ELSE (v \div Pow(10, Length(v) - d)) % 10]

\* One more, from the end: the nines become zeros, the digit before them grows;
\* when all were nines the number is 100... and the point moves.
CarriedOver(s) ==
    LET others == {d \in DOMAIN s : s[d] # 9}
        p == IF others = {} THEN 1 ELSE CHOOSE d \in others : \A e \in others : e <= d
    IN  [d \in DOMAIN s |->
            IF d > p THEN 0
            ELSE IF d < p THEN s[d]
            ELSE IF others = {} THEN 1 ELSE s[d] + 1]

\* As many digits as are asked for and the string has room for.
Asked(n) == IF n < DigMax THEN n ELSE DigMax

\* Mutant: the point stays when the digits were all nines.
EcvtUnshifted(v, n) ==
    LET m == Asked(n)
        s == FirstDigits(v, m)
    IN  [digits |-> IF FirstDigits(v, m + 1)[m + 1] >= 5 THEN CarriedOver(s) ELSE s,
         dec |-> Length(v) - Places]

\* _cvt(ECVT, v, n): the digits, rounded by the one after them, and where the point is.
Ecvt(v, n) ==
    LET m == Asked(n)
        s == FirstDigits(v, m)
        up == FirstDigits(v, m + 1)[m + 1] >= 5
        dec == Length(v) - Places
    IN  [digits |-> IF up THEN CarriedOver(s) ELSE s,
         dec |-> IF up /\ \A d \in 1..m : s[d] = 9 THEN dec + 1 ELSE dec]

\* The string of _cvt ends after its digits; what follows is of earlier calls.
CharAt(s, d) == IF d <= Len(s) THEN s[d] ELSE IF d = Len(s) + 1 THEN Nul ELSE Old

\* convert(double): no value below one is printed but as 0.
ConvertDouble ==
    LET v == Abs(in)
        d == (v \div Pow(10, Places)) % Pow(2, IntBits)
        len == Length(d)
        e == Ecvt(v, len + Prec)
        chars == [n \in 1..e.dec |-> CharAt(e.digits, n)] \o <<Dot>>
                 \o [n \in 1..Prec |-> CharAt(e.digits, e.dec + n)]
    IN
    /\ stage = "start" /\ kind = "double"
    /\ out' = IF d = 0 THEN <<0>>
              ELSE (IF in < 0 THEN <<Minus>> ELSE <<>>) \o SubSeq(chars, 1, len + Prec + 1)
    /\ stage' = "done"
    /\ UNCHANGED <<kind, in, i, aux>>

Next == Start \/ Lead \/ Rest \/ ConvertDouble

Spec == Init /\ [][Next]_vars

-----------------------------------------------------------------------------
(* Properties *)

\* What is left is a value of its type and is not negative once digits are
\* written; the group at hand is one of the table or past its end.
TypeOK ==
    /\ kind \in {"signed", "unsigned", "double"}
    /\ stage \in {"start", "lead", "rest", "done"}
    /\ kind = "signed" => i \in -Pow(2, Bits - 1)..(Pow(2, Bits - 1) - 1)
    /\ kind = "unsigned" => i \in 0..(Pow(2, Bits) - 1)
    /\ stage = "rest" => i \in 0..(Divisor(aux + 1) - 1)
    /\ aux \in -1..(Groups - 1)
    /\ out \in Seq(0..Old)

Unsign(s) == IF Len(s) > 0 /\ s[1] = Minus THEN Tail(s) ELSE s

\* Every integer but the smallest is written as its own decimal numeral: the
\* zeros inside it, at the edges of the groups, are there and those before it
\* are not (convert.cc:36, convert.cc:55).
IntegersRight ==
    stage = "done" /\ kind # "double" /\ in # -Pow(2, Bits - 1) =>
        LET s == Unsign(out) IN
        /\ IsNumeral(s)
        /\ ValueOf(s) = Abs(in)
        /\ s[1] = 0 => s = <<0>>
        /\ (out # s) <=> (in < 0)

\* A double of at least one whose integer part is an unsigned int is written
\* with Prec decimals, or one less if rounding made a new digit before the
\* point, and is within half a unit of the last, as long as _cvt has a digit to
\* round by among the significant ones (convert.cc:191-214, 236-247): the ten
\* digits of an unsigned int and up to six decimals are fewer than the 17.
DoublesRight ==
    stage = "done" /\ kind = "double"
    /\ Abs(in) >= Pow(10, Places) /\ Abs(in) < Pow(2, IntBits) * Pow(10, Places)
    /\ Length(Abs(in) \div Pow(10, Places)) + Prec < DigPrec =>
        LET s == Unsign(out)
            point == CHOOSE d \in 1..Len(s) : s[d] = Dot
            digits == SubSeq(s, 1, point - 1) \o SubSeq(s, point + 1, Len(s))
            frac == Len(digits) - (point - 1)
            unit == Pow(10, Places - frac)
        IN  /\ \E d \in 1..Len(s) : s[d] = Dot
            /\ IsNumeral(digits)
            /\ frac \in {Prec - 1, Prec}
            /\ 2 * Abs(ValueOf(digits) * unit - Abs(in)) <= unit
            /\ (out # s) <=> (in < 0)
=============================================================================
