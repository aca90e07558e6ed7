---------------------------- MODULE MCCspServlet ----------------------------
(* The servlets of CspServlet.cc, templates of up to two elements and bases of *)
(* up to two, and the reserves of Buffer.hh.                                   *)
EXTENDS CspServlet

\* Numbers a page appends; 100k and 1m only go on longer than 10k.
McRounds == [p \in Pages |-> CASE p = "1k.csp" -> 1000 [] p = "10k.csp" -> 10000 [] OTHER -> 100]

McReserves == [t \in Types |-> IF t \in {"int", "float"} THEN 10 ELSE 20]
\* From a digit to the longest: an int below -10^9 takes eleven characters, a float or
\* a double as many as its range has digits, seven more, and a sign.
McPrints == [t \in Types |-> CASE t = "int" -> {1, 10, 11}
                              [] t = "long long" -> {1, 19, 20}
                              [] t = "float" -> {8, 10, 11, 47}
                              [] t = "double" -> {8, 20, 21, 317}]

McWidth == [text |-> 7, percent |-> 1, percents |-> 2, newline |-> 1, break |-> 1, var |-> 3,
            code |-> 0, comment |-> 4, attr |-> 8, open |-> 8, close |-> 8, extends |-> 8,
            quoting |-> 5, broken |-> 6, junk |-> 5]

Tok(tag, id, val) == [tag |-> tag, id |-> id, val |-> val]
T(n) == Tok("text", "", n)
P == Tok("percent", "", 0)
El(pre, tag, suf) == [pre |-> pre, tag |-> tag, suf |-> suf, body |-> <<>>]
Block(pre, n, body, suf) == [pre |-> pre, tag |-> Tok("block", n, 0), suf |-> suf, body |-> body]

BaseElements == {
    El(<<T(1)>>, P, <<>>),
    El(<<>>, Tok("var", "x", 0), <<T(2)>>),
    El(<<T(3)>>, Tok("code", "", 0), <<>>),
    El(<<>>, Tok("code", "", 0), <<T(4)>>),
    El(<<>>, Tok("quoting", "", 0), <<>>),
    El(<<>>, Tok("comment", "", 0), <<P>>),
    El(<<T(5)>>, Tok("attr", "a", 6), <<T(7)>>),
    El(<<>>, Tok("open", "b", 0), <<>>),
    El(<<>>, Tok("close", "", 0), <<>>),
    Block(<<T(8)>>, "b", <<<<>>>>, <<T(9)>>),
    Block(<<>>, "b", <<<<>>, <<T(10)>>, <<T(11), P>>, <<>>>>, <<>>),
    Block(<<>>, "b", <<<<>>, <<T(12), P>>, <<>>>>, <<>>),
    Block(<<>>, "a", <<<<Tok("var", "x", 0)>>>>, <<>>)}

ChildElements == {
    El(<<>>, T(20), <<>>),
    El(<<>>, Tok("attr", "a", 21), <<>>),
    El(<<>>, Tok("open", "a", 0), <<>>),
    Block(<<T(22)>>, "b", <<<<T(23)>>, <<P>>>>, <<T(24)>>),
    Block(<<>>, "b", <<<<>>>>, <<>>),
    Block(<<>>, "b", <<<<>>, <<T(26), P>>, <<>>>>, <<>>),
    Block(<<>>, "a", <<<<>>, <<Tok("attr", "b", 25)>>, <<>>>>, <<>>)}

UpToTwo(S) == UNION {[1..n -> S] : n \in 0..2}
McBases == UpToTwo(BaseElements)
McGiven == [extends : {TRUE}, elems : UpToTwo(ChildElements)]
           \cup [extends : {FALSE}, elems : UpToTwo(BaseElements)]
=============================================================================
