------------------------------- MODULE MCSite -------------------------------
(* File systems for FileSysLoad, and requests for two of them. *)
EXTENDS Site

McStart == <<"srv">>
H == McStart \o <<"htdocs">>
Above == {<<>>, McStart, H}

\* Every choice of subdirectories, and of files at each level, one of which may be
\* locked, with a file of the same name beside htdocs.
Shallow ==
    {t \in {[dirs |-> Above \cup D, files |-> F, closed |-> {}, shut |-> {},
             locked |-> F \cap L] :
               L \in {{}, {H \o <<"a", "f">>}},
               D \in SUBSET {H \o <<"a">>, H \o <<"b">>},
               F \in SUBSET {McStart \o <<"f">>, H \o <<"f">>, H \o <<"index.html">>,
                             H \o <<"a", "f">>, H \o <<"b", "f">>}} :
        \A p \in t.files : Parent(p) \in t.dirs}

\* A second level of subdirectories, any of which may be closed.
Deep ==
    {[dirs |-> Above \cup {H \o <<"a">>, H \o <<"a", "b">>, H \o <<"a", "c">>},
      files |-> F, closed |-> C, shut |-> {}, locked |-> {}] :
        C \in SUBSET {H, H \o <<"a">>, H \o <<"a", "b">>, H \o <<"a", "c">>},
        F \in SUBSET {McStart \o <<"f">>, H \o <<"f">>, H \o <<"a", "f">>, H \o <<"a", "b", "f">>}}

\* Two levels, all of them open.
TwoLevels ==
    {[dirs |-> Above \cup {H \o <<"a">>, H \o <<"a", "b">>},
      files |-> {H \o <<"a", "b", "f">>}, closed |-> {}, shut |-> {}, locked |-> {}]}

\* Two levels, some of which can be read but not entered.
Barred ==
    {[dirs |-> Above \cup {H \o <<"a">>, H \o <<"a", "b">>},
      files |-> F, closed |-> {}, shut |-> C, locked |-> {}] :
        C \in SUBSET {H, H \o <<"a">>, H \o <<"a", "b">>} \ {{}},
        F \in {{H \o <<"f">>, H \o <<"a", "f">>}, {McStart \o <<"f">>, H \o <<"a", "b", "f">>}}}

McTrees == Shallow \cup Deep \cup Barred

\* A directory beside index.html, with its file locked or not.
McServed ==
    {[dirs |-> Above \cup {H \o <<"a">>}, closed |-> {}, shut |-> {}, locked |-> L,
      files |-> {McStart \o <<"f">>, H \o <<"f">>, H \o <<"index.html">>, H \o <<"a", "f">>}] :
        L \in {{}, {H \o <<"a", "f">>}}}

-----------------------------------------------------------------------------
Cell(kind, name) == [kind |-> kind, name |-> name]
Blank == Cell("blank", "")
B == <<Blank>>
W(name) == <<Cell("word", name)>>
S(name) == <<Cell("segment", name)>>

Urls == {S("f"), S("a") \o S("f"), S("a") \o S(""), S("f") \o W("x"), S("") \o S("f"), S("missing")}
\* Six tokens; five, and no blank behind them; a url alone; a token longer than the array.
Full(url) == W("GET") \o B \o url \o B \o W("HTTP") \o B \o W("Host") \o B \o W("x") \o B
             \o W("Accept") \o B
Terse(url) == B \o W("POST") \o B \o B \o url \o B \o W("HTTP") \o B \o W("Host") \o B \o W("x")
Overlong == [i \in 1..16 |-> Cell("word", "x")]
McMessages == {Full(u) : u \in Urls} \cup {Terse(S("f")), W("GET") \o B, Overlong}

Zeros == [i \in 1..15 |-> Cell("nul", "")]
\* Zeros, what a request that took all of the array left, and zeros with a blank.
McFrames == {Zeros, W("GET") \o B \o S("a") \o S("f") \o B \o W("HTTP") \o B \o W("Host") \o B
                    \o W("x") \o B \o W("y") \o B \o W("z") \o B,
             [Zeros EXCEPT ![15] = Blank]}
=============================================================================
