----------------------------- MODULE CspServlet -----------------------------
(***************************************************************************)
(* CSP servlets: a doGet that appends a page to the Buffer of its request. *)
(* Some are written by hand (CspServlet.cc), others are what the template  *)
(* compiler makes of a template (Builder); a servlet of one's own may      *)
(* append anything (Buffer).  A servlet runs once its program is there and *)
(* compiles.  The code of a template is C++, and makes loops and branches  *)
(* of the statements around it.                                            *)
(***************************************************************************)
EXTENDS Buffer, Numbers, Sequences

CONSTANTS
    Names, Given, Bases, NoFile,   \* the templates: see Builder
    Rounds,                        \* numbers appended by each page written by hand
    DefaultSize,                   \* size of the Buffer of a request
    Width                          \* characters printed for each tag of a token

VARIABLES
    given, inc, stage, child, base, pos, aux, mp, out,   \* of the compiler
    servlet,   \* a page written by hand, "generated", or "own"
    step       \* the statement of doGet executed last, 0 before any

compiler == <<given, inc, stage, child, base, pos, aux, mp, out>>
cspVars == <<vars, compiler, servlet, step>>

Bld == INSTANCE Builder

\* The pages of CspServlet.cc; init, which would register them, is never called.
Pages == {"aa.csp", "bb.csp", "cc.csp", "100.csp", "1k.csp", "10k.csp"}

ASSUME CspAssumption ==
    /\ NoFile \notin Bases
    /\ Rounds \in [Pages -> Nat]
    /\ "int" \in Types /\ DefaultSize \in InitSizes
    /\ Given \subseteq [extends : BOOLEAN, elems : Seq(Bld!Element)]
    /\ Bases \subseteq Seq(Bld!Element) /\ Width \in [Bld!Tags -> Nat]
    /\ [extends |-> FALSE, elems |-> <<>>] \in Given

-----------------------------------------------------------------------------
(* A statement prints a text or an int of n characters, or is code, which is   *)
(* taken to append nothing itself.                                             *)
Statement(kind, n) == [kind |-> kind, n |-> n]

\* The number appended in round i, and the statements of a round.
NumberAt(page, i) ==
    CASE page = "aa.csp" -> i
      [] page = "bb.csp" -> i * i
      [] page = "cc.csp" -> i + i
      [] OTHER -> 1
RoundOf(page) == IF page \in {"aa.csp", "cc.csp"} THEN <<"int", "text">> ELSE <<"int">>

\* doGet of a page written by hand: "<html>\n<body>\n", the rounds, "</body>\n</html>\n".
HandSteps(page) == Rounds[page] * Len(RoundOf(page)) + 2

\* Mutant: the numbers begin at one.
HandStepFromOne(page, k) ==
    LET round == RoundOf(page)
        i == (k - 2) \div Len(round)
    IN  IF k = 1 THEN Statement("text", 14)
        ELSE IF k = HandSteps(page) THEN Statement("text", 16)
        ELSE IF round[1 + ((k - 2) % Len(round))] = "text" THEN Statement("text", 1)
        ELSE Statement("int", Digits(NumberAt(page, i + 1)))

HandStep(page, k) ==
    LET round == RoundOf(page)
        i == (k - 2) \div Len(round)
    IN  IF k = 1 THEN Statement("text", 14)
        ELSE IF k = HandSteps(page) THEN Statement("text", 16)
        ELSE IF round[1 + ((k - 2) % Len(round))] = "text" THEN Statement("text", 1)
        ELSE Statement("int", Digits(NumberAt(page, i)))

WidthOf(toks) == SumTo([i \in DOMAIN toks |-> Width[toks[i].tag]], Len(toks))

\* doGet of a page that was compiled.  A text is printed with "%s".
GeneratedStep(s) ==
    CASE s.kind = "append" -> Statement("text", WidthOf(s.toks))
      [] s.kind = "value" -> Statement("int", WidthOf(s.toks))
      [] s.kind = "code" -> Statement("code", 0)

Steps == IF servlet \in Pages THEN HandSteps(servlet) ELSE Len(out)
StepAt(k) == IF servlet \in Pages THEN HandStep(servlet, k) ELSE GeneratedStep(out[k])
IsCode(k) == k \in 1..Steps /\ StepAt(k).kind = "code"

Straight == ~(\E k \in 1..Steps : IsCode(k))

\* What the compiler wrote is C++: no literal goes on in the next line, as that of a
\* block of the base of several lines does (builder.cc:147-154), and no code has its
\* quotes escaped (builder.cc:82).
Builds == \A i \in DOMAIN out : \A j \in DOMAIN out[i].toks :
    LET t == out[i].toks[j] IN t # Bld!Break /\ ~(t.tag = "broken" /\ out[i].kind = "code")

\* The statement that was executed last when the one behind k is next.  Code may be a
\* loop, a branch or a return, and the statement directly behind it the body of one: from
\* either, control goes anywhere, back only while the page is short.
Behind(k) ==
    IF IsCode(k) \/ IsCode(k - 1) THEN {j \in 0..Steps : j >= k \/ length < MaxLength} ELSE {k}

-----------------------------------------------------------------------------
CspInit ==
    /\ Init /\ Bld!Init
    /\ servlet \in Pages \cup {"generated", "own"}
    /\ servlet # "own" => size = DefaultSize /\ length = 0
    /\ servlet # "generated" => given.elems = <<>> /\ ~given.extends
    /\ step = 0

Compile ==
    /\ servlet = "generated"
    /\ Bld!Next
    /\ UNCHANGED <<vars, servlet, step>>

\* The next statement of doGet.
DoGet ==
    /\ servlet \in Pages \/ (servlet = "generated" /\ stage = "done" /\ Builds)
    /\ step < Steps
    /\ \E s \in {StepAt(step + 1)} :
        \/ s.kind = "text" /\ AppendText(s.n, s.n)
        \/ s.kind = "int" /\ AppendNumber("int", s.n)
        \/ s.kind = "code" /\ UNCHANGED vars
    /\ step' \in Behind(step + 1)
    /\ UNCHANGED <<compiler, servlet>>

\* A servlet of one's own.
AppendOwn ==
    /\ servlet = "own"
    /\ Next
    /\ UNCHANGED <<compiler, servlet, step>>

CspNext == Compile \/ DoGet \/ AppendOwn

CspSpec == CspInit /\ [][CspNext]_cspVars /\ WF_cspVars(Compile)

-----------------------------------------------------------------------------
(* Properties *)

CspTypeOK == TypeOK /\ Bld!TypeOK /\ step \in 0..Steps
PageCompiled == Bld!PageCompiled
CompilationEnds == Bld!CompilationEnds

Done == servlet # "own" /\ (servlet = "generated" => stage = "done") /\ step = Steps

\* The characters of a page written by hand: what is around the numbers, and for each
\* number its digits, one for every power of ten it reaches.
HandWidth(page) ==
    30 + Rounds[page] * (Len(RoundOf(page)) - 1)
       + Cardinality({p \in (0..(Rounds[page] - 1)) \X (0..9) :
                       p[2] = 0 \/ NumberAt(page, p[1]) >= Pow(10, p[2])})

\* The page without its code.
ShownWidth(toks) ==
    SumTo([i \in DOMAIN toks |-> IF toks[i].tag = "code" THEN 0 ELSE Width[toks[i].tag]], Len(toks))

\* When doGet is done the buffer holds the page and nothing else: as many characters
\* as the numbers of a page written by hand (CspServlet.cc:31-122), or the elements of a
\* template without code, have, through every growth of the buffer and with nothing
\* hidden.  A percent sign prints as the two characters the compiler makes of it, although
\* append prints a text as it is (builder.cc:35, Buffer.hh:34).  Code may print a text any
\* number of times or not at all.
PagePrinted ==
    Done =>
        /\ servlet \in Pages => length = HandWidth(servlet)
        /\ servlet = "generated" /\ Bld!SoundPage /\ Bld!OneLinePage /\ Straight
            => length = ShownWidth(Bld!Page)
=============================================================================
