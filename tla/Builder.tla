------------------------------ MODULE Builder ------------------------------
(***************************************************************************)
(* The template compiler of hydroprot (builder.cc): a template becomes a   *)
(* C++ servlet whose doGet appends the texts and the variables of the      *)
(* template.  A template that extends another fills the blocks and the     *)
(* attributes of that one, which is then compiled in its place.            *)
(*                                                                         *)
(* A line is a sequence of tokens: texts, and tags that are whole.  A file *)
(* is known by the elements it is made of; the program sees its lines.     *)
(***************************************************************************)
EXTENDS Integers, Sequences, SequencesExt

CONSTANTS
    Names,    \* of variables, blocks and attributes
    Given,    \* the templates the compiler is run on: records [extends, elems]
    Bases,    \* the templates in inc/
    NoFile    \* none of them

VARIABLES
    given,    \* the template
    inc,      \* the template it extends, or NoFile
    stage,    \* "open", "collect", "compile", "search", "done", "refused" or
              \* "endless": a search that goes on behind the end of the file
    child,    \* the lines of the template
    base,     \* the lines that are compiled: those of the base, if there is one
    pos,      \* lines read of the file at hand
    aux,      \* the tokens of the lines gathered for a block
    mp,       \* what the child gives for each name: tokens, or none
    out       \* the statements of doGet

vars == <<given, inc, stage, child, base, pos, aux, mp, out>>

\* "quoting" is code with a quote in it, "broken" what is left of it once that is escaped,
\* and "percents" a percent sign that is doubled.
Tags == {"text", "percent", "percents", "newline", "break", "junk", "var", "code", "quoting",
         "broken", "comment", "attr", "open", "close", "extends"}
Token == [tag : Tags \ {"attr", "open"}, id : Names \cup {""}, val : Nat]
         \cup [tag : {"attr", "open"}, id : Names, val : Nat]
Element == [pre : Seq(Token), tag : Token \cup [tag : {"block"}, id : Names, val : Nat],
            suf : Seq(Token), body : Seq(Seq(Token))]

Tok(tag, id, val) == [tag |-> tag, id |-> id, val |-> val]
Break == Tok("break", "", 0)       \* a newline as it is
Newline == Tok("newline", "", 0)   \* one escaped, as C++ wants it
Junk == Tok("junk", "", 0)

-----------------------------------------------------------------------------
(* Files.  An element is one line [pre, tag, suf], or a block: its opening   *)
(* tag, the lines of its body and its closing tag in a row.                  *)

OpenTag(n) == Tok("open", n, 0)
CloseTag == Tok("close", "", 0)

\* A sequence of sequences as one.
Joined(ss) == LET upto[i \in 0..Len(ss)] == IF i = 0 THEN <<>> ELSE upto[i - 1] \o ss[i]
              IN  upto[Len(ss)]

LinesOf(e) ==
    IF e.tag.tag # "block" THEN <<e.pre \o <<e.tag>> \o e.suf>>
    ELSE LET k == Len(e.body) IN
         [i \in 1..k |-> (IF i = 1 THEN Append(e.pre, OpenTag(e.tag.id)) ELSE <<>>)
                         \o e.body[i]
                         \o (IF i = k THEN <<CloseTag>> \o e.suf ELSE <<>>)]

File(elems) == Joined([i \in DOMAIN elems |-> LinesOf(elems[i])])
GivenFile ==
    (IF given.extends THEN <<<<Tok("extends", "", 0)>>>> ELSE <<>>) \o File(given.elems)

\* Whether there is a base to fill: the one the template extends, if it opens.
Inherits == given.extends /\ inc # NoFile
\* The file that is compiled.
BaseElems == IF Inherits THEN inc ELSE given.elems
BaseFile == IF Inherits THEN File(inc) ELSE GivenFile

Init ==
    /\ given \in Given
    /\ inc \in IF given.extends THEN Bases \cup {NoFile} ELSE {NoFile}
    /\ child = GivenFile /\ base = BaseFile
    /\ stage = "open" /\ pos = 0 /\ aux = <<>>
    /\ mp = [n \in Names |-> <<>>]
    /\ out = <<>>

-----------------------------------------------------------------------------
(* Matching. *)

First(s, tags) == SelectInSeq(s, LAMBDA t : t.tag \in tags)
UpTo(s, i) == SubSeq(s, 1, i - 1)
Behind(s, i) == SubSeq(s, i + 1, Len(s))

Trim(s) ==
    LET from == SelectInSeq(s, LAMBDA t : t # Break)
    IN  IF from = 0 THEN <<>> ELSE SubSeq(s, from, SelectLastInSeq(s, LAMBDA t : t # Break))

\* The first block that is whole: from the first opening tag to the first closing
\* tag after it, whatever is in between.  There is one or none.
BlockIn(s) ==
    LET from == First(s, {"open"})
        to == SelectInSubSeq(s, from + 1, Len(s), LAMBDA t : t = CloseTag)
    IN  IF from = 0 \/ to = 0 THEN {}
        ELSE {[name |-> s[from].id, body |-> Trim(SubSeq(s, from + 1, to - 1)),
               behind |-> Behind(s, to)]}

\* In a literal a percent sign is doubled.
Literal(s) == [i \in DOMAIN s |-> IF s[i].tag = "percent" THEN [s[i] EXCEPT !.tag = "percents"]
                                  ELSE s[i]]
\* Quotes are escaped before anything is matched, those of code too.
Escaped(s) == [i \in DOMAIN s |-> IF s[i].tag = "quoting" THEN [s[i] EXCEPT !.tag = "broken"]
                                  ELSE s[i]]

AppendText(s) == [kind |-> "append", toks |-> s]
Value(t) == [kind |-> "value", toks |-> <<t>>]
Code(t) == [kind |-> "code", toks |-> <<t>>]

-----------------------------------------------------------------------------
(* The program. *)

\* A file that is missing, that cannot be opened or that is empty.
Refuse ==
    /\ stage = "open"
    /\ stage' = "refused"
    /\ UNCHANGED <<given, inc, child, base, pos, aux, mp, out>>

\* The first line tells whether there is a base; a base that cannot be opened is
\* replaced by the template itself.
Open ==
    /\ stage = "open" /\ child # <<>>
    /\ IF Inherits THEN stage' = "collect" /\ pos' = 1
       ELSE stage' = "compile" /\ pos' = 0
    /\ UNCHANGED <<given, inc, child, base, aux, mp, out>>

\* Mutant: what was gathered is kept when a block is found.
GatheredKept(s) == s

\* What is left of the lines gathered: nothing once they hold a block.
GatheredAfter(s) == IF BlockIn(s) # {} THEN <<>> ELSE s

\* A line of the child: an attribute, or more of a block.  Either starts afresh,
\* so an attribute inside a block loses the block.
Collect ==
    /\ stage = "collect" /\ pos < Len(child)
    /\ pos' = pos + 1
    /\ LET line == child[pos + 1]
           a == First(line, {"attr"})
       IN  IF a # 0
           THEN /\ mp' = [mp EXCEPT ![line[a].id] = <<Tok("text", "", line[a].val)>>]
                /\ aux' = <<>>
           ELSE \E gathered \in {aux \o line} :
                /\ \/ BlockIn(gathered) = {} /\ UNCHANGED mp
                   \/ \E b \in BlockIn(gathered) : mp' = [mp EXCEPT ![b.name] = Literal(b.body)]
                /\ aux' = GatheredAfter(gathered)
    /\ UNCHANGED <<given, inc, child, base, stage, out>>

CollectEnds ==
    /\ stage = "collect" /\ pos = Len(child)
    /\ stage' = "compile" /\ pos' = 0 /\ aux' = <<>>
    /\ UNCHANGED <<given, inc, child, base, mp, out>>

\* The tags in the order they are looked for, and what becomes of a line without.
Compiling(tags, others) ==
    /\ stage = "compile" /\ pos < Len(base)
    /\ First(base[pos + 1], tags) # 0
    /\ First(base[pos + 1], others) = 0
    /\ pos' = pos + 1
    /\ UNCHANGED <<given, inc, child, base, mp>>
Line == Escaped(base[pos + 1])

Substituted == {"attr", "open", "close", "extends"}
NonEmpty(s) == IF s = <<>> THEN <<>> ELSE <<AppendText(Literal(s))>>
WithNewline(s) == <<AppendText(Append(Literal(s), Newline))>>

CompileVariable ==
    LET i == First(Line, {"var"}) IN
    /\ Compiling({"var"}, {})
    /\ out' = out \o NonEmpty(UpTo(Line, i)) \o <<Value(Line[i])>> \o WithNewline(Behind(Line, i))
    /\ UNCHANGED <<stage, aux>>

CompileCode ==
    LET i == First(Line, {"code", "broken"}) IN
    /\ Compiling({"code", "quoting"}, {"var"})
    /\ out' = out \o NonEmpty(UpTo(Line, i)) \o <<Code(Line[i])>>
              \o (IF Behind(Line, i) = <<>> THEN <<>> ELSE WithNewline(Behind(Line, i)))
    /\ UNCHANGED <<stage, aux>>

CompileComment ==
    LET i == First(Line, {"comment"})
        rest == UpTo(Line, i) \o Behind(Line, i)
    IN
    /\ Compiling({"comment"}, {"var", "code", "quoting"})
    /\ out' = IF rest = <<>> THEN out ELSE out \o WithNewline(rest)
    /\ UNCHANGED <<stage, aux>>

CompileText ==
    /\ stage = "compile" /\ pos < Len(base)
    /\ First(Line, {"var", "code", "broken", "comment"} \cup Substituted) = 0
    /\ pos' = pos + 1
    /\ out' = out \o WithNewline(Line)
    /\ UNCHANGED <<given, inc, child, base, stage, aux, mp>>

\* What the child gives for a name, or what the base has for it.
Filled(n, default) ==
    IF mp[n] # <<>> THEN <<AppendText(mp[n])>>
    ELSE IF default # <<>> THEN <<AppendText(default)>> ELSE <<>>

\* The text before the first tag is written, whatever tag it is.
CompileAttr ==
    LET a == First(Line, {"attr"}) IN
    /\ Compiling({"attr"}, {"var", "code", "quoting", "comment"})
    /\ out' = out \o <<AppendText(Literal(UpTo(Line, First(Line, Substituted))))>>
              \o Filled(Line[a].id, <<Tok("text", "", Line[a].val)>>)
              \o WithNewline(Behind(Line, a))
    /\ UNCHANGED <<stage, aux>>

\* Any other tag begins the search for a block; it is the tag of one or not.
CompileTag ==
    /\ Compiling(Substituted, {"var", "code", "quoting", "comment", "attr"})
    /\ out' = Append(out, AppendText(Literal(UpTo(Line, First(Line, Substituted)))))
    /\ aux' = Line
    /\ stage' = "search"

\* Mutant: a line is not added, it ends the search.
SearchEnding ==
    /\ stage = "search" /\ BlockIn(aux) = {}
    /\ IF pos < Len(base) THEN stage' = "compile" ELSE stage' = "endless"
    /\ aux' = <<>>
    /\ UNCHANGED <<given, inc, child, base, pos, mp, out>>

\* Lines are added until there is a block in them.
SearchBlock ==
    /\ stage = "search" /\ BlockIn(aux) = {}
    /\ IF pos < Len(base)
       THEN /\ aux' = aux \o <<Break>> \o Line
            /\ pos' = pos + 1
            /\ UNCHANGED stage
       ELSE stage' = "endless" /\ UNCHANGED <<aux, pos>>
    /\ UNCHANGED <<given, inc, child, base, mp, out>>

\* The text of the child is put into the string the match refers to, so the text
\* behind the block may be anything once there is one.
CompileBlock ==
    /\ stage = "search"
    /\ \E b \in BlockIn(aux) :
        \E s \in {b.behind} \cup (IF mp[b.name] # <<>> /\ b.behind # <<>> THEN {<<Junk>>} ELSE {}) :
            out' = out \o Filled(b.name, b.body) \o WithNewline(s)
    /\ stage' = "compile" /\ aux' = <<>>
    /\ UNCHANGED <<given, inc, child, base, pos, mp>>

CompileEnds ==
    /\ stage = "compile" /\ pos = Len(base)
    /\ stage' = "done"
    /\ UNCHANGED <<given, inc, child, base, pos, aux, mp, out>>

Next ==
    \/ Refuse \/ Open \/ Collect \/ CollectEnds
    \/ CompileVariable \/ CompileCode \/ CompileComment \/ CompileText
    \/ CompileAttr \/ CompileTag \/ SearchBlock \/ CompileBlock \/ CompileEnds

Spec == Init /\ [][Next]_vars /\ WF_vars(Next)

-----------------------------------------------------------------------------
(* Properties *)

Statements == [kind : {"append", "value", "code"}, toks : Seq(Token)]

\* No more lines are read than there are, and only a search gathers lines of the base.
TypeOK ==
    /\ given \in Given /\ inc \in Bases \cup {NoFile}
    /\ stage \in {"open", "collect", "compile", "search", "done", "refused", "endless"}
    /\ child = GivenFile /\ base = BaseFile
    /\ pos \in 0..(IF stage \in {"open", "collect"} THEN Len(child) ELSE Len(base))
    /\ aux \in Seq(Token) /\ (stage \in {"open", "compile", "done"} => aux = <<>>)
    /\ mp \in [Names -> Seq(Token)]
    /\ out \in Seq(Statements)

\* Elements that mean what they look like: text around one tag, and blocks of text.
\* A tag inside a block, a tag of its own, a quote in code are not what they seem; a
\* block has a line at least, that of its tags.
Plain(s) == \A i \in DOMAIN s : s[i].tag \in {"text", "percent"}
Sound(e) ==
    /\ Plain(e.pre) /\ Plain(e.suf)
    /\ e.tag.tag \in {"text", "percent", "var", "code", "comment", "attr", "block"}
    /\ e.tag.tag = "block" => e.body # <<>> /\ \A i \in DOMAIN e.body : Plain(e.body[i])

\* What a sound child gives for a name: the last block or attribute of that name,
\* the lines of a block run together.
Override(n) ==
    LET i == SelectLastInSeq(given.elems, LAMBDA e : e.tag.tag \in {"block", "attr"} /\ e.tag.id = n)
        e == given.elems[i]
    IN  IF ~Inherits \/ i = 0 THEN <<>>
        ELSE IF e.tag.tag = "attr" THEN <<Tok("text", "", e.tag.val)>>
        ELSE Literal(Joined(e.body))

\* The lines of a block of the base, newlines and all.
WithBreaks(body) ==
    Trim(Joined([i \in DOMAIN body |-> IF i = 1 THEN body[i] ELSE <<Break>> \o body[i]]))

\* What an element of the base stands for.
Rendered(e) ==
    LET pre == Literal(e.pre)  suf == Literal(e.suf)
        default == IF e.tag.tag = "attr" THEN <<Tok("text", "", e.tag.val)>> ELSE WithBreaks(e.body)
        own == IF Override(e.tag.id) # <<>> THEN Override(e.tag.id) ELSE default
    IN  CASE e.tag.tag \in {"attr", "block"} -> pre \o own \o Append(suf, Newline)
          [] e.tag.tag = "comment" ->
                IF pre \o suf = <<>> THEN <<>> ELSE pre \o Append(suf, Newline)
          [] e.tag.tag = "code" ->
                pre \o <<e.tag>> \o (IF suf = <<>> THEN <<>> ELSE Append(suf, Newline))
          [] OTHER -> pre \o Literal(<<e.tag>>) \o Append(suf, Newline)

SoundPage ==
    /\ given.extends => inc # NoFile
    /\ \A i \in DOMAIN given.elems : Sound(given.elems[i])
    /\ \A i \in DOMAIN BaseElems :
        /\ Sound(BaseElems[i])
        /\ BaseElems[i].tag.tag = "block" /\ Override(BaseElems[i].tag.id) # <<>>
            => BaseElems[i].suf = <<>>

\* No block, of the child or of the base, has text on more than one line; the tags may
\* stand on lines of their own.
OneLine(e) == \A i, j \in DOMAIN e.body : e.body[i] # <<>> /\ e.body[j] # <<>> => i = j
OneLinePage ==
    /\ \A i \in DOMAIN given.elems : OneLine(given.elems[i])
    /\ \A i \in DOMAIN BaseElems : OneLine(BaseElems[i])

Page == Joined([i \in DOMAIN BaseElems |-> Rendered(BaseElems[i])])
Written == Joined([i \in DOMAIN out |-> out[i].toks])

\* The servlet appends what the elements of the base stand for, each once and in
\* order, the blocks and attributes as the child gives them wherever it gives any:
\* the lines gathered for one block never reach another (builder.cc:70-75), and the
\* search for the end of a block takes its lines and no more (builder.cc:143-148).
\* Blocks of several lines of text are left out: a child's come out in one line
\* (builder.cc:70), which test/test3.html shows in several, and a base's in a literal
\* with a newline in it (builder.cc:147-154), which is no C++.
PageCompiled == stage = "done" /\ SoundPage /\ OneLinePage => Written = Page

\* The compiler ends when every tag that starts a search is that of a block or has
\* one behind it; behind the last one it would search for ever (builder.cc:143).
Searches(e) == e.tag.tag \in {"open", "close"} /\ Plain(e.pre) /\ Plain(e.suf)
BlockFrom(i) == \E j \in i..Len(BaseElems) : BaseElems[j].tag.tag = "block"
Closes ==
    /\ given.extends /\ inc = NoFile => BlockFrom(1)
    /\ \A i \in DOMAIN BaseElems : Sound(BaseElems[i]) \/ (Searches(BaseElems[i]) /\ BlockFrom(i))
CompilationEnds == (Closes /\ stage \in {"collect", "compile"}) ~> (stage = "done")
=============================================================================
