--------------------------- MODULE RequestTokens ---------------------------
(***************************************************************************)
(* How a handler reads a request (HttpRequest.cc, HttpRequest.hh): one     *)
(* recv into an array on the stack of its thread, then six tokens between  *)
(* blanks.  The number of bytes received is not looked at: behind them the *)
(* array holds what it held before.                                        *)
(*                                                                         *)
(* A cell of the array is a piece of a token: a word, a segment of a path  *)
(* with its slash, a NUL byte, which is no blank; or a blank.              *)
(***************************************************************************)
EXTENDS Integers, Sequences, FiniteSetsExt

CONSTANTS
    BufferSize,   \* cells of the array: 8192 bytes
    Frames,       \* what it may hold before: sequences of cells
    Messages      \* what clients send: sequences of cells

VARIABLES
    stage,     \* "idle", "read", "tokens", "parsed", "done" or "thrown"
    data,      \* the array
    sent,      \* the request
    arrived,   \* cells of it that recv put into data
    cursor,    \* where the next token is looked for
    tokens,    \* where those found start and end
    method     \* GET, POST or UNIMPLEMENTED

vars == <<stage, data, sent, arrived, cursor, tokens, method>>

Cells == [kind : {"word", "segment", "blank", "nul"}, name : STRING]
Cell(kind, name) == [kind |-> kind, name |-> name]
Blank == Cell("blank", "")
Nul == Cell("nul", "")

\* The thread of a connection starts: the array is not initialized.
Begin ==
    /\ stage \in {"idle", "done"}
    /\ data' \in Frames /\ sent' \in Messages
    /\ arrived' = 0 /\ cursor' = 1 /\ tokens' = <<>>
    /\ method' = "uninitialized"
    /\ stage' = "read"

Init ==
    /\ stage = "idle"
    /\ data = [i \in 1..BufferSize |-> Nul] /\ sent = <<>>
    /\ arrived = 0 /\ cursor = 1 /\ tokens = <<>>
    /\ method = "uninitialized"

\* recv: as much of the request as has come, or nothing at all.
Read ==
    /\ stage = "read"
    /\ arrived' \in 0..Min({Len(sent), BufferSize})
    /\ data' = [i \in 1..BufferSize |-> IF i <= arrived' THEN sent[i] ELSE data[i]]
    /\ stage' = "tokens"
    /\ UNCHANGED <<sent, cursor, tokens, method>>

\* The first cell from i on that is a blank, or is none; behind the array if all are.
FirstFrom(i, blank) ==
    Min({j \in i..BufferSize : (data[j] = Blank) <=> blank} \cup {BufferSize + 1})
TokenStart == FirstFrom(cursor, FALSE)
TokenEnd == FirstFrom(TokenStart, TRUE)

MethodOf(cell) == IF cell.name \in {"GET", "POST"} THEN cell.name ELSE "UNIMPLEMENTED"

\* Mutant: the cursor is passed by value.
NextTokenAgain ==
    /\ stage = "tokens" /\ TokenEnd <= BufferSize
    /\ tokens' = Append(tokens, [from |-> TokenStart, to |-> TokenEnd - 1])
    /\ method' = IF tokens = <<>> THEN MethodOf(data[TokenStart]) ELSE method
    /\ stage' = IF Len(tokens') = 6 THEN "parsed" ELSE "tokens"
    /\ UNCHANGED <<data, sent, arrived, cursor>>

\* getNextToken: blanks, then what is none up to a blank.  Of the six tokens the
\* first tells the method and the second is the url.
NextToken ==
    /\ stage = "tokens" /\ TokenEnd <= BufferSize
    /\ tokens' = Append(tokens, [from |-> TokenStart, to |-> TokenEnd - 1])
    /\ cursor' = TokenEnd
    /\ method' = IF tokens = <<>> THEN MethodOf(data[TokenStart]) ELSE method
    /\ stage' = IF Len(tokens') = 6 THEN "parsed" ELSE "tokens"
    /\ UNCHANGED <<data, sent, arrived>>

\* A token that does not end in the array: nobody catches what is thrown.
Throw ==
    /\ stage = "tokens" /\ TokenEnd > BufferSize
    /\ stage' = "thrown"
    /\ UNCHANGED <<data, sent, arrived, cursor, tokens, method>>

Next == Begin \/ Read \/ NextToken \/ Throw

-----------------------------------------------------------------------------
Url == SubSeq(data, tokens[2].from, tokens[2].to)

\* The tokens of a message that end within what arrived of it, each between blanks.
Ended ==
    {p \in (1..arrived) \X (1..arrived) :
        /\ p[1] < p[2] /\ sent[p[2]] = Blank
        /\ \A i \in p[1]..(p[2] - 1) : sent[i] # Blank
        /\ p[1] = 1 \/ sent[p[1] - 1] = Blank}
\* The nth of them.
Nth(n) == CHOOSE p \in Ended : Cardinality({q \in Ended : q[1] <= p[1]}) = n
UrlSent == SubSeq(sent, Nth(2)[1], Nth(2)[2] - 1)

\* The array is as it was behind what arrived, and the tokens are apart and in order.
TypeOK ==
    /\ stage \in {"idle", "read", "tokens", "parsed", "done", "thrown"}
    /\ arrived \in 0..Min({Len(sent), BufferSize})
    /\ cursor \in 1..BufferSize
    /\ Len(tokens) \in 0..6
    /\ \A i \in DOMAIN tokens :
        /\ tokens[i].from <= tokens[i].to /\ tokens[i].to < cursor
        /\ i > 1 => tokens[i - 1].to < tokens[i].from
    /\ method = "uninitialized" <=> tokens = <<>>
=============================================================================
