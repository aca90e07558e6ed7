--------------------------- MODULE PositionSplit ---------------------------
(***************************************************************************)
(* The other splitter of hydroprot (mdata_inv.cc): fixed.dat is the texts  *)
(* between the variables, a line with a "-", and for each variable the     *)
(* place where it goes in those texts.                                     *)
(*                                                                         *)
(* Here the texts are written with write, and what follows them is printed *)
(* with fprintf, before and between them: it comes last only because it    *)
(* waits in stdio's buffer.                                                *)
(***************************************************************************)
EXTENDS Numbers, Sequences

CONSTANTS
    Templates,     \* [pre |-> lengths of the texts before each variable, rest |-> of the last]
    VarLength,     \* characters of a variable in the template
    StdioSize      \* bytes the buffer of a FILE holds, at least 3: 4096

VARIABLES
    tmpl,       \* the template
    stage,      \* "split", "close" or "done"
    k,          \* variables met so far
    lengths,    \* characters of those variables
    si,         \* bytes of text written
    positions,  \* what was printed for them
    pending,    \* bytes in stdio's buffer
    file        \* fixed.dat: items "text" and "places", with their bytes

vars == <<tmpl, stage, k, lengths, si, positions, pending, file>>

Variables == Len(tmpl.pre)
Before(i) == SumTo(tmpl.pre, i - 1)
\* Where the variable i begins in the template.
Position(i) == Before(i + 1) + (i - 1) * VarLength
Size == Before(Variables + 1) + Variables * VarLength + tmpl.rest

Item(kind, n) == IF n = 0 THEN <<>> ELSE <<[kind |-> kind, n |-> n]>>

\* The line with the "-" and the one before it: three bytes that stay in the buffer.
Init ==
    /\ tmpl \in Templates
    /\ stage = "split" /\ k = 0
    /\ lengths = 0 /\ si = 0
    /\ positions = <<>>
    /\ pending = 3 /\ file = <<>>

\* Mutant: stdio has no buffer.
FlushedAtOnce(n) == pending + n

\* fprintf of n bytes: when they overflow the buffer whole blocks are written.
Flushed(n) == IF pending + n <= StdioSize THEN 0 ELSE ((pending + n) \div StdioSize) * StdioSize

\* Mutant: the variable is counted before its place is printed.
SplitCountingFirst ==
    LET place == Position(k + 1) - (lengths + VarLength)
        bytes == (IF place < 0 THEN 1 ELSE 0) + Digits(IF place < 0 THEN -place ELSE place) + 1
    IN
    /\ stage = "split" /\ k < Variables
    /\ file' = file \o Item("text", tmpl.pre[k + 1]) \o Item("places", Flushed(bytes))
    /\ pending' = pending + bytes - Flushed(bytes)
    /\ positions' = Append(positions, place)
    /\ si' = si + tmpl.pre[k + 1]
    /\ lengths' = lengths + VarLength
    /\ k' = k + 1
    /\ UNCHANGED <<tmpl, stage>>

\* A variable: the text before it is written, and its place without those before it
\* is printed.
SplitVariable ==
    LET place == Position(k + 1) - lengths
        bytes == Digits(place) + 1
    IN
    /\ stage = "split" /\ k < Variables
    /\ file' = file \o Item("text", tmpl.pre[k + 1]) \o Item("places", Flushed(bytes))
    /\ pending' = pending + bytes - Flushed(bytes)
    /\ positions' = Append(positions, place)
    /\ si' = si + tmpl.pre[k + 1]
    /\ lengths' = lengths + VarLength
    /\ k' = k + 1
    /\ UNCHANGED <<tmpl, stage>>

\* The text behind the last variable, if there is one.
SplitRest ==
    /\ stage = "split" /\ k = Variables
    /\ file' = file \o Item("text", Size - si - lengths)
    /\ stage' = "close"
    /\ UNCHANGED <<tmpl, k, lengths, si, positions, pending>>

\* fclose writes what is left in the buffer.
Close ==
    /\ stage = "close"
    /\ file' = file \o Item("places", pending)
    /\ pending' = 0
    /\ stage' = "done"
    /\ UNCHANGED <<tmpl, k, lengths, si, positions>>

Next == SplitVariable \/ SplitRest \/ Close

-----------------------------------------------------------------------------
(* Properties *)

\* No more is pending than the buffer holds, and the text written is that before k.
TypeOK ==
    /\ tmpl \in Templates
    /\ stage \in {"split", "close", "done"}
    /\ k \in 0..Variables /\ Len(positions) = k
    /\ lengths = k * VarLength /\ si = Before(k + 1)
    /\ pending \in 0..StdioSize
    /\ \A i \in DOMAIN file : file[i].kind \in {"text", "places"} /\ file[i].n \in Nat \ {0}

BytesOf(kind) == SumTo([i \in DOMAIN file |-> IF file[i].kind = kind THEN file[i].n ELSE 0], Len(file))
PlacesBytes == 3 + SumTo([i \in 1..Variables |-> Digits(Before(i + 1)) + 1], Variables)

\* fixed.dat is all of the text and nothing in between, then the places, as long as
\* the places fit in stdio's buffer, although they are printed between the texts and
\* the "-" before all of them (mdata_inv.cc:47-58).
TextsFirst ==
    stage = "done" /\ PlacesBytes <= StdioSize =>
        /\ \A i, j \in DOMAIN file : file[i].kind = "places" /\ file[j].kind = "text" => j < i
        /\ BytesOf("text") = Before(Variables + 1) + tmpl.rest
        /\ BytesOf("places") = PlacesBytes
=============================================================================
