----------------------------- MODULE ClientPage -----------------------------
(***************************************************************************)
(* A page of hydroprot from its template to the browser: the template is   *)
(* split by mdata_inv and by mdata, the client merges what mdata made with *)
(* the values the server sent, and converts each value to the characters   *)
(* it writes (DataMerge, PositionSplit, Convert).                          *)
(*                                                                         *)
(* A message is a byte for the type of a value, its bytes, the type of the *)
(* next, ...; the client is at a byte of it, and reads there what it takes *)
(* for a type and a value.                                                 *)
(***************************************************************************)
EXTENDS DataMerge

CONSTANTS
    VarLength, PlacesSize,                   \* of PositionSplit, and its stdio buffer
    Width, Groups, Bits, IntBits, Prec, Places, DigPrec, DigMax,
    Signed, Unsigned, Doubles,               \* of Convert
    Sizeof,     \* bytes of a value of each type
    Usual,      \* the values of a message, records [type, in]
    Others,     \* messages of other types
    Astray,     \* what the bytes where no value begins may be taken for
    Probe,      \* a template every value of Convert is merged with
    Wide        \* and one the other messages are

VARIABLES
    istage, ik, lengths, si, positions, ipending, ifile,   \* of PositionSplit
    kind, in, at, left, group, chars,                      \* of Convert: the next value
    auxb,       \* the byte of the message the client is at
    tag,        \* the type it read there
    sent,       \* the values the server sends
    shown       \* what those converted were written as

places == <<istage, ik, lengths, si, positions, ipending, ifile>>
conversion == <<kind, in, at, left, group, chars>>
message == <<auxb, tag, sent, shown>>
pageVars == <<vars, places, conversion, message>>

Pos == INSTANCE PositionSplit
       WITH stage <- istage, k <- ik, pending <- ipending, file <- ifile, StdioSize <- PlacesSize
Cvt == INSTANCE Convert WITH stage <- at, i <- left, aux <- group, out <- chars

\* The types of the message, and what converts them: 0 is no type; an int, a long
\* and a long long are signed, 1, 3 and 4; an unsigned int and an unsigned long long,
\* 2 and 5, are not; a float and a double are 6 and 7.  A long double, 8, and a char,
\* 9, are converted by nothing.
Types == 0..9
KindOf(type) ==
    IF type \in {1, 3, 4} THEN "signed" ELSE IF type \in {2, 5} THEN "unsigned" ELSE "double"

Sent(type, values) == {[type |-> type, in |-> v] : v \in values}
Messages == {[Usual EXCEPT ![1] = v] :
                v \in Sent(3, Signed) \cup Sent(5, Unsigned) \cup Sent(7, Doubles)}

\* The values of a type.
InType(kd, n) ==
    \/ kd = "signed" /\ n \in -Pow(2, Bits - 1)..(Pow(2, Bits - 1) - 1)
    \/ kd = "unsigned" /\ n \in 0..(Pow(2, Bits) - 1)
    \/ kd = "double" /\ n \in Int
WellTyped(f) == f.type \in Types /\ InType(KindOf(f.type), f.in)

\* The groups of the table are enough for every integer.
ASSUME ClientPageAssumption ==
    /\ Len(Usual) = Values /\ Values > 0
    /\ \A m \in {Usual} \cup Messages \cup Others : \A j \in 1..Values : WellTyped(m[j])
    /\ Astray # {} /\ \A f \in Astray : WellTyped(f)
    /\ Sizeof \in [Types -> Nat] /\ Sizeof[0] = 0
    /\ Probe \in Templates /\ Wide \in Templates
    /\ VarLength \in Nat /\ PlacesSize \in Nat /\ PlacesSize >= 3
    /\ Width \in Nat \ {0} /\ Groups \in Nat \ {0} /\ Bits \in Nat \ {0}
    /\ Pow(2, Bits) <= Pow(10, Groups * Width)
    /\ IntBits \in Nat /\ Prec \in Nat \ {0} /\ Places \in Nat /\ Prec <= Places
    /\ DigPrec \in Nat /\ DigMax \in Nat \ {0} /\ DigPrec <= DigMax

\* The client is to convert what it has received of the value it is at.
Calling == stage = "merge" /\ Len(shown) < k /\ Len(shown) < received

PageInit ==
    /\ \/ sent = Usual
       \/ sent \in Messages /\ tmpl = Probe
       \/ sent \in Others /\ tmpl = Wide
    /\ Init
    /\ Pos!Init
    /\ auxb = 0 /\ tag = sent[1].type
    /\ kind = KindOf(tag) /\ in = sent[1].in
    /\ Cvt!Init
    /\ shown = <<>>

\* mdata_inv splits the template before mdata does: both write fixed.dat.
SplitPlaces ==
    /\ Pos!Next
    /\ UNCHANGED <<vars, conversion, message>>

\* The values received are those the client can follow: behind a long double or a
\* char it takes the bytes of the value itself for types.
MergeStep ==
    /\ istage = "done" /\ ~Calling
    /\ Next
    /\ \A i \in 1..received' : sent[i].type \notin {8, 9}
    /\ UNCHANGED <<places, conversion, message>>

ConvertStep ==
    /\ Calling /\ tag # 0 /\ Cvt!Next
    /\ UNCHANGED <<vars, places, message>>

\* Mutant: a long is taken to have the size of an int.
MovedShort(type) ==
    IF type \in {0, 8, 9} THEN 1 ELSE IF type = 3 THEN 1 + Sizeof[1] ELSE 1 + Sizeof[type]

\* The bytes the client moves on: the type, and the value if it is converted.
Moved(type) == IF type \in {0, 8, 9} THEN 1 ELSE 1 + Sizeof[type]

\* Where the server put the type of a value.
FieldStart(i) == SumTo([j \in 1..Values |-> 1 + Sizeof[sent[j].type]], i - 1)

\* What the bytes at b are: the value that begins there, or anything.
FieldsAt(b) ==
    LET begins == {i \in 1..Values : FieldStart(i) = b}
    IN  IF begins = {} THEN Astray ELSE {sent[i] : i \in begins}

\* What convert made is written, nothing of no type, and the client goes on to what
\* the next bytes are.
ConvertReturns ==
    /\ Calling /\ (at = "done" \/ tag = 0)
    /\ shown' = Append(shown, chars)
    /\ auxb' = auxb + Moved(tag)
    /\ \E f \in FieldsAt(auxb + Moved(tag)) :
        tag' = f.type /\ kind' = KindOf(f.type) /\ in' = f.in /\ left' = f.in
    /\ at' = "start" /\ group' = Groups - 1 /\ chars' = <<>>
    /\ UNCHANGED <<vars, places, sent>>

PageNext == SplitPlaces \/ MergeStep \/ ConvertStep \/ ConvertReturns

PageSpec == PageInit /\ [][PageNext]_pageVars /\ WF_pageVars(PageNext)

-----------------------------------------------------------------------------
(* Properties *)

PageTypeOK == TypeOK /\ Pos!TypeOK /\ Cvt!TypeOK
IntegersRight == Cvt!IntegersRight
DoublesRight == Cvt!DoublesRight
TextsFirst == Pos!TextsFirst

\* The two splitters agree on every template: the places of the one are what the
\* lengths of the other add up to (mdata_inv.cc:52, mdata.cc:49).
SplittersAgree ==
    Fits /\ stage \notin {"split", "close"} =>
        /\ Len(positions) = Len(Header) - 1
        /\ \A i \in DOMAIN positions :
            positions[i] = SumTo([j \in DOMAIN Header |-> Header[j].n], i)

\* In the places of the variables the page shows the values in the order they were
\* sent: whatever their types, the client finds each at its own bytes of the message,
\* having moved on by as many as the server put there (client.cc:156-201).
ValuesShown ==
    stage = "done" /\ received >= k =>
        /\ Len(shown) = k
        /\ \A i \in 1..k :
            /\ sent[i].type = 0 => shown[i] = <<>>
            /\ sent[i].type \in 1..5 /\ sent[i].in # -Pow(2, Bits - 1) =>
                /\ ValueOf(Cvt!Unsign(shown[i])) = Cvt!Abs(sent[i].in)
                /\ (sent[i].in < 0) <=> (shown[i][1] = Cvt!Minus)
=============================================================================
