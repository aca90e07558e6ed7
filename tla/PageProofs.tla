----------------------------- MODULE PageProofs -----------------------------
(***************************************************************************)
(* Proofs about ClientPage: what mdata and mdata_inv have written when the *)
(* client reads it, for every template, buffer and width of a number.      *)
(***************************************************************************)
EXTENDS ClientPage, Induction, SequenceTheorems

LEMMA AppendTo ==
    ASSUME NEW S, NEW s \in Seq(S), NEW e \in S
    PROVE  /\ Append(s, e) \in Seq(S)
           /\ Len(Append(s, e)) = Len(s) + 1
           /\ \A i \in 1..Len(s) : Append(s, e)[i] = s[i]
           /\ Append(s, e)[Len(s) + 1] = e
           /\ s \o <<e>> = Append(s, e)
  OBVIOUS

LEMMA SequenceParts ==
    ASSUME NEW S, NEW s \in Seq(S)
    PROVE  /\ Len(s) \in Nat /\ DOMAIN s = 1..Len(s) /\ s \o <<>> = s
           /\ \A i \in 1..Len(s) : s[i] \in S
  OBVIOUS

\* What is assumed of the numbers among the constants.
LEMMA Parameters ==
    /\ VarLength \in Nat /\ PlacesSize \in Nat /\ PlacesSize >= 3 /\ Values > 0
    /\ Width \in Nat \ {0} /\ Groups \in Nat \ {0} /\ Bits \in Nat \ {0}
  BY ClientPageAssumption, Zenon

LEMMA TemplateTypes ==
    tmpl \in Templates => /\ tmpl.pre \in Seq(Nat) /\ tmpl.rest \in Nat /\ Variables \in Nat
                          /\ \A i \in 1..Variables : tmpl.pre[i] \in Nat
                          /\ SumTo(tmpl.pre, Variables) \in Nat
<1> SUFFICES ASSUME tmpl \in Templates
             PROVE  /\ tmpl.pre \in Seq(Nat) /\ tmpl.rest \in Nat /\ Variables \in Nat
                    /\ \A i \in 1..Variables : tmpl.pre[i] \in Nat
                    /\ SumTo(tmpl.pre, Variables) \in Nat
  OBVIOUS
<1>1. tmpl.pre \in Seq(Nat) /\ tmpl.rest \in Nat
  BY DataMergeAssumption
<1>2. Variables \in Nat /\ \A i \in 1..Variables : tmpl.pre[i] \in Nat
  BY <1>1 DEF Variables
<1> QED BY <1>1, <1>2, SumType

-----------------------------------------------------------------------------
(* The lengths before the texts *)

LengthsOf(n) == [i \in 1..n |-> Item("len", tmpl.pre[i])]
AllLengths == Append(LengthsOf(Variables), Item("last", tmpl.rest))

\* As long as the texts fit in the buffer they wait there, and the file has the
\* lengths only; closing it adds the texts.
Splitting ==
    /\ tmpl \in Templates
    /\ stage = "split" => k \in 0..Variables
    /\ Fits => 
        /\ stage = "split" => file = LengthsOf(k) /\ pending = SumTo(tmpl.pre, k)
        /\ stage = "close" => file = AllLengths /\ pending = Total(tmpl)
        /\ stage \notin {"split", "close"} => file = AllLengths \o Text(Total(tmpl))

LEMMA NothingFlushed ==
    ASSUME NEW n \in Nat, pending \in Nat, pending + n <= StdioSize
    PROVE  /\ Text(Flushed(n)) = <<>>
           /\ Fprintf(n) => pending' = pending + n
  BY DEF Text, Flushed, Fprintf

LEMMA SplittingInit == Init => Splitting
<1> SUFFICES ASSUME Init PROVE Splitting
  OBVIOUS
<1>1. tmpl \in Templates /\ stage = "split" /\ k = 0 /\ file = <<>> /\ pending = 0
  BY DEF Init
<1>2. LengthsOf(0) = <<>>
  BY DEF LengthsOf
<1>3. SumTo(tmpl.pre, 0) = 0
  BY SumFirst
<1>4. Variables \in Nat
  BY <1>1, TemplateTypes
<1> QED BY <1>1, <1>2, <1>3, <1>4 DEF Splitting

LEMMA SplittingVariable == Splitting /\ SplitVariable => Splitting'
<1> SUFFICES ASSUME Splitting, SplitVariable PROVE Splitting'
  OBVIOUS
<1>1. /\ tmpl \in Templates /\ k \in 0..Variables
      /\ Fits => file = LengthsOf(k) /\ pending = SumTo(tmpl.pre, k)
  BY DEF Splitting, SplitVariable
<1> DEFINE n == tmpl.pre[k + 1]
<1>2. /\ stage = "split" /\ k < Variables /\ k' = k + 1
      /\ file' = file \o <<Item("len", n)>> \o Text(Flushed(n)) /\ Fprintf(n)
      /\ tmpl' = tmpl /\ stage' = stage
  BY DEF SplitVariable
<1>3. /\ Variables \in Nat /\ k \in Nat /\ k + 1 \in 1..Variables /\ n \in Nat
      /\ \A i \in 1..(k + 1) : tmpl.pre[i] \in Nat
      /\ tmpl.rest \in Nat
  BY <1>1, <1>2, TemplateTypes, SMTT(30)
<1>4. SumTo(tmpl.pre, k + 1) = SumTo(tmpl.pre, k) + n
  BY <1>3, SumNext
<1>5. SumTo(tmpl.pre, k) \in Nat
  BY <1>3, SumType
<1>6. ASSUME Fits PROVE file' = LengthsOf(k + 1) /\ pending' = SumTo(tmpl.pre, k + 1)
  <2>1. SumTo(tmpl.pre, k + 1) <= SumTo(tmpl.pre, Variables)
    BY <1>1, <1>3, TemplateTypes, SumGrows
  <2>2. SumTo(tmpl.pre, Variables) \in Nat /\ SumTo(tmpl.pre, Variables) + tmpl.rest <= StdioSize
    BY <1>1, <1>6, TemplateTypes DEF Fits, Total, Variables
  <2>3. pending \in Nat /\ pending + n <= StdioSize
    BY <1>1, <1>3, <1>4, <1>5, <1>6, <2>1, <2>2, DataMergeAssumption, SMTT(30)
  <2>4. Text(Flushed(n)) = <<>> /\ pending' = pending + n
    BY <1>2, <1>3, <2>3, NothingFlushed
  <2>5. file' = LengthsOf(k) \o <<Item("len", n)>> \o <<>>
    BY <1>1, <1>2, <1>6, <2>4
  <2>6. LengthsOf(k) \o <<Item("len", n)>> \o <<>> = LengthsOf(k + 1)
    BY <1>3 DEF LengthsOf
  <2> QED BY <1>1, <1>4, <1>6, <2>4, <2>5, <2>6
<1> HIDE DEF n
<1>7. Variables' = Variables /\ Fits' = Fits /\ SumTo(tmpl.pre, k)' = SumTo(tmpl.pre, k + 1)
      /\ LengthsOf(k)' = LengthsOf(k + 1)
  BY <1>2 DEF Variables, Fits, Total, LengthsOf, Item
<1> QED BY <1>1, <1>2, <1>3, <1>6, <1>7 DEF Splitting

LEMMA SplittingRest == Splitting /\ SplitRest => Splitting'
<1> SUFFICES ASSUME Splitting, SplitRest PROVE Splitting'
  OBVIOUS
<1> DEFINE n == tmpl.rest
<1>1. /\ tmpl \in Templates
      /\ Fits => file = LengthsOf(k) /\ pending = SumTo(tmpl.pre, k)
  BY DEF Splitting, SplitRest
<1>2. stage = "split" /\ k = Variables /\ tmpl' = tmpl /\ stage' = "close"
  BY DEF SplitRest
<1>3. Variables \in Nat /\ n \in Nat /\ SumTo(tmpl.pre, Variables) \in Nat
  BY <1>1, TemplateTypes
<1>4. ASSUME Fits PROVE file' = AllLengths /\ pending' = Total(tmpl)
  <2>1. k # 0 /\ SumTo(tmpl.pre, Variables) + n = Total(tmpl) /\ Total(tmpl) <= StdioSize
    BY <1>2, <1>3, <1>4 DEF Fits, Total, Variables
  <2>2. file' = file \o Text(Flushed(n)) \o <<Item("last", n)>> /\ Fprintf(n)
    BY <2>1 DEF SplitRest
  <2>3. pending \in Nat /\ pending + n <= StdioSize
    BY <1>1, <1>2, <1>3, <1>4, <2>1
  <2>4. Text(Flushed(n)) = <<>> /\ pending' = pending + n
    BY <1>3, <2>2, <2>3, NothingFlushed
  <2>5. file' = LengthsOf(Variables) \o <<>> \o <<Item("last", n)>>
    BY <1>1, <1>2, <1>4, <2>2, <2>4
  <2>6. LengthsOf(Variables) \o <<>> \o <<Item("last", n)>> = AllLengths
    BY <1>3 DEF LengthsOf, AllLengths
  <2> QED BY <1>1, <1>2, <1>4, <2>1, <2>4, <2>5, <2>6
<1>5. Fits' = Fits /\ AllLengths' = AllLengths /\ Total(tmpl)' = Total(tmpl)
  BY <1>2 DEF Variables, Fits, Total, LengthsOf, AllLengths, Item
<1> QED BY <1>1, <1>2, <1>4, <1>5 DEF Splitting

LEMMA SplittingClosed == Splitting /\ CloseFile => Splitting'
<1> SUFFICES ASSUME Splitting, CloseFile PROVE Splitting'
  OBVIOUS
<1>1. tmpl \in Templates /\ (Fits => file = AllLengths /\ pending = Total(tmpl))
  BY DEF Splitting, CloseFile
<1>2. tmpl' = tmpl /\ stage' = "connect" /\ file' = file \o Text(pending)
  BY DEF CloseFile
<1>3. /\ Fits' = Fits /\ AllLengths' = AllLengths /\ Total(tmpl)' = Total(tmpl)
      /\ Text(Total(tmpl))' = Text(Total(tmpl))
  BY <1>2 DEF Variables, Fits, Total, LengthsOf, AllLengths, Item, Text
<1> QED BY <1>1, <1>2, <1>3 DEF Splitting

\* The client reads what was written.
LEMMA SplittingKept ==
    /\ Splitting
    /\ \/ UNCHANGED vars
       \/ tmpl' = tmpl /\ file' = file /\ stage \notin {"split", "close"}
          /\ stage' \notin {"split", "close"}
    => Splitting'
<1> SUFFICES ASSUME Splitting, tmpl' = tmpl, file' = file,
                    \/ UNCHANGED vars
                    \/ stage \notin {"split", "close"} /\ stage' \notin {"split", "close"}
             PROVE  Splitting'
  BY DEF vars
<1>1. /\ Fits' = Fits /\ AllLengths' = AllLengths /\ Total(tmpl)' = Total(tmpl)
      /\ Text(Total(tmpl))' = Text(Total(tmpl)) /\ Variables' = Variables
      /\ SumTo(tmpl.pre, k)' = SumTo(tmpl.pre, k')
  BY DEF Variables, Fits, Total, LengthsOf, AllLengths, Item, Text
<1>2. CASE UNCHANGED vars
  <2>1. stage' = stage /\ k' = k /\ pending' = pending /\ LengthsOf(k)' = LengthsOf(k)
    BY <1>2 DEF vars, LengthsOf, Item
  <2> QED BY <1>1, <2>1 DEF Splitting
<1>3. CASE stage \notin {"split", "close"} /\ stage' \notin {"split", "close"}
  BY <1>1, <1>3 DEF Splitting
<1> QED BY <1>2, <1>3

LEMMA SplittingNext == Splitting /\ [PageNext]_pageVars => Splitting'
<1> SUFFICES ASSUME Splitting, [PageNext]_pageVars PROVE Splitting'
  OBVIOUS
<1>1. UNCHANGED vars \/ Next
  BY DEF PageNext, pageVars, SplitPlaces, MergeStep, ConvertStep, ConvertReturns
<1>2. CASE UNCHANGED vars
  BY <1>2, SplittingKept
<1>3. CASE SplitVariable \/ SplitRest \/ CloseFile
  BY <1>3, SplittingVariable, SplittingRest, SplittingClosed
<1>4. CASE OpenSocket \/ Refused \/ Connected \/ Dies \/ Unasked \/ ReadMessage
           \/ MergeVariable \/ MergeDies \/ MergeRest
  <2>1. tmpl' = tmpl /\ file' = file /\ stage \notin {"split", "close"}
        /\ stage' \notin {"split", "close"}
    BY <1>4 DEF OpenSocket, Refused, Connected, Dies, Unasked, ReadMessage,
                MergeVariable, MergeDies, MergeRest, Waiting
  <2> QED BY <2>1, SplittingKept
<1> QED BY <1>1, <1>2, <1>3, <1>4 DEF Next

LEMMA SumZero ==
    ASSUME NEW w, NEW n \in Nat, \A i \in 1..n : w[i] = 0
    PROVE  SumTo(w, n) = 0
<1>1. PICK u : SumTo(w, n) = u[n] /\ Adds(u, w, n)
  BY SumSteps
<1> DEFINE None == {0}
<1>2. u[0] \in None /\ \A i \in 1..n : u[i - 1] \in None => u[i] \in None
  BY <1>1 DEF Adds
<1>3. \A i \in 0..n : u[i] \in None
  <2> HIDE DEF None
  <2> QED BY <1>2, Typed, Zenon
<1>4. n \in 0..n
  OBVIOUS
<1> QED BY <1>1, <1>3, <1>4

\* The file the client gets of a template that fits.
Written == AllLengths \o Text(Total(tmpl))

LEMMA WrittenShape ==
    ASSUME tmpl \in Templates
    PROVE  /\ Variables \in Nat /\ Total(tmpl) \in Nat
           /\ Len(Written) = IF Total(tmpl) = 0 THEN Variables + 1 ELSE Variables + 2
           /\ \A i \in 1..Variables : Written[i] = Item("len", tmpl.pre[i])
           /\ Written[Variables + 1] = Item("last", tmpl.rest)
           /\ Total(tmpl) # 0 => Written[Variables + 2] = Item("text", Total(tmpl))
           /\ DOMAIN Written = 1..Len(Written)
<1>1. /\ Variables \in Nat /\ tmpl.rest \in Nat /\ SumTo(tmpl.pre, Variables) \in Nat
      /\ \A i \in 1..Variables : tmpl.pre[i] \in Nat
  BY TemplateTypes
<1>2. Total(tmpl) \in Nat
  BY <1>1 DEF Total, Variables
<1> DEFINE V == Variables
           S == [kind : {"len", "last", "text"}, n : Nat]
<1>3. LengthsOf(V) \in Seq(S) /\ Len(LengthsOf(V)) = V
      /\ \A i \in 1..V : LengthsOf(V)[i] = Item("len", tmpl.pre[i])
  BY <1>1 DEF LengthsOf, Item
<1>4. Item("last", tmpl.rest) \in S /\ Item("text", Total(tmpl)) \in S
  BY <1>1, <1>2 DEF Item
<1> HIDE DEF S, V
<1>5. /\ AllLengths \in Seq(S) /\ Len(AllLengths) = V + 1
      /\ \A i \in 1..V : AllLengths[i] = Item("len", tmpl.pre[i])
      /\ AllLengths[V + 1] = Item("last", tmpl.rest)
  BY <1>3, <1>4, AppendTo DEF AllLengths, V
<1>6. CASE Total(tmpl) = 0
  <2>1. Written = AllLengths
    BY <1>5, <1>6 DEF Written, Text
  <2> QED BY <1>1, <1>5, <1>6, <2>1 DEF V
<1>7. CASE Total(tmpl) # 0
  <2>1. Written = Append(AllLengths, Item("text", Total(tmpl)))
    BY <1>4, <1>5, <1>7 DEF Written, Text
  <2>2. /\ Written \in Seq(S) /\ Len(Written) = V + 2
        /\ \A i \in 1..(V + 1) : Written[i] = AllLengths[i]
        /\ Written[V + 2] = Item("text", Total(tmpl))
    BY <1>1, <1>4, <1>5, <2>1, AppendTo DEF V
  <2>3. \A i \in 1..V : i \in 1..(V + 1)
    BY <1>1 DEF V
  <2> QED BY <1>1, <1>2, <1>5, <1>7, <2>2, <2>3 DEF V
<1> QED BY <1>6, <1>7

LEMMA ItemFields == \A a, b : Item(a, b).kind = a /\ Item(a, b).n = b
  BY DEF Item

LEMMA HeaderShape ==
    ASSUME tmpl \in Templates, file = Written
    PROVE  /\ WellFormed(file)
           /\ Len(Header) = Variables + 1
           /\ \A i \in 1..Variables : Header[i].n = tmpl.pre[i]
           /\ Header[Variables + 1].n = tmpl.rest
           /\ DOMAIN Header = 1..(Variables + 1)
<1> DEFINE V == Variables
           E == V + 1
<1>1. /\ V \in Nat /\ E \in 1..Len(file) /\ DOMAIN file = 1..Len(file)
      /\ \A i \in 1..V : file[i] = Item("len", tmpl.pre[i])
      /\ file[E] = Item("last", tmpl.rest)
      /\ \A i \in 1..Len(file) : i > E => i = E + 1 /\ file[i] = Item("text", Total(tmpl))
  BY WrittenShape
<1>2. /\ \A i \in 1..Len(file) : (i \in 1..V /\ i # E) \/ i = E \/ (i > E /\ i # E)
      /\ E - 1 = V /\ \A j \in (E + 1)..Len(file) : j \in 1..Len(file) /\ j > E
  BY <1>1
<1>3. /\ \A i \in 1..V : file[i].kind = "len" /\ file[i].n = tmpl.pre[i]
      /\ file[E].kind = "last" /\ file[E].n = tmpl.rest
      /\ \A i \in 1..Len(file) : i > E => file[i].kind = "text"
  BY <1>1, ItemFields
<1> HIDE DEF V, E
<1>4. WellFormed(file) /\ \A i \in 1..Len(file) : file[i].kind = "last" <=> i = E
  <2>1. \A i \in 1..Len(file) : file[i].kind = "last" <=> i = E
    BY <1>2, <1>3
  <2>2. \A j \in 1..(E - 1) : file[j].kind = "len"
    BY <1>2, <1>3
  <2>3. \A j \in (E + 1)..Len(file) : file[j].kind = "text"
    BY <1>2, <1>3
  <2> QED BY <1>1, <2>1, <2>2, <2>3 DEF WellFormed
<1>5. (CHOOSE i \in 1..Len(file) : file[i].kind = "last") = E
  BY <1>1, <1>4
<1>6. Header = SubSeq(file, 1, E)
  BY <1>5 DEF Header
<1>7. E \in Nat /\ 1..E \subseteq 1..Len(file) /\ E = V + 1
  BY <1>1 DEF E
<1>8. Len(Header) = E /\ DOMAIN Header = 1..E /\ \A i \in 1..E : Header[i] = file[i]
  <2>1. Header = [i \in 1..E |-> file[i]]
    BY <1>6, <1>7
  <2> QED BY <1>7, <2>1
<1>9. 1..V \subseteq 1..E /\ E \in 1..E
  BY <1>1, <1>7
<1> QED BY <1>3, <1>4, <1>7, <1>8, <1>9 DEF V

\* The lengths come first, then all of the texts.
LEMMA WrittenFirst == Splitting => LengthsFirst
<1> SUFFICES ASSUME Splitting, Fits, stage \notin {"split", "close"}
             PROVE  /\ WellFormed(file)
                    /\ [i \in 1..Len(Header) |-> Header[i].n] = Append(tmpl.pre, tmpl.rest)
                    /\ TextBytes = Total(tmpl)
  BY DEF LengthsFirst
<1>1. tmpl \in Templates /\ file = Written
  BY DEF Splitting, Written
<1>2. /\ WellFormed(file) /\ Len(Header) = Variables + 1
      /\ \A i \in 1..Variables : Header[i].n = tmpl.pre[i]
      /\ Header[Variables + 1].n = tmpl.rest
  BY <1>1, HeaderShape
<1>3. tmpl.pre \in Seq(Nat) /\ tmpl.rest \in Nat /\ Variables \in Nat
  BY <1>1, TemplateTypes
<1>4. [i \in 1..Len(Header) |-> Header[i].n] = Append(tmpl.pre, tmpl.rest)
  <2>1. \A i \in 1..(Variables + 1) : i \in 1..Variables \/ i = Variables + 1
    BY <1>3
  <2>2. \A i \in 1..(Variables + 1) : Header[i].n = Append(tmpl.pre, tmpl.rest)[i]
    BY <1>2, <1>3, <2>1 DEF Variables
  <2>3. Append(tmpl.pre, tmpl.rest) = [i \in 1..(Variables + 1) |-> Append(tmpl.pre, tmpl.rest)[i]]
    BY <1>3 DEF Variables
  <2> QED BY <1>2, <2>2, <2>3
<1>5. TextBytes = Total(tmpl)
  <2> DEFINE w == [i \in DOMAIN file |-> IF file[i].kind = "text" THEN file[i].n ELSE 0]
             V == Variables
             E == V + 1
  <2>1. /\ Total(tmpl) \in Nat /\ Len(file) = IF Total(tmpl) = 0 THEN E ELSE E + 1
        /\ \A i \in 1..V : file[i].kind = "len"
        /\ file[E].kind = "last"
        /\ Total(tmpl) # 0 => file[E + 1].kind = "text" /\ file[E + 1].n = Total(tmpl)
        /\ DOMAIN file = 1..Len(file) /\ E \in Nat
    <3>1. E + 1 = V + 2 /\ E \in Nat
      BY <1>3
    <3> QED BY <1>1, <3>1, WrittenShape, ItemFields
  <2>2. \A i \in 1..E : (i \in 1..V \/ i = E) /\ i \in DOMAIN file
    BY <1>3, <2>1
  <2> HIDE DEF V, E
  <2>3. \A i \in 1..E : w[i] = 0
    BY <2>1, <2>2
  <2>4. Total(tmpl) # 0 => w[E + 1] = Total(tmpl)
    BY <2>1, <2>2
  <2>5. TextBytes = SumTo(w, Len(file))
    BY DEF TextBytes
  <2> HIDE DEF w
  <2>6. SumTo(w, E) = 0
    BY <2>1, <2>3, SumZero
  <2>7. CASE Total(tmpl) # 0
    <3>1. \A i \in 1..(E + 1) : i \in 1..E \/ i = E + 1
      BY <2>1
    <3>2. \A i \in 1..(E + 1) : w[i] \in Nat
      BY <2>1, <2>3, <2>4, <2>7, <3>1
    <3>3. SumTo(w, E + 1) = SumTo(w, E) + w[E + 1]
      BY <2>1, <3>2, SumNext
    <3> QED BY <2>1, <2>4, <2>5, <2>6, <2>7, <3>3
  <2> QED BY <2>1, <2>5, <2>6, <2>7
<1> QED BY <1>2, <1>4, <1>5

\* fixed.dat is the lengths of the texts in order and behind them the texts, for
\* every template whose texts fit in the buffer of stdio.
THEOREM TextsWait == PageSpec => []LengthsFirst
<1>1. PageInit => Splitting
  BY SplittingInit DEF PageInit
<1> QED BY <1>1, SplittingNext, WrittenFirst, PTL DEF PageSpec

-----------------------------------------------------------------------------
(* The texts before the places *)

\* The bytes of one kind in a file.
BytesIn(f, kd) == SumTo([i \in DOMAIN f |-> IF f[i].kind = kd THEN f[i].n ELSE 0], Len(f))
Pieces == [kind : {"text", "places"}, n : Nat]

LEMMA BytesNone == ASSUME NEW kd PROVE BytesIn(<<>>, kd) = 0
<1>1. Len(<<>>) = 0
  OBVIOUS
<1> QED BY <1>1, SumFirst DEF BytesIn

LEMMA BytesAppended ==
    ASSUME NEW f \in Seq(Pieces), NEW e \in Pieces, NEW kd
    PROVE  BytesIn(Append(f, e), kd) = BytesIn(f, kd) + IF e.kind = kd THEN e.n ELSE 0
<1> DEFINE g == Append(f, e)
           n == Len(f)
           w == [i \in DOMAIN f |-> IF f[i].kind = kd THEN f[i].n ELSE 0]
           x == [i \in DOMAIN g |-> IF g[i].kind = kd THEN g[i].n ELSE 0]
<1>1. n \in Nat /\ DOMAIN f = 1..n /\ \A i \in 1..n : f[i] \in Pieces
  OBVIOUS
<1>2. /\ Len(g) = n + 1 /\ DOMAIN g = 1..(n + 1)
      /\ \A i \in 1..n : g[i] = f[i]
      /\ g[n + 1] = e
  OBVIOUS
<1>3. /\ 1..n \subseteq 1..(n + 1) /\ n + 1 \in 1..(n + 1)
      /\ \A i \in 1..(n + 1) : i \in 1..n \/ i = n + 1
  BY <1>1
<1>4. \A q \in Pieces : q.n \in Nat
  BY DEF Pieces
<1> HIDE DEF g, n
<1>5. /\ \A i \in 1..n : w[i] \in Nat /\ x[i] = w[i]
      /\ x[n + 1] = IF e.kind = kd THEN e.n ELSE 0
  BY <1>1, <1>2, <1>3, <1>4
<1>6. BytesIn(f, kd) = SumTo(w, n) /\ BytesIn(g, kd) = SumTo(x, n + 1)
  BY <1>2 DEF BytesIn, n
<1> HIDE DEF w, x
<1>7. \A i \in 1..(n + 1) : x[i] \in Nat
  BY <1>3, <1>4, <1>5
<1>8. SumTo(x, n) = SumTo(w, n)
  BY <1>1, <1>5, SumSame
<1>9. SumTo(x, n + 1) = SumTo(x, n) + x[n + 1]
  BY <1>1, <1>7, SumNext
<1> QED BY <1>5, <1>6, <1>8, <1>9 DEF g

PlaceWidths == [i \in 1..Variables |-> Digits(SumTo(tmpl.pre, i)) + 1]

\* The names of the splitter by places are those of the page.
LEMMA PlacesNames ==
    /\ Pos!Variables = Variables
    /\ \A n \in Int : Pos!Before(n + 1) = SumTo(tmpl.pre, n) /\ Pos!Digits(n) = Digits(n)
    /\ \A n \in Nat : Pos!Position(n + 1) = SumTo(tmpl.pre, n + 1) + n * VarLength
    /\ Pos!Size = SumTo(tmpl.pre, Variables) + Variables * VarLength + tmpl.rest
    /\ Pos!PlacesBytes = 3 + SumTo(PlaceWidths, Variables)
    /\ \A kd : Pos!BytesOf(kd) = BytesIn(ifile, kd)
<1>1. \A w, n : Pos!SumTo(w, n) = SumTo(w, n)
  BY DEF Pos!SumTo, SumTo
<1>2. Pos!Variables = Variables /\ Variables \in Nat
  BY DEF Pos!Variables, Variables
<1>3. \A n \in Int : Pos!Before(n + 1) = SumTo(tmpl.pre, n)
  BY <1>1 DEF Pos!Before
<1>4. \A n : Pos!Digits(n) = Digits(n)
  <2> TAKE n
  <2>1. \A S : Pos!Cardinality(S) = Cardinality(S)
    BY Zenon DEF Pos!Cardinality, Cardinality
  <2>2. Pos!Tens = Tens
    BY DEF Pos!Tens, Tens
  <2> QED BY <2>1, <2>2, Zenon DEF Pos!Digits, Digits
<1>5. \A n \in Nat : Pos!Position(n + 1) = SumTo(tmpl.pre, n + 1) + n * VarLength
  <2> TAKE n \in Nat
  <2>1. (n + 1) - 1 = n /\ (n + 1) + 1 - 1 = n + 1
    OBVIOUS
  <2>2. Pos!Before(n + 2) = SumTo(tmpl.pre, n + 1)
    BY <1>1 DEF Pos!Before
  <2> QED BY <2>1, <2>2, <1>3 DEF Pos!Position
<1>6. Pos!Size = SumTo(tmpl.pre, Variables) + Variables * VarLength + tmpl.rest
  BY <1>2, <1>3 DEF Pos!Size
<1>7. Pos!PlacesBytes = 3 + SumTo(PlaceWidths, Variables)
  <2>1. \A i \in 1..Variables : Pos!Before(i + 1) = SumTo(tmpl.pre, i)
    BY <1>2, <1>3
  <2>2. [i \in 1..Pos!Variables |-> Pos!Digits(Pos!Before(i + 1)) + 1] = PlaceWidths
    BY <1>2, <1>4, <2>1 DEF PlaceWidths
  <2> QED BY <1>1, <1>2, <2>2 DEF Pos!PlacesBytes
<1>8. \A kd : Pos!BytesOf(kd) = BytesIn(ifile, kd)
  BY <1>1 DEF Pos!BytesOf, BytesIn
<1> QED BY <1>2, <1>3, <1>4, <1>5, <1>6, <1>7, <1>8

\* Files of text only.
TextPieces == [kind : {"text"}, n : Nat]
Texts == Seq(TextPieces)

LEMMA TextsOnly ==
    ASSUME NEW f \in Texts
    PROVE  /\ f \in Seq(Pieces) /\ \A i \in DOMAIN f : f[i].kind = "text"
           /\ BytesIn(f, "places") = 0
<1>1. f \in Seq(Pieces) /\ DOMAIN f = 1..Len(f) /\ Len(f) \in Nat
      /\ \A i \in 1..Len(f) : f[i] \in TextPieces
  <2>1. TextPieces \subseteq Pieces
    BY DEF TextPieces, Pieces
  <2> QED BY <2>1, SequenceParts, SeqMonotonic DEF Texts
<1>2. \A i \in DOMAIN f : f[i].kind = "text"
  <2>1. \A e \in TextPieces : e.kind = "text"
    BY DEF TextPieces
  <2> QED BY <1>1, <2>1
<1> DEFINE w == [i \in DOMAIN f |-> IF f[i].kind = "places" THEN f[i].n ELSE 0]
<1>3. \A i \in 1..Len(f) : w[i] = 0
  BY <1>1, <1>2
<1> HIDE DEF w
<1>4. SumTo(w, Len(f)) = 0
  BY <1>1, <1>3, SumZero
<1> QED BY <1>1, <1>2, <1>4 DEF BytesIn, w

LEMMA TextAdded ==
    ASSUME NEW f \in Texts, NEW n \in Nat
    PROVE  /\ f \o Pos!Item("text", n) \in Texts
           /\ BytesIn(f \o Pos!Item("text", n), "text") = BytesIn(f, "text") + n
<1>1. f \in Seq(Pieces) /\ f \in Seq(TextPieces) /\ f \o <<>> = f
  BY TextsOnly, SequenceParts DEF Texts
<1>2. BytesIn(f, "text") \in Nat
  <2> DEFINE w == [i \in DOMAIN f |-> IF f[i].kind = "text" THEN f[i].n ELSE 0]
  <2>1. Len(f) \in Nat /\ \A i \in 1..Len(f) : w[i] \in Nat
    <3>1. \A e \in Pieces : e.n \in Nat
      BY DEF Pieces
    <3> QED BY <1>1, <3>1, SequenceParts
  <2> HIDE DEF w
  <2>2. SumTo(w, Len(f)) \in Nat
    BY <2>1, SumType
  <2> QED BY <2>2 DEF BytesIn, w
<1>3. CASE n = 0
  <2>1. f \o Pos!Item("text", n) = f
    BY <1>1, <1>3 DEF Pos!Item
  <2>2. BytesIn(f, "text") = BytesIn(f, "text") + n
    BY <1>2, <1>3
  <2> QED BY <2>1, <2>2, Zenon
<1>4. CASE n # 0
  <2> DEFINE e == [kind |-> "text", n |-> n]
  <2>1. f \o Pos!Item("text", n) = Append(f, e)
    BY <1>1, <1>4 DEF Pos!Item
  <2>2. e \in Pieces /\ e.kind = "text" /\ e.n = n /\ e \in TextPieces
    BY DEF Pieces, TextPieces
  <2> HIDE DEF e
  <2>3. Append(f, e) \in Texts
    BY <1>1, <2>2, AppendTo DEF Texts
  <2>4. BytesIn(Append(f, e), "text") = BytesIn(f, "text") + n
    BY <1>1, <2>2, BytesAppended
  <2> QED BY <2>1, <2>3, <2>4
<1> QED BY <1>3, <1>4

PlacesFit == 3 + SumTo(PlaceWidths, Variables) <= PlacesSize

\* What TextsFirst says of the file.
TextsThenPlaces ==
    /\ \A i, j \in DOMAIN ifile : ifile[i].kind = "places" /\ ifile[j].kind = "text" => j < i
    /\ BytesIn(ifile, "text") = SumTo(tmpl.pre, Variables) + tmpl.rest
    /\ BytesIn(ifile, "places") = 3 + SumTo(PlaceWidths, Variables)

\* The places printed wait in the buffer as long as they fit, and each is where
\* the texts before it end.
PlacesWaiting ==
    /\ tmpl \in Templates
    /\ istage \in {"split", "close", "done"}
    /\ ik \in 0..Variables
    /\ istage # "split" => ik = Variables
    /\ lengths = ik * VarLength
    /\ si = SumTo(tmpl.pre, ik)
    /\ positions = [i \in 1..ik |-> SumTo(tmpl.pre, i)]
    /\ PlacesFit /\ istage # "done" =>
        /\ ifile \in Texts
        /\ ipending = 3 + SumTo(PlaceWidths, ik)
        /\ BytesIn(ifile, "text") =
             SumTo(tmpl.pre, ik) + IF istage = "split" THEN 0 ELSE tmpl.rest
    /\ PlacesFit /\ istage = "done" => TextsThenPlaces

LEMMA PlaceTypes ==
    ASSUME tmpl \in Templates, NEW n \in 0..Variables
    PROVE  /\ SumTo(tmpl.pre, n) \in Nat
           /\ \A i \in 1..n : PlaceWidths[i] \in Nat
           /\ SumTo(PlaceWidths, n) \in Nat
           /\ SumTo(PlaceWidths, n) <= SumTo(PlaceWidths, Variables)
           /\ n < Variables => /\ SumTo(tmpl.pre, n + 1) = SumTo(tmpl.pre, n) + tmpl.pre[n + 1]
                               /\ SumTo(PlaceWidths, n + 1) = SumTo(PlaceWidths, n) + PlaceWidths[n + 1]
                               /\ PlaceWidths[n + 1] \in Nat
<1>1. Variables \in Nat /\ \A i \in 1..Variables : tmpl.pre[i] \in Nat
  BY TemplateTypes
<1>2. \A i \in 1..Variables : PlaceWidths[i] \in Nat
  BY DigitsBound DEF PlaceWidths
<1>3. n \in Nat /\ \A i \in 1..n : i \in 1..Variables
  BY <1>1
<1>4. SumTo(tmpl.pre, n) \in Nat
  BY <1>1, <1>3, SumType
<1>5. SumTo(PlaceWidths, n) \in Nat
  BY <1>2, <1>3, SumType
<1>6. SumTo(PlaceWidths, n) <= SumTo(PlaceWidths, Variables)
  BY <1>1, <1>2, SumGrows
<1>7. ASSUME n < Variables
      PROVE  /\ SumTo(tmpl.pre, n + 1) = SumTo(tmpl.pre, n) + tmpl.pre[n + 1]
             /\ SumTo(PlaceWidths, n + 1) = SumTo(PlaceWidths, n) + PlaceWidths[n + 1]
             /\ PlaceWidths[n + 1] \in Nat
  <2>1. n + 1 \in 1..Variables /\ \A i \in 1..(n + 1) : i \in 1..Variables
    BY <1>1, <1>3, <1>7
  <2>2. \A i \in 1..(n + 1) : tmpl.pre[i] \in Nat
    BY <1>1, <2>1
  <2>3. \A i \in 1..(n + 1) : PlaceWidths[i] \in Nat
    BY <1>2, <2>1
  <2>4. SumTo(tmpl.pre, n + 1) = SumTo(tmpl.pre, n) + tmpl.pre[n + 1]
    BY <1>3, <2>2, SumNext
  <2>5. SumTo(PlaceWidths, n + 1) = SumTo(PlaceWidths, n) + PlaceWidths[n + 1]
    BY <1>3, <2>3, SumNext
  <2> QED BY <1>2, <2>1, <2>4, <2>5
<1> QED BY <1>2, <1>3, <1>4, <1>5, <1>6, <1>7

LEMMA PlacesInit == Init /\ Pos!Init => PlacesWaiting
<1> SUFFICES ASSUME Init, Pos!Init PROVE PlacesWaiting
  OBVIOUS
<1>1. tmpl \in Templates
  BY DEF Init
<1>2. /\ istage = "split" /\ ik = 0 /\ lengths = 0 /\ si = 0
      /\ positions = <<>> /\ ipending = 3 /\ ifile = <<>>
  BY DEF Pos!Init
<1>3. Variables \in Nat /\ VarLength \in Nat
  BY <1>1, TemplateTypes, Parameters
<1>4. SumTo(tmpl.pre, 0) = 0 /\ SumTo(PlaceWidths, 0) = 0
  BY SumFirst
<1>5. <<>> \in Texts /\ BytesIn(<<>>, "text") = 0
  BY BytesNone DEF Texts
<1>6. [i \in 1..0 |-> SumTo(tmpl.pre, i)] = <<>>
  OBVIOUS
<1> QED BY <1>1, <1>2, <1>3, <1>4, <1>5, <1>6 DEF PlacesWaiting

LEMMA PlacesVariable ==
    PlacesWaiting /\ Pos!SplitVariable /\ tmpl' = tmpl => PlacesWaiting'
<1> SUFFICES ASSUME PlacesWaiting, Pos!SplitVariable, tmpl' = tmpl PROVE PlacesWaiting'
  OBVIOUS
<1>1. /\ tmpl \in Templates /\ ik \in 0..Variables
      /\ lengths = ik * VarLength /\ si = SumTo(tmpl.pre, ik)
      /\ positions = [i \in 1..ik |-> SumTo(tmpl.pre, i)]
  BY DEF PlacesWaiting
<1> DEFINE place == Pos!Position(ik + 1) - lengths
           bytes == Pos!Digits(place) + 1
           n == tmpl.pre[ik + 1]
<1>2. /\ istage = "split" /\ ik < Variables /\ istage' = istage
      /\ ifile' = ifile \o Pos!Item("text", n) \o Pos!Item("places", Pos!Flushed(bytes))
      /\ ipending' = ipending + bytes - Pos!Flushed(bytes)
      /\ positions' = Append(positions, place)
      /\ si' = si + n
      /\ lengths' = lengths + VarLength
      /\ ik' = ik + 1
  BY PlacesNames DEF Pos!SplitVariable
<1>3. /\ Variables \in Nat /\ ik \in Nat /\ ik + 1 \in 1..Variables /\ n \in Nat
      /\ VarLength \in Nat /\ PlacesSize \in Nat /\ tmpl.rest \in Nat
  <2> HIDE DEF place, bytes, n
  <2>1. Variables \in Nat /\ VarLength \in Nat /\ PlacesSize \in Nat
    BY <1>1, TemplateTypes, Parameters
  <2>2. ik \in Nat /\ ik + 1 \in 1..Variables
    <3>1. ik \in 0..Variables /\ ik < Variables
      BY <1>1, <1>2, Zenon
    <3> QED BY <2>1, <3>1
  <2>3. tmpl.rest \in Nat /\ \A i \in 1..Variables : tmpl.pre[i] \in Nat
    BY <1>1, TemplateTypes, Zenon
  <2>4. tmpl.pre[ik + 1] \in Nat
    BY <2>2, <2>3, Zenon
  <2> QED BY <2>1, <2>2, <2>3, <2>4 DEF n
<1>4. /\ SumTo(tmpl.pre, ik) \in Nat /\ SumTo(tmpl.pre, ik + 1) = SumTo(tmpl.pre, ik) + n
      /\ SumTo(PlaceWidths, ik) \in Nat /\ PlaceWidths[ik + 1] \in Nat
      /\ SumTo(PlaceWidths, ik + 1) = SumTo(PlaceWidths, ik) + PlaceWidths[ik + 1]
  <2> HIDE DEF place, bytes
  <2>1. tmpl \in Templates /\ ik \in 0..Variables /\ ik < Variables
    BY <1>1, <1>2, Zenon
  <2> QED BY <2>1, PlaceTypes
<1>5. ik + 1 \in 0..Variables
  BY <1>3
<1>6. /\ SumTo(PlaceWidths, ik + 1) <= SumTo(PlaceWidths, Variables)
      /\ SumTo(PlaceWidths, Variables) \in Nat
  <2>1. Variables \in 0..Variables
    BY <1>3
  <2> QED BY <1>1, <1>5, <2>1, PlaceTypes
<1>7. place = SumTo(tmpl.pre, ik + 1)
  <2>1. Pos!Position(ik + 1) = SumTo(tmpl.pre, ik + 1) + ik * VarLength
    BY <1>3, PlacesNames
  <2>2. ik * VarLength \in Nat /\ SumTo(tmpl.pre, ik + 1) \in Nat
    BY <1>3, <1>4
  <2> QED BY <1>1, <2>1, <2>2
<1>8. bytes = PlaceWidths[ik + 1]
  <2>1. SumTo(tmpl.pre, ik + 1) \in Int
    BY <1>3, <1>4
  <2>2. Pos!Digits(SumTo(tmpl.pre, ik + 1)) = Digits(SumTo(tmpl.pre, ik + 1))
    BY <2>1, PlacesNames
  <2> QED BY <1>3, <1>7, <2>2 DEF PlaceWidths
<1> HIDE DEF place, bytes, n
<1>9. positions' = [i \in 1..(ik + 1) |-> SumTo(tmpl.pre, i)]
  <2> DEFINE F(m) == SumTo(tmpl.pre, m)
  <2>1. positions = [i \in 1..ik |-> F(i)] /\ positions' = Append(positions, F(ik + 1))
    BY <1>1, <1>2, <1>7
  <2> HIDE DEF F
  <2>2. positions' = [i \in 1..(ik + 1) |-> F(i)]
    BY <1>3, <2>1
  <2> QED BY <2>2 DEF F
<1>10. lengths' = (ik + 1) * VarLength
  <2>1. (ik + 1) * VarLength = ik * VarLength + VarLength
    BY <1>3
  <2> QED BY <1>1, <1>2, <2>1
<1>11. ASSUME PlacesFit
       PROVE  /\ ifile' \in Texts
              /\ ipending' = 3 + SumTo(PlaceWidths, ik + 1)
              /\ BytesIn(ifile', "text") = SumTo(tmpl.pre, ik + 1)
  <2>1. /\ ifile \in Texts /\ ipending = 3 + SumTo(PlaceWidths, ik)
        /\ BytesIn(ifile, "text") = SumTo(tmpl.pre, ik) + 0
    BY <1>2, <1>11 DEF PlacesWaiting
  <2>2. ipending + bytes <= PlacesSize
    BY <1>3, <1>4, <1>6, <1>8, <1>11, <2>1 DEF PlacesFit
  <2>3. Pos!Flushed(bytes) = 0 /\ Pos!Item("places", 0) = <<>>
    BY <2>2 DEF Pos!Flushed, Pos!Item
  <2>4. ifile \o Pos!Item("text", n) \in Texts
        /\ BytesIn(ifile \o Pos!Item("text", n), "text") = BytesIn(ifile, "text") + n
    BY <1>3, <2>1, TextAdded
  <2>5. ifile' = ifile \o Pos!Item("text", n)
    <3>1. \A f \in Texts : f \o <<>> = f
      BY SequenceParts DEF Texts
    <3> QED BY <1>2, <2>3, <2>4, <3>1
  <2>6. ifile' \in Texts /\ BytesIn(ifile', "text") = BytesIn(ifile, "text") + n
    BY <2>4, <2>5
  <2>7. BytesIn(ifile', "text") = SumTo(tmpl.pre, ik + 1)
    BY <1>3, <1>4, <2>1, <2>6
  <2>8. ipending' = 3 + SumTo(PlaceWidths, ik + 1)
    BY <1>2, <1>4, <1>8, <2>1, <2>3, SMTT(30)
  <2> QED BY <2>6, <2>7, <2>8
<1>12. /\ Variables' = Variables /\ PlacesFit' = PlacesFit
       /\ SumTo(tmpl.pre, ik)' = SumTo(tmpl.pre, ik + 1)
       /\ SumTo(PlaceWidths, ik)' = SumTo(PlaceWidths, ik + 1)
  BY <1>2 DEF Variables, PlacesFit, PlaceWidths
<1>13. si' = SumTo(tmpl.pre, ik + 1) /\ [i \in 1..ik |-> SumTo(tmpl.pre, i)]' = [i \in 1..(ik + 1) |-> SumTo(tmpl.pre, i)]
  BY <1>1, <1>2, <1>4
<1>14. BytesIn(ifile, "text")' = BytesIn(ifile', "text") /\ SumTo(tmpl.pre, ik + 1) \in Nat
  BY <1>3, <1>4 DEF BytesIn
<1>15. PlacesFit' => /\ ifile' \in Texts /\ ipending' = 3 + SumTo(PlaceWidths, ik)'
                     /\ BytesIn(ifile, "text")' = SumTo(tmpl.pre, ik)' + 0
  BY <1>11, <1>12, <1>14
<1> QED BY <1>1, <1>2, <1>5, <1>9, <1>10, <1>12, <1>13, <1>15 DEF PlacesWaiting

LEMMA PlacesRest ==
    PlacesWaiting /\ Pos!SplitRest /\ tmpl' = tmpl => PlacesWaiting'
<1> SUFFICES ASSUME PlacesWaiting, Pos!SplitRest, tmpl' = tmpl PROVE PlacesWaiting'
  OBVIOUS
<1>1. /\ tmpl \in Templates /\ ik \in 0..Variables
      /\ lengths = ik * VarLength /\ si = SumTo(tmpl.pre, ik)
      /\ positions = [i \in 1..ik |-> SumTo(tmpl.pre, i)]
  BY DEF PlacesWaiting
<1>2. /\ istage = "split" /\ ik = Variables /\ istage' = "close"
      /\ ifile' = ifile \o Pos!Item("text", Pos!Size - si - lengths)
      /\ ik' = ik /\ lengths' = lengths /\ si' = si /\ positions' = positions
      /\ ipending' = ipending
  BY PlacesNames DEF Pos!SplitRest
<1>3. Variables \in Nat /\ tmpl.rest \in Nat /\ VarLength \in Nat /\ SumTo(tmpl.pre, Variables) \in Nat
  BY <1>1, TemplateTypes, Parameters
<1>4. Pos!Size - si - lengths = tmpl.rest
  <2>1. Variables * VarLength \in Nat
    BY <1>3
  <2>2. Pos!Size = SumTo(tmpl.pre, Variables) + Variables * VarLength + tmpl.rest
    BY PlacesNames
  <2> QED BY <1>1, <1>2, <1>3, <2>1, <2>2
<1>5. ASSUME PlacesFit
      PROVE  /\ ifile' \in Texts
             /\ ipending' = 3 + SumTo(PlaceWidths, ik)
             /\ BytesIn(ifile', "text") = SumTo(tmpl.pre, ik) + tmpl.rest
  <2>1. /\ ifile \in Texts /\ ipending = 3 + SumTo(PlaceWidths, ik)
        /\ BytesIn(ifile, "text") = SumTo(tmpl.pre, ik) + 0
    BY <1>2, <1>5 DEF PlacesWaiting
  <2>2. ifile' \in Texts /\ BytesIn(ifile', "text") = BytesIn(ifile, "text") + tmpl.rest
    BY <1>2, <1>3, <1>4, <2>1, TextAdded
  <2> QED BY <1>2, <1>3, <2>1, <2>2
<1>6. /\ Variables' = Variables /\ PlacesFit' = PlacesFit
      /\ SumTo(tmpl.pre, ik)' = SumTo(tmpl.pre, ik)
      /\ SumTo(PlaceWidths, ik)' = SumTo(PlaceWidths, ik)
      /\ [i \in 1..ik |-> SumTo(tmpl.pre, i)]' = [i \in 1..ik |-> SumTo(tmpl.pre, i)]
      /\ BytesIn(ifile, "text")' = BytesIn(ifile', "text")
  BY <1>2 DEF Variables, PlacesFit, PlaceWidths, BytesIn
<1> QED BY <1>1, <1>2, <1>5, <1>6 DEF PlacesWaiting

LEMMA PlacesClosed ==
    PlacesWaiting /\ Pos!Close /\ tmpl' = tmpl => PlacesWaiting'
<1> SUFFICES ASSUME PlacesWaiting, Pos!Close, tmpl' = tmpl PROVE PlacesWaiting'
  OBVIOUS
<1>1. /\ tmpl \in Templates /\ ik \in 0..Variables
      /\ lengths = ik * VarLength /\ si = SumTo(tmpl.pre, ik)
      /\ positions = [i \in 1..ik |-> SumTo(tmpl.pre, i)]
  BY DEF PlacesWaiting
<1>2. /\ istage = "close" /\ ik = Variables /\ istage' = "done"
      /\ ifile' = ifile \o Pos!Item("places", ipending)
      /\ ik' = ik /\ lengths' = lengths /\ si' = si /\ positions' = positions
  BY DEF Pos!Close, PlacesWaiting
<1>3. /\ Variables \in Nat /\ tmpl.rest \in Nat /\ SumTo(tmpl.pre, Variables) \in Nat
      /\ SumTo(PlaceWidths, Variables) \in Nat
  <2>1. Variables \in Nat /\ tmpl.rest \in Nat
    BY <1>1, TemplateTypes
  <2>2. Variables \in 0..Variables
    BY <2>1
  <2> QED BY <1>1, <2>1, <2>2, PlaceTypes
<1>4. ASSUME PlacesFit
      PROVE  /\ \A i, j \in DOMAIN ifile' : ifile'[i].kind = "places" /\ ifile'[j].kind = "text" => j < i
             /\ BytesIn(ifile', "text") = SumTo(tmpl.pre, Variables) + tmpl.rest
             /\ BytesIn(ifile', "places") = 3 + SumTo(PlaceWidths, Variables)
  <2> DEFINE bytes == 3 + SumTo(PlaceWidths, Variables)
             e == [kind |-> "places", n |-> bytes]
             n == Len(ifile)
  <2>1. /\ ifile \in Texts /\ ipending = bytes
        /\ BytesIn(ifile, "text") = SumTo(tmpl.pre, Variables) + tmpl.rest
    BY <1>2, <1>4 DEF PlacesWaiting
  <2>2. bytes \in Nat /\ bytes # 0
    BY <1>3
  <2> HIDE DEF bytes
  <2>3. e \in Pieces /\ e.kind = "places" /\ e.n = bytes
    BY <2>2 DEF Pieces
  <2>4. Pos!Item("places", bytes) = <<e>>
    BY <2>2 DEF Pos!Item
  <2> HIDE DEF e
  <2>5. /\ ifile \in Seq(Pieces) /\ \A i \in DOMAIN ifile : ifile[i].kind = "text"
        /\ BytesIn(ifile, "places") = 0
    BY <2>1, TextsOnly
  <2>6. ifile' = Append(ifile, e)
    <3>1. ifile \o <<e>> = Append(ifile, e)
      BY <2>3, <2>5, AppendTo
    <3> QED BY <1>2, <2>1, <2>4, <3>1
  <2>7. /\ BytesIn(ifile', "text") = BytesIn(ifile, "text") + 0
        /\ BytesIn(ifile', "places") = 0 + bytes
    BY <2>3, <2>5, <2>6, BytesAppended
  <2>8. /\ n \in Nat /\ DOMAIN ifile = 1..n /\ DOMAIN ifile' = 1..(n + 1)
        /\ \A i \in 1..n : ifile'[i] = ifile[i]
        /\ ifile'[n + 1] = e
    <3>1. ifile' \in Seq(Pieces) /\ Len(ifile') = n + 1
      BY <2>3, <2>5, <2>6, AppendTo
    <3> QED BY <2>3, <2>5, <2>6, <3>1, AppendTo, SequenceParts
  <2> HIDE DEF n
  <2>9. ASSUME NEW i \in DOMAIN ifile', NEW j \in DOMAIN ifile',
               ifile'[i].kind = "places", ifile'[j].kind = "text"
        PROVE  j < i
    <3>1. (i \in 1..n \/ i = n + 1) /\ (j \in 1..n \/ j = n + 1)
      BY <2>8
    <3>2. i = n + 1 /\ j \in 1..n
      BY <2>3, <2>5, <2>8, <2>9, <3>1
    <3> QED BY <2>8, <3>2
  <2> QED BY <1>3, <2>1, <2>2, <2>7, <2>9 DEF bytes
<1>5. /\ Variables' = Variables /\ PlacesFit' = PlacesFit
      /\ SumTo(tmpl.pre, ik)' = SumTo(tmpl.pre, ik)
      /\ [i \in 1..ik |-> SumTo(tmpl.pre, i)]' = [i \in 1..ik |-> SumTo(tmpl.pre, i)]
  BY <1>2 DEF Variables, PlacesFit, PlaceWidths
<1>6. PlacesFit' => TextsThenPlaces'
  <2>1. /\ SumTo(tmpl.pre, Variables)' = SumTo(tmpl.pre, Variables)
        /\ SumTo(PlaceWidths, Variables)' = SumTo(PlaceWidths, Variables)
        /\ tmpl.rest' = tmpl.rest
        /\ BytesIn(ifile, "text")' = BytesIn(ifile', "text")
        /\ BytesIn(ifile, "places")' = BytesIn(ifile', "places")
    BY DEF Variables, PlaceWidths, BytesIn
  <2> QED BY <1>4, <1>5, <2>1 DEF TextsThenPlaces
<1> QED BY <1>1, <1>2, <1>5, <1>6 DEF PlacesWaiting

LEMMA PlacesKept == PlacesWaiting /\ UNCHANGED <<places, tmpl>> => PlacesWaiting'
  BY DEF places, PlacesWaiting, PlacesFit, PlaceWidths, BytesIn, TextsThenPlaces, Variables

LEMMA TemplateKept == [PageNext]_pageVars => tmpl' = tmpl
  BY DEF PageNext, pageVars, vars, SplitPlaces, MergeStep, ConvertStep, ConvertReturns, Next,
         SplitVariable, SplitRest, CloseFile, OpenSocket, Refused, Connected, Dies, Unasked,
         ReadMessage, MergeVariable, MergeDies, MergeRest, Waiting

LEMMA PlacesNext == PlacesWaiting /\ [PageNext]_pageVars => PlacesWaiting'
<1> SUFFICES ASSUME PlacesWaiting, [PageNext]_pageVars PROVE PlacesWaiting'
  OBVIOUS
<1>1. tmpl' = tmpl
  BY TemplateKept
<1>2. Pos!Next \/ UNCHANGED places
  BY DEF PageNext, pageVars, SplitPlaces, MergeStep, ConvertStep, ConvertReturns
<1>3. CASE Pos!Next
  BY <1>1, <1>3, PlacesVariable, PlacesRest, PlacesClosed DEF Pos!Next
<1>4. CASE UNCHANGED places
  BY <1>1, <1>4, PlacesKept
<1> QED BY <1>2, <1>3, <1>4

LEMMA PlacesLast == PlacesWaiting => TextsFirst
<1> SUFFICES ASSUME PlacesWaiting, istage = "done", Pos!PlacesBytes <= PlacesSize
             PROVE  /\ \A i, j \in DOMAIN ifile :
                         ifile[i].kind = "places" /\ ifile[j].kind = "text" => j < i
                    /\ Pos!BytesOf("text") = Pos!Before(Pos!Variables + 1) + tmpl.rest
                    /\ Pos!BytesOf("places") = Pos!PlacesBytes
  BY DEF TextsFirst, Pos!TextsFirst
<1>1. TextsThenPlaces
  BY PlacesNames DEF PlacesWaiting, PlacesFit
<1>2. Variables \in Int
  BY TemplateTypes DEF PlacesWaiting
<1>3. Pos!Before(Pos!Variables + 1) = SumTo(tmpl.pre, Variables)
  BY <1>2, PlacesNames
<1> QED BY <1>1, <1>3, PlacesNames DEF TextsThenPlaces

\* The other fixed.dat is the texts and behind them the places, for every template
\* whose places fit in the buffer.
THEOREM PlacesWait == PageSpec => []TextsFirst
<1>1. PageInit => PlacesWaiting
  BY PlacesInit DEF PageInit
<1> QED BY <1>1, PlacesNext, PlacesLast, PTL DEF PageSpec

-----------------------------------------------------------------------------
(* The splitters agree *)

\* The second splitter begins when the first has ended.
Turn == (stage = "split" /\ k = 0) \/ istage = "done"

LEMMA TurnNext == Turn /\ [PageNext]_pageVars => Turn'
<1> SUFFICES ASSUME Turn, [PageNext]_pageVars PROVE Turn'
  OBVIOUS
<1>1. CASE SplitPlaces
  <2>1. stage' = stage /\ k' = k /\ istage # "done"
    BY <1>1 DEF SplitPlaces, vars, Pos!Next, Pos!SplitVariable, Pos!SplitRest, Pos!Close
  <2> QED BY <2>1 DEF Turn
<1>2. CASE MergeStep
  BY <1>2 DEF MergeStep, places, Turn
<1>3. CASE ConvertStep \/ ConvertReturns \/ UNCHANGED pageVars
  BY <1>3 DEF ConvertStep, ConvertReturns, pageVars, vars, places, Turn
<1> QED BY <1>1, <1>2, <1>3 DEF PageNext

LEMMA SplittersShow == Splitting /\ PlacesWaiting /\ Turn => SplittersAgree
<1> SUFFICES ASSUME Splitting, PlacesWaiting, Turn, Fits, stage \notin {"split", "close"}
             PROVE  /\ Len(positions) = Len(Header) - 1
                    /\ \A i \in DOMAIN positions :
                         positions[i] = SumTo([j \in DOMAIN Header |-> Header[j].n], i)
  BY DEF SplittersAgree
<1>1. tmpl \in Templates /\ file = Written
  BY DEF Splitting, Written
<1>2. /\ Len(Header) = Variables + 1 /\ DOMAIN Header = 1..(Variables + 1)
      /\ \A i \in 1..Variables : Header[i].n = tmpl.pre[i]
  BY <1>1, HeaderShape
<1>3. Variables \in Nat /\ \A i \in 1..Variables : tmpl.pre[i] \in Nat
  BY <1>1, TemplateTypes
<1>4. positions = [i \in 1..Variables |-> SumTo(tmpl.pre, i)]
  BY DEF PlacesWaiting, Turn
<1>5. Len(positions) = Variables /\ DOMAIN positions = 1..Variables
  BY <1>3, <1>4
<1>6. ASSUME NEW i \in 1..Variables
      PROVE  SumTo(tmpl.pre, i) = SumTo([j \in DOMAIN Header |-> Header[j].n], i)
  <2> DEFINE w == [j \in DOMAIN Header |-> Header[j].n]
  <2>1. i \in Nat /\ \A j \in 1..i : j \in 1..Variables /\ j \in 1..(Variables + 1)
    BY <1>3
  <2>2. \A j \in 1..i : tmpl.pre[j] \in Nat /\ w[j] = tmpl.pre[j]
    BY <1>2, <1>3, <2>1
  <2> HIDE DEF w
  <2>3. SumTo(w, i) = SumTo(tmpl.pre, i)
    BY <2>1, <2>2, SumSame
  <2> QED BY <2>3 DEF w
<1> QED BY <1>2, <1>3, <1>4, <1>5, <1>6

\* The places one splitter prints are the sums of the lengths the other writes, for
\* every template.
THEOREM PlacesMatchLengths == PageSpec => []SplittersAgree
<1>1. PageInit => Splitting /\ PlacesWaiting /\ Turn
  <2>1. Init => Turn
    BY DEF Init, Turn
  <2> QED BY <2>1, SplittingInit, PlacesInit DEF PageInit
<1> QED BY <1>1, SplittingNext, PlacesNext, TurnNext, SplittersShow, PTL DEF PageSpec

-----------------------------------------------------------------------------
(* The numerals *)

\* The names of Convert are those of Numbers.
LEMMA ConvertNames ==
    /\ \A b, n : Cvt!Pow(b, n) = Pow(b, n)
    /\ \A j, n : Cvt!LastDigits(j, n) = LastDigits(j, n)
    /\ \A s : Cvt!ValueOf(s) = ValueOf(s) /\ (Cvt!IsNumeral(s) <=> IsNumeral(s))
<1>1. \A b, n : Cvt!Pow(b, n) = Pow(b, n)
  BY Zenon DEF Cvt!Pow, Pow
<1>2. \A j, n : Cvt!LastDigits(j, n) = LastDigits(j, n)
  BY <1>1, Zenon DEF Cvt!LastDigits, LastDigits
<1>3. \A s : Cvt!ValueOf(s) = ValueOf(s)
  BY Zenon DEF Cvt!ValueOf, ValueOf
<1>4. \A s : Cvt!IsNumeral(s) <=> IsNumeral(s)
  BY DEF Cvt!IsNumeral, IsNumeral
<1> QED BY <1>1, <1>2, <1>3, <1>4

Magnitude(n) == IF n < 0 THEN -n ELSE n
Sign(n) == IF n < 0 THEN <<11>> ELSE <<>>
Whole(s) == s \in Seq(0..9) /\ Len(s) > 0 /\ s[1] # 0

\* What n is written as.
Right(n, cs) ==
    \E s \in Seq(0..9) :
        /\ Len(s) > 0 /\ cs = Sign(n) \o s
        /\ ValueOf(s) = Magnitude(n)
        /\ s[1] = 0 => s = <<0>>

LEMMA RightShown ==
    ASSUME NEW n \in Int, NEW cs, Right(n, cs)
    PROVE  /\ IsNumeral(Cvt!Unsign(cs)) /\ ValueOf(Cvt!Unsign(cs)) = Magnitude(n)
           /\ Cvt!Unsign(cs)[1] = 0 => Cvt!Unsign(cs) = <<0>>
           /\ (cs # Cvt!Unsign(cs)) <=> (n < 0)
           /\ (n < 0) <=> (cs[1] = Cvt!Minus)
<1>1. PICK s \in Seq(0..9) : /\ Len(s) > 0 /\ cs = Sign(n) \o s
                             /\ ValueOf(s) = Magnitude(n)
                             /\ s[1] = 0 => s = <<0>>
  BY DEF Right
<1>2. IsNumeral(s) /\ s[1] \in 0..9
  BY <1>1 DEF IsNumeral
<1>3. Cvt!Minus = 11
  BY DEF Cvt!Minus
<1>4. CASE n < 0
  <2>1. cs = <<11>> \o s
    BY <1>1, <1>4 DEF Sign
  <2>2. Len(cs) > 0 /\ cs[1] = 11 /\ Tail(cs) = s
    BY <2>1
  <2>3. Cvt!Unsign(cs) = s
    BY <1>3, <2>2 DEF Cvt!Unsign
  <2>4. cs # s
    BY <1>2, <2>2
  <2> QED BY <1>1, <1>2, <1>3, <1>4, <2>2, <2>3, <2>4
<1>5. CASE ~(n < 0)
  <2>1. cs = s
    BY <1>1, <1>5 DEF Sign
  <2>2. Cvt!Unsign(cs) = s /\ cs[1] # 11
    BY <1>2, <1>3, <2>1 DEF Cvt!Unsign
  <2> QED BY <1>1, <1>2, <1>3, <1>5, <2>1, <2>2
<1> QED BY <1>4, <1>5

Lowest == -Pow(2, Bits - 1)
Divisors(a) == Pow(10, a * Width)

LEMMA DivisorsNext ==
    ASSUME NEW a \in Nat
    PROVE  /\ Divisors(a) \in Nat \ {0} /\ Pow(10, Width) \in Nat \ {0}
           /\ Divisors(a + 1) = Divisors(a) * Pow(10, Width)
           /\ Cvt!Divisor(a) = Divisors(a)
<1>1. 10 \in Nat \ {0} /\ Width \in Nat /\ a * Width \in Nat
  BY Parameters
<1>2. (a + 1) * Width = a * Width + Width
  BY <1>1
<1>3. Pow(10, a * Width + Width) = Pow(10, a * Width) * Pow(10, Width)
  BY <1>1, PowSum
<1> QED BY <1>1, <1>2, <1>3, PowType, ConvertNames DEF Divisors, Cvt!Divisor

\* Every integer is below the first divisor that is not in the table.
LEMMA InTable ==
    ASSUME NEW kd, NEW n, InType(kd, n), kd # "double"
    PROVE  n \in Int /\ Magnitude(n) \in Nat /\ Magnitude(n) < Divisors(Groups)
<1>1. 2 \in Nat \ {0} /\ Bits - 1 \in Nat /\ (Bits - 1) + 1 = Bits
  BY Parameters
<1>2. Pow(2, Bits - 1) \in Nat \ {0} /\ Pow(2, Bits) = 2 * Pow(2, Bits - 1)
  BY <1>1, PowType, PowNext
<1>3. Pow(2, Bits) <= Divisors(Groups) /\ Divisors(Groups) \in Nat
  BY ClientPageAssumption, DivisorsNext DEF Divisors
<1>4. n \in -Pow(2, Bits - 1)..(Pow(2, Bits - 1) - 1) \/ n \in 0..(Pow(2, Bits) - 1)
  BY DEF InType
<1> QED BY <1>2, <1>3, <1>4 DEF Magnitude

\* What the client has been sent is of the types it is told.
Sendable == sent \in {Usual} \cup Messages \cup Others

\* What is shown of a value.
Shows(f, cs) ==
    /\ f.type = 0 => cs = <<>>
    /\ f.type \in 1..5 /\ f.in # Lowest => Right(f.in, cs)

\* The client converts the values in the order they were sent: when it has written
\* one it is at the first byte of the next, and it is at most one behind the texts.
AtValue(n) ==
    /\ auxb = FieldStart(n) /\ tag = sent[n].type
    /\ kind = KindOf(sent[n].type) /\ in = sent[n].in
Sending ==
    /\ Sendable
    /\ \E S : shown \in Seq(S)
    /\ k \in Nat /\ received \in 0..Values
    /\ stage \notin {"merge", "done", "lost"} => Len(shown) = 0
    /\ stage \in {"connect", "connecting", "read"} => k = 0
    /\ stage = "merge" => Len(shown) <= k /\ (received >= k => Len(shown) + 1 >= k)
    /\ stage = "done" /\ received >= k => Len(shown) = k
    /\ \A j \in 1..received : sent[j].type \notin {8, 9}
    /\ Len(shown) < Values => AtValue(Len(shown) + 1)
    /\ tag = 0 => at = "start"
    /\ \A j \in 1..Len(shown) : Shows(sent[j], shown[j])

LEMMA SentTypes == Sendable => \A j \in 1..Values : WellTyped(sent[j])
  BY ClientPageAssumption DEF Sendable

\* The bytes of the message are those of its values, one behind the other.
LEMMA FieldsFollow ==
    ASSUME Sendable
    PROVE  /\ FieldStart(1) = 0
           /\ \A i \in 1..(Values + 1) : FieldStart(i) \in Nat
           /\ \A i \in 1..Values :
                /\ Sizeof[sent[i].type] \in Nat
                /\ FieldStart(i + 1) = FieldStart(i) + (1 + Sizeof[sent[i].type])
                /\ \A j \in (i + 1)..Values : FieldStart(i + 1) <= FieldStart(j)
<1> DEFINE w == [j \in 1..Values |-> 1 + Sizeof[sent[j].type]]
<1>1. Values \in Nat
  BY DataMergeAssumption
<1>2. \A j \in 1..Values : Sizeof[sent[j].type] \in Nat
  BY SentTypes, ClientPageAssumption DEF WellTyped
<1>3. \A j \in 1..Values : w[j] \in Nat /\ w[j] = 1 + Sizeof[sent[j].type]
  BY <1>2
<1>4. \A i : FieldStart(i) = SumTo(w, i - 1)
  BY Zenon DEF FieldStart
<1> HIDE DEF w
<1>5. FieldStart(1) = 0
  <2>1. 1 - 1 = 0
    OBVIOUS
  <2> QED BY <1>4, <2>1, SumFirst, Zenon
<1>6. ASSUME NEW i \in 1..(Values + 1) PROVE FieldStart(i) \in Nat
  <2>1. i - 1 \in Nat /\ \A j \in 1..(i - 1) : w[j] \in Nat
    BY <1>1, <1>3
  <2> QED BY <1>4, <2>1, SumType
<1>7. ASSUME NEW i \in 1..Values
      PROVE  FieldStart(i + 1) = FieldStart(i) + (1 + Sizeof[sent[i].type])
  <2>1. i - 1 \in Nat /\ (i - 1) + 1 = i /\ (i + 1) - 1 = i /\ \A j \in 1..i : w[j] \in Nat
    BY <1>1, <1>3
  <2>2. SumTo(w, (i - 1) + 1) = SumTo(w, i - 1) + w[(i - 1) + 1]
    BY <2>1, SumNext
  <2> QED BY <1>3, <1>4, <2>1, <2>2
<1>8. ASSUME NEW i \in 1..Values, NEW j \in (i + 1)..Values
      PROVE  FieldStart(i + 1) <= FieldStart(j)
  <2>1. j - 1 \in Nat /\ i \in 0..(j - 1) /\ (i + 1) - 1 = i /\ \A m \in 1..(j - 1) : w[m] \in Nat
    BY <1>1, <1>3
  <2>2. SumTo(w, i) <= SumTo(w, j - 1)
    BY <2>1, SumGrows
  <2> QED BY <1>4, <2>1, <2>2
<1> QED BY <1>2, <1>5, <1>6, <1>7, <1>8

\* No two values begin at the same byte.
LEMMA FieldsApart ==
    ASSUME Sendable, NEW i \in 1..Values
    PROVE  FieldsAt(FieldStart(i)) = {sent[i]}
<1>1. Values \in Nat
  BY DataMergeAssumption
<1>2. ASSUME NEW m \in 1..Values, NEW n \in 1..Values, m < n
      PROVE  FieldStart(m) # FieldStart(n)
  <2>1. /\ m \in 1..(Values + 1) /\ n \in 1..(Values + 1) /\ m + 1 \in 1..(Values + 1)
        /\ n \in (m + 1)..Values
    BY <1>1, <1>2
  <2>2. /\ FieldStart(m) \in Nat /\ FieldStart(n) \in Nat /\ FieldStart(m + 1) \in Nat
        /\ Sizeof[sent[m].type] \in Nat
        /\ FieldStart(m + 1) = FieldStart(m) + (1 + Sizeof[sent[m].type])
        /\ FieldStart(m + 1) <= FieldStart(n)
    BY <2>1, FieldsFollow
  <2> QED BY <2>2
<1>3. ASSUME NEW j \in 1..Values, FieldStart(j) = FieldStart(i) PROVE j = i
  BY <1>1, <1>2, <1>3
<1>4. {j \in 1..Values : FieldStart(j) = FieldStart(i)} = {i}
  BY <1>3
<1> QED BY <1>4 DEF FieldsAt

LEMMA FieldsTyped == Sendable => \A b : \A f \in FieldsAt(b) : WellTyped(f)
  BY SentTypes, ClientPageAssumption DEF FieldsAt

\* What is written of the value at hand stands for what is no longer left of it.
Numbering ==
    /\ InType(kind, in)
    /\ at \in {"start", "lead", "rest", "done"}
    /\ at = "start" => left = in /\ group = Groups - 1 /\ chars = <<>>
    /\ kind # "double" /\ in # Lowest =>
        /\ at = "lead" =>
            /\ in # 0 /\ left = Magnitude(in) /\ chars = Sign(in)
            /\ group \in -1..(Groups - 1) /\ left < Divisors(group + 1)
        /\ at = "rest" =>
            /\ group \in -1..(Groups - 1) /\ left \in Nat /\ left < Divisors(group + 1)
            /\ \E s \in Seq(0..9) : /\ Len(s) > 0 /\ s[1] # 0 /\ chars = Sign(in) \o s
                                    /\ ValueOf(s) * Divisors(group + 1) + left = Magnitude(in)
        /\ at = "done" => Right(in, chars)

LEMMA SignType ==
    ASSUME NEW n, NEW s \in Seq(0..9), NEW t \in Seq(0..9)
    PROVE  /\ Sign(n) \in Seq(0..11) /\ Sign(n) \o <<>> = Sign(n)
           /\ (Sign(n) \o s) \o t = Sign(n) \o (s \o t)
           /\ s \o t \in Seq(0..9) /\ Len(s \o t) = Len(s) + Len(t)
           /\ Len(s) > 0 => (s \o t)[1] = s[1]
<1>1. /\ s \o t \in Seq(0..9) /\ Len(s \o t) = Len(s) + Len(t)
      /\ Len(s) > 0 => (s \o t)[1] = s[1]
  OBVIOUS
<1>2. CASE n < 0
  BY <1>1, <1>2 DEF Sign
<1>3. CASE ~(n < 0)
  BY <1>1, <1>3 DEF Sign
<1> QED BY <1>1, <1>2, <1>3

LEMMA RightWritten ==
    ASSUME NEW n, NEW s \in Seq(0..9), Len(s) > 0, ValueOf(s) = Magnitude(n)
    PROVE  (s[1] = 0 => s = <<0>>) => Right(n, Sign(n) \o s)
  BY Zenon DEF Right

\* The quotient of a division by a divisor of the table is a group.
LEMMA Quotient ==
    ASSUME NEW l \in Nat, NEW b \in Nat \ {0}, NEW p \in Nat \ {0}, l < b * p
    PROVE  /\ l \div b \in Nat /\ l \div b < p
           /\ l - (l \div b) * b \in Nat /\ l - (l \div b) * b < b
           /\ l >= b => l \div b # 0
<1> DEFINE q == l \div b
<1>1. q \in Nat /\ b * q <= l /\ l < b * q + b
  BY DivBounds
<1> HIDE DEF q
<1>2. b * q = q * b
  BY <1>1
<1>3. q < p
  <2>1. SUFFICES ASSUME q >= p PROVE FALSE
    BY <1>1
  <2>2. b * p <= b * q
    BY <1>1, <2>1, SMT
  <2> QED BY <1>1, <2>2
<1>4. l >= b => q # 0
  BY <1>1, <1>2
<1>5. l - q * b \in Nat /\ l - q * b < b
  BY <1>1, <1>2
<1> QED BY <1>1, <1>3, <1>4, <1>5 DEF q

\* A group taken off what is left and added to what is written.
LEMMA Regrouped ==
    ASSUME NEW v \in Nat, NEW b \in Nat, NEW p \in Nat, NEW l \in Nat, NEW q \in Nat
    PROVE  (v * p + q) * b + (l - q * b) = v * (b * p) + l
  OBVIOUS

LEMMA StrippedRight ==
    ASSUME NEW j \in Nat \ {0}, j < Pow(10, Width)
    PROVE  /\ Cvt!Stripped(j) \in Seq(0..9) /\ Len(Cvt!Stripped(j)) > 0
           /\ Cvt!Stripped(j)[1] # 0 /\ ValueOf(Cvt!Stripped(j)) = j
<1> DEFINE first == CHOOSE d \in 1..Width : /\ LastDigits(j, Width)[d] # 0
                                            /\ \A e \in 1..(d - 1) : LastDigits(j, Width)[e] = 0
           m == Width - (first - 1)
<1>1. Width \in Nat
  BY Parameters
<1>2. Cvt!Stripped(j) = SubSeq(LastDigits(j, Width), first, Width)
  BY ConvertNames, Zenon DEF Cvt!Stripped, Cvt!GroupDigits
<1> HIDE DEF first
<1>3. /\ first \in 1..Width /\ j < Pow(10, m)
      /\ SubSeq(LastDigits(j, Width), first, Width) = LastDigits(j, m)
      /\ LastDigits(j, m)[1] # 0
  BY <1>1, WithoutZeros DEF first
<1>4. m \in Nat /\ m > 0 /\ Pow(10, m) \in Nat
  BY <1>1, <1>3, PowType
<1> HIDE DEF m
<1>5. LastDigits(j, m) \in Seq(0..9) /\ Len(LastDigits(j, m)) = m
  BY <1>4, LastDigitsType
<1>6. <<>> \in Seq(0..9) /\ <<>> \o LastDigits(j, m) = LastDigits(j, m)
  BY <1>5
<1>7. ValueOf(LastDigits(j, m)) = j
  <2>1. ValueOf(<<>> \o LastDigits(j, m)) = ValueOf(<<>>) * Pow(10, m) + j
    BY <1>3, <1>4, <1>6, ValueAppended
  <2> QED BY <1>4, <1>6, <2>1, ValueEmpty
<1> QED BY <1>2, <1>3, <1>4, <1>5, <1>7

LEMMA NumberStart == Numbering /\ Cvt!Start => Numbering'
<1> SUFFICES ASSUME Numbering, Cvt!Start PROVE Numbering'
  OBVIOUS
<1>1. /\ InType(kind, in) /\ at = "start" /\ kind # "double"
      /\ left = in /\ group = Groups - 1 /\ chars = <<>>
      /\ kind' = kind /\ in' = in /\ group' = group
  BY DEF Numbering, Cvt!Start
<1>2. /\ left' = IF in < 0 THEN Cvt!Opposite(in) ELSE in
      /\ chars' = IF in < 0 THEN <<Cvt!Minus>> ELSE IF in = 0 THEN <<0>> ELSE <<>>
      /\ at' = IF in = 0 THEN "done" ELSE "lead"
  BY DEF Cvt!Start
<1>3. in \in Int /\ Magnitude(in) \in Nat /\ Magnitude(in) < Divisors(Groups)
  BY <1>1, InTable
<1>4. InType(kind, in)' /\ Lowest' = Lowest
  BY <1>1 DEF InType, Lowest
<1>5. CASE in = 0
  <2>1. chars' = <<0>> /\ at' = "done"
    BY <1>2, <1>5
  <2>2. ValueOf(<<0>>) = 0
    <3>1. <<0>> \in Seq(0..9) /\ Len(<<0>>) = 1 /\ <<0>>[1] = 0
      OBVIOUS
    <3>2. PICK u : ValueOf(<<0>>) = u[1] /\ Reads(u, <<0>>, 1)
      BY <3>1, ValueSteps
    <3>3. u[0] = 0 /\ u[1] = 10 * u[1 - 1] + <<0>>[1]
      BY <3>2 DEF Reads
    <3> QED BY <3>1, <3>2, <3>3
  <2>3. Right(in, chars')
    <3>1. <<0>> \in Seq(0..9) /\ Len(<<0>>) > 0 /\ Sign(in) \o <<0>> = <<0>>
      BY <1>5 DEF Sign
    <3>2. Magnitude(in) = 0
      BY <1>5 DEF Magnitude
    <3> QED BY <2>1, <2>2, <3>1, <3>2, RightWritten
  <2>4. Right(in, chars)' = Right(in, chars')
    BY <1>1 DEF Right
  <2> QED BY <1>1, <1>4, <2>1, <2>3, <2>4 DEF Numbering
<1>6. CASE in # 0
  <2>1. at' = "lead" /\ chars' = Sign(in)
    BY <1>2, <1>6 DEF Sign, Cvt!Minus
  <2>2. in # Lowest => left' = Magnitude(in)
    BY <1>2, <1>3, ConvertNames DEF Cvt!Opposite, Lowest, Magnitude
  <2>3. group' \in -1..(Groups - 1) /\ group' + 1 = Groups
    BY <1>1, Parameters
  <2>4. /\ Magnitude(in)' = Magnitude(in) /\ Sign(in)' = Sign(in)
        /\ Divisors(group + 1)' = Divisors(group' + 1)
    BY <1>1 DEF Magnitude, Sign, Divisors
  <2> QED BY <1>1, <1>3, <1>4, <1>6, <2>1, <2>2, <2>3, <2>4 DEF Numbering
<1> QED BY <1>5, <1>6

LEMMA NumberLead == Numbering /\ Cvt!Lead => Numbering'
<1> SUFFICES ASSUME Numbering, Cvt!Lead PROVE Numbering'
  OBVIOUS
<1> DEFINE D == Divisors(group)
           j == left \div D
<1>1. /\ InType(kind, in) /\ at = "lead" /\ kind' = kind /\ in' = in
      /\ at' \in {"lead", "rest", "done"}
  BY DEF Numbering, Cvt!Lead
<1>2. InType(kind, in)' /\ Lowest' = Lowest
  BY <1>1 DEF InType, Lowest
<1>3. CASE ~(kind # "double" /\ in # Lowest)
  BY <1>1, <1>2, <1>3 DEF Numbering
<1>4. CASE kind # "double" /\ in # Lowest
  <2>1. /\ in # 0 /\ left = Magnitude(in) /\ chars = Sign(in)
        /\ group \in -1..(Groups - 1) /\ left < Divisors(group + 1)
    BY <1>1, <1>4 DEF Numbering
  <2>2. in \in Int /\ Groups \in Nat /\ left \in Nat /\ left # 0
    BY <1>1, <1>4, <2>1, InTable, Parameters DEF Magnitude
  <2>3. ~(group < 0)
    <3>1. SUFFICES ASSUME group < 0 PROVE FALSE
      OBVIOUS
    <3>2. group + 1 = 0 /\ 0 * Width = 0
      BY <2>1, <2>2, <3>1, Parameters
    <3>3. Divisors(group + 1) = 1
      BY <3>2, PowZero DEF Divisors
    <3> QED BY <2>1, <2>2, <3>3
  <2>4. group \in Nat
    BY <2>1, <2>2, <2>3
  <2>5. /\ D \in Nat \ {0} /\ Pow(10, Width) \in Nat \ {0}
        /\ left < D * Pow(10, Width) /\ Cvt!Divisor(group) = D
    BY <2>1, <2>4, DivisorsNext
  <2>6. /\ group' = group - 1
        /\ left >= D => /\ chars' = chars \o Cvt!Stripped(j) /\ left' = left - j * D
                        /\ at' = "rest"
        /\ ~(left >= D) => left' = left /\ chars' = chars /\ at' = "lead"
    BY <1>1, <2>3, <2>5 DEF Cvt!Lead
  <2>7. group' \in -1..(Groups - 1) /\ group' + 1 = group
    BY <2>1, <2>2, <2>4, <2>6
  <2>8. /\ Magnitude(in)' = Magnitude(in) /\ Sign(in)' = Sign(in)
        /\ Divisors(group + 1)' = D
    BY <1>1, <2>7 DEF Magnitude, Sign, Divisors
  <2>9. CASE left >= D
    <3>1. /\ j \in Nat \ {0} /\ j < Pow(10, Width)
          /\ left - j * D \in Nat /\ left - j * D < D
      BY <2>2, <2>5, <2>9, Quotient
    <3> DEFINE s == Cvt!Stripped(j)
    <3>2. s \in Seq(0..9) /\ Len(s) > 0 /\ s[1] # 0 /\ ValueOf(s) = j
      BY <3>1, StrippedRight
    <3>3. chars' = Sign(in) \o s /\ left' = left - j * D /\ at' = "rest"
      BY <2>1, <2>6, <2>9
    <3> HIDE DEF s, j
    <3>4. ValueOf(s) * D + left' = Magnitude(in)
      BY <2>1, <2>2, <2>5, <3>1, <3>2, <3>3, SMTT(30)
    <3>5. \E u \in Seq(0..9) : /\ Len(u) > 0 /\ u[1] # 0 /\ chars' = Sign(in) \o u
                               /\ ValueOf(u) * D + left' = Magnitude(in)
      BY <3>2, <3>3, <3>4, Zenon
    <3>6. left' \in Nat /\ left' < D
      BY <3>1, <3>3
    <3> HIDE DEF D
    <3> QED BY <1>1, <1>2, <2>7, <2>8, <3>3, <3>5, <3>6 DEF Numbering
  <2>10. CASE ~(left >= D)
    <3>1. left' = left /\ chars' = chars /\ at' = "lead" /\ left' < D
      BY <2>2, <2>5, <2>6, <2>10
    <3> HIDE DEF D
    <3> QED BY <1>1, <1>2, <2>1, <2>7, <2>8, <3>1 DEF Numbering
  <2> QED BY <2>9, <2>10
<1> QED BY <1>3, <1>4

LEMMA NumberRest == Numbering /\ Cvt!Rest => Numbering'
<1> SUFFICES ASSUME Numbering, Cvt!Rest PROVE Numbering'
  OBVIOUS
<1> DEFINE D == Divisors(group)
           j == left \div D
<1>1. /\ InType(kind, in) /\ at = "rest" /\ kind' = kind /\ in' = in
      /\ at' \in {"rest", "done"}
  BY DEF Numbering, Cvt!Rest
<1>2. InType(kind, in)' /\ Lowest' = Lowest
  BY <1>1 DEF InType, Lowest
<1>3. CASE ~(kind # "double" /\ in # Lowest)
  BY <1>1, <1>2, <1>3 DEF Numbering
<1>4. CASE kind # "double" /\ in # Lowest
  <2>1. /\ group \in -1..(Groups - 1) /\ left \in Nat /\ left < Divisors(group + 1)
        /\ \E s \in Seq(0..9) : /\ Len(s) > 0 /\ s[1] # 0 /\ chars = Sign(in) \o s
                                /\ ValueOf(s) * Divisors(group + 1) + left = Magnitude(in)
    BY <1>1, <1>4 DEF Numbering
  <2>2. PICK s \in Seq(0..9) : /\ Len(s) > 0 /\ s[1] # 0 /\ chars = Sign(in) \o s
                               /\ ValueOf(s) * Divisors(group + 1) + left = Magnitude(in)
    BY <2>1
  <2>3. in \in Int /\ Groups \in Nat /\ Magnitude(in) \in Nat /\ ValueOf(s) \in Nat
    BY <1>1, <1>4, InTable, Parameters, ValueType
  <2>4. CASE group < 0
    <3>1. group + 1 = 0 /\ 0 * Width = 0
      BY <2>1, <2>3, <2>4, Parameters
    <3>2. Divisors(group + 1) = 1
      BY <3>1, PowZero DEF Divisors
    <3>3. ValueOf(s) = Magnitude(in)
      BY <2>1, <2>2, <2>3, <3>2
    <3>4. Right(in, chars)
      BY <2>2, <3>3, RightWritten
    <3>5. at' = "done" /\ chars' = chars
      BY <2>4 DEF Cvt!Rest
    <3>6. Right(in, chars)'
      BY <1>1, <3>4, <3>5
    <3> QED BY <1>1, <1>2, <3>5, <3>6 DEF Numbering
  <2>5. CASE ~(group < 0)
    <3>1. group \in Nat
      BY <2>1, <2>3, <2>5
    <3>2. /\ D \in Nat \ {0} /\ Pow(10, Width) \in Nat \ {0}
          /\ Divisors(group + 1) = D * Pow(10, Width) /\ Cvt!Divisor(group) = D
      BY <3>1, DivisorsNext
    <3>3. /\ group' = group - 1 /\ at' = "rest" /\ left' = left - j * D
          /\ chars' = chars \o LastDigits(j, Width)
      BY <1>1, <2>5, <3>2, ConvertNames DEF Cvt!Rest, Cvt!GroupDigits
    <3>4. group' \in -1..(Groups - 1) /\ group' + 1 = group
      BY <2>1, <2>3, <3>1, <3>3
    <3>5. /\ Magnitude(in)' = Magnitude(in) /\ Sign(in)' = Sign(in)
          /\ Divisors(group + 1)' = D
      BY <1>1, <3>4 DEF Magnitude, Sign, Divisors
    <3>6. /\ j \in Nat /\ j < Pow(10, Width)
          /\ left - j * D \in Nat /\ left - j * D < D
      BY <2>1, <3>2, Quotient
    <3> HIDE DEF j, D
    <3> DEFINE t == s \o LastDigits(j, Width)
    <3>7. Width \in Nat
      BY Parameters
    <3>8. LastDigits(j, Width) \in Seq(0..9)
      BY <3>6, <3>7, LastDigitsType
    <3>9. /\ chars' = Sign(in) \o t /\ t \in Seq(0..9) /\ Len(t) > 0 /\ t[1] # 0
      <4> DEFINE g == LastDigits(j, Width)
      <4>1. s \in Seq(0..9) /\ Len(s) > 0 /\ s[1] # 0 /\ chars = Sign(in) \o s
        BY <2>2
      <4>2. g \in Seq(0..9) /\ chars' = chars \o g
        BY <3>3, <3>8
      <4> HIDE DEF g
      <4>3. /\ (Sign(in) \o s) \o g = Sign(in) \o (s \o g)
            /\ s \o g \in Seq(0..9) /\ Len(s \o g) = Len(s) + Len(g) /\ (s \o g)[1] = s[1]
        BY <4>1, <4>2, SignType, SMTT(30)
      <4>4. Len(s \o g) > 0
        BY <4>1, <4>2, <4>3
      <4> QED BY <4>1, <4>2, <4>3, <4>4 DEF g
    <3>10. ValueOf(t) = ValueOf(s) * Pow(10, Width) + j
      BY <3>6, <3>7, ValueAppended
    <3> HIDE DEF t
    <3>11. ValueOf(t) * D + left' = Magnitude(in)
      <4>1. (ValueOf(s) * Pow(10, Width) + j) * D + (left - j * D)
              = ValueOf(s) * (D * Pow(10, Width)) + left
        <5>1. /\ ValueOf(s) \in Nat /\ D \in Nat /\ Pow(10, Width) \in Nat
              /\ left \in Nat /\ j \in Nat
          BY <2>1, <2>3, <3>2, <3>6
        <5> QED BY <5>1, Regrouped
      <4> QED BY <2>2, <3>2, <3>3, <3>10, <4>1, Zenon
    <3>12. \E u \in Seq(0..9) : /\ Len(u) > 0 /\ u[1] # 0 /\ chars' = Sign(in) \o u
                                /\ ValueOf(u) * D + left' = Magnitude(in)
      BY <3>9, <3>11, Zenon
    <3>13. left' \in Nat /\ left' < D
      BY <3>3, <3>6
    <3> QED BY <1>1, <1>2, <3>3, <3>4, <3>5, <3>12, <3>13 DEF Numbering
  <2> QED BY <2>4, <2>5
<1> QED BY <1>3, <1>4

LEMMA NumberDouble == Numbering /\ Cvt!ConvertDouble => Numbering'
<1> SUFFICES ASSUME Numbering, Cvt!ConvertDouble PROVE Numbering'
  OBVIOUS
<1>1. InType(kind, in) /\ kind = "double" /\ kind' = kind /\ in' = in /\ at' = "done"
  BY Zenon DEF Numbering, Cvt!ConvertDouble
<1> QED BY <1>1 DEF Numbering, InType

LEMMA NumberReturns == Sending /\ ConvertReturns => Numbering'
<1> SUFFICES ASSUME Sending, ConvertReturns PROVE Numbering'
  OBVIOUS
<1>1. PICK f \in FieldsAt(auxb + Moved(tag)) : kind' = KindOf(f.type) /\ in' = f.in /\ left' = f.in
  BY Zenon DEF ConvertReturns
<1>2. at' = "start" /\ group' = Groups - 1 /\ chars' = <<>>
  BY Zenon DEF ConvertReturns
<1>3. InType(KindOf(f.type), f.in)
  BY FieldsTyped DEF Sending, WellTyped
<1>4. InType(kind, in)'
  BY <1>1, <1>3 DEF InType
<1> QED BY <1>1, <1>2, <1>4 DEF Numbering

LEMMA NumberKept == Numbering /\ UNCHANGED conversion => Numbering'
<1> SUFFICES ASSUME Numbering, UNCHANGED conversion PROVE Numbering'
  OBVIOUS
<1>1. kind' = kind /\ in' = in /\ at' = at /\ left' = left /\ group' = group /\ chars' = chars
  BY DEF conversion
<1> QED BY <1>1 DEF Numbering, InType, Lowest, Magnitude, Sign, Divisors, Right

LEMMA NumberNext == Numbering /\ Sending /\ [PageNext]_pageVars => Numbering'
<1> SUFFICES ASSUME Numbering, Sending, [PageNext]_pageVars PROVE Numbering'
  OBVIOUS
<1>1. CASE SplitPlaces \/ MergeStep
  BY <1>1, NumberKept, Zenon DEF SplitPlaces, MergeStep
<1>2. CASE ConvertStep
  BY <1>2, NumberStart, NumberLead, NumberRest, NumberDouble DEF ConvertStep, Cvt!Next
<1>3. CASE ConvertReturns
  BY <1>3, NumberReturns
<1>4. CASE UNCHANGED pageVars
  BY <1>4, NumberKept DEF pageVars
<1> QED BY <1>1, <1>2, <1>3, <1>4 DEF PageNext

LEMMA SendingReturns == Sending /\ Numbering /\ ConvertReturns => Sending'
<1> SUFFICES ASSUME Sending, Numbering, ConvertReturns PROVE Sending'
  OBVIOUS
<1>1. /\ stage = "merge" /\ Len(shown) < k /\ Len(shown) < received
      /\ at = "done" \/ tag = 0
      /\ shown' = Append(shown, chars) /\ auxb' = auxb + Moved(tag) /\ at' = "start"
  BY Zenon DEF ConvertReturns, Calling
<1>2. stage' = stage /\ k' = k /\ received' = received /\ sent' = sent
  BY DEF ConvertReturns, vars
<1>3. PICK S : shown \in Seq(S)
  BY DEF Sending
<1>4. /\ shown' \in Seq(S \cup {chars}) /\ Len(shown') = Len(shown) + 1
      /\ Len(shown) \in Nat /\ shown'[Len(shown) + 1] = chars
      /\ \A j \in 1..Len(shown) : shown'[j] = shown[j]
  BY <1>1, <1>3, AppendTo
<1>5. k \in Nat /\ received \in 0..Values /\ Values \in Nat
  BY DataMergeAssumption DEF Sending
<1> DEFINE n == Len(shown) + 1
<1>6. n \in 1..Values /\ n \in 1..received /\ n + 1 = Len(shown') + 1
  BY <1>1, <1>4, <1>5
<1>7. AtValue(n)
  BY <1>1, <1>4, <1>5 DEF Sending
<1>8. Shows(sent[n], chars)
  <2>1. CASE tag = 0
    <3>1. chars = <<>> /\ sent[n].type = 0
      BY <1>7, <2>1 DEF Sending, Numbering, AtValue
    <3> QED BY <3>1 DEF Shows
  <2>2. CASE tag # 0
    <3>1. at = "done" /\ sent[n].type # 0 /\ kind = KindOf(sent[n].type) /\ in = sent[n].in
      BY <1>1, <1>7, <2>2 DEF AtValue
    <3>2. sent[n].type \in 1..5 => kind # "double"
      BY <3>1 DEF KindOf
    <3>3. kind # "double" /\ in # Lowest => Right(in, chars)
      BY <3>1 DEF Numbering
    <3> QED BY <3>1, <3>2, <3>3 DEF Shows
  <2> QED BY <2>1, <2>2
<1> HIDE DEF n
<1>9. \A j \in 1..Len(shown') : Shows(sent[j], shown'[j])
  <2> SUFFICES ASSUME NEW j \in 1..Len(shown') PROVE Shows(sent[j], shown'[j])
    OBVIOUS
  <2>1. CASE j = n
    BY <1>4, <1>8, <2>1 DEF n
  <2>2. CASE j # n
    <3>1. j \in 1..Len(shown)
      BY <1>4, <2>2 DEF n
    <3>2. Shows(sent[j], shown[j])
      BY <3>1 DEF Sending
    <3> QED BY <1>4, <3>1, <3>2
  <2> QED BY <2>1, <2>2
<1>10. (\A j \in 1..Len(shown) : Shows(sent[j], shown[j]))'
  BY <1>2, <1>9 DEF Shows, Right, Lowest
<1>11. Sendable' /\ (\E V : shown \in Seq(V))'
  BY <1>2, <1>4 DEF Sending, Sendable, Messages, Sent
<1>12. /\ k' \in Nat /\ received' \in 0..Values /\ stage' = "merge"
       /\ Len(shown') <= k' /\ (received' >= k' => Len(shown') + 1 >= k')
  <2>1. received >= k => Len(shown) + 1 >= k
    BY <1>1 DEF Sending
  <2> QED BY <1>1, <1>2, <1>4, <1>5, <2>1
<1>13. auxb' = FieldStart(n + 1)
  <2>1. sent[n].type \notin {8, 9}
    BY <1>6 DEF Sending
  <2>2. auxb = FieldStart(n) /\ tag = sent[n].type /\ WellTyped(sent[n])
    BY <1>6, <1>7, SentTypes DEF AtValue, Sending
  <2>3. Sizeof[0] = 0
    BY ClientPageAssumption
  <2>4. Moved(tag) = 1 + Sizeof[sent[n].type]
    BY <2>1, <2>2, <2>3 DEF Moved
  <2> QED BY <1>1, <1>6, <2>2, <2>4, FieldsFollow DEF Sending
<1>14. Len(shown') < Values => AtValue(Len(shown) + 1)'
  <2> SUFFICES ASSUME Len(shown') < Values PROVE AtValue(Len(shown) + 1)'
    OBVIOUS
  <2>1. n + 1 \in 1..Values
    BY <1>4, <1>5, <1>6
  <2>2. FieldsAt(FieldStart(n + 1)) = {sent[n + 1]}
    BY <2>1, FieldsApart DEF Sending
  <2>3. tag' = sent[n + 1].type /\ kind' = KindOf(sent[n + 1].type) /\ in' = sent[n + 1].in
    <3>1. PICK f \in FieldsAt(auxb + Moved(tag)) :
            tag' = f.type /\ kind' = KindOf(f.type) /\ in' = f.in
      BY Zenon DEF ConvertReturns
    <3>2. f = sent[n + 1]
      BY <1>1, <1>13, <2>2, <3>1
    <3> QED BY <3>1, <3>2
  <2> QED BY <1>2, <1>6, <1>13, <2>3 DEF AtValue, FieldStart
<1>15. (\A j \in 1..received : sent[j].type \notin {8, 9})'
  BY <1>2 DEF Sending
<1> QED BY <1>1, <1>10, <1>11, <1>12, <1>14, <1>15 DEF Sending

\* What is sent and shown, and the value at hand, are as they were.
LEMMA SendingMerge == Sending /\ MergeStep => Sending'
<1> SUFFICES ASSUME Sending, MergeStep PROVE Sending'
  OBVIOUS
<1>1. /\ kind' = kind /\ in' = in /\ at' = at /\ auxb' = auxb /\ tag' = tag
      /\ sent' = sent /\ shown' = shown
      /\ Next /\ ~Calling /\ \A j \in 1..received' : sent[j].type \notin {8, 9}
  BY DEF MergeStep, conversion, message
<1>2. /\ k \in Nat /\ received \in 0..Values /\ Values \in Nat /\ Len(shown) \in Nat
      /\ stage \notin {"merge", "done", "lost"} => Len(shown) = 0
      /\ stage \in {"connect", "connecting", "read"} => k = 0
      /\ stage = "merge" => Len(shown) <= k /\ (received >= k => Len(shown) + 1 >= k)
      /\ stage = "done" /\ received >= k => Len(shown) = k
  BY DataMergeAssumption DEF Sending
<1>3. stage = "merge" => Len(shown) >= k \/ Len(shown) >= received
  BY <1>1, <1>2 DEF Calling
<1>4. /\ k' \in Nat /\ received' \in 0..Values
      /\ stage' \notin {"merge", "done", "lost"} => Len(shown) = 0
      /\ stage' \in {"connect", "connecting", "read"} => k' = 0
      /\ stage' = "merge" => Len(shown) <= k' /\ (received' >= k' => Len(shown) + 1 >= k')
      /\ stage' = "done" /\ received' >= k' => Len(shown) = k'
  <2>1. CASE SplitVariable
    <3>1. stage = "split" /\ stage' = stage /\ k' = k + 1 /\ received' = received
      BY <2>1 DEF SplitVariable
    <3> QED BY <1>2, <3>1
  <2>2. CASE SplitRest
    <3>1. stage = "split" /\ stage' = "close" /\ k' = k /\ received' = received
      BY <2>2 DEF SplitRest
    <3> QED BY <1>2, <3>1
  <2>3. CASE CloseFile
    <3>1. stage = "close" /\ stage' = "connect" /\ k' = 0 /\ received' = received
      BY <2>3 DEF CloseFile
    <3> QED BY <1>2, <3>1
  <2>4. CASE OpenSocket \/ Refused \/ Connected \/ Dies \/ Unasked
    <3>1. /\ stage \in {"connect", "connecting", "read"}
          /\ stage' \in {"connect", "connecting", "read", "lost", "closed"}
          /\ k' = k /\ received' = received
      BY <2>4 DEF OpenSocket, Refused, Connected, Dies, Unasked, Waiting
    <3> QED BY <1>2, <3>1
  <2>5. CASE ReadMessage
    <3>1. /\ stage = "read" /\ stage' \in {"merge", "lost"} /\ k' = k
          /\ received' \in 0..Values
      BY <2>5 DEF ReadMessage
    <3> QED BY <1>2, <3>1
  <2>6. CASE MergeVariable
    <3>1. stage = "merge" /\ stage' = stage /\ k' = k + 1 /\ received' = received
      BY <2>6 DEF MergeVariable
    <3> QED BY <1>2, <1>3, <3>1
  <2>7. CASE MergeDies
    <3>1. stage = "merge" /\ stage' = "lost" /\ k' = k /\ received' = received
      BY <2>7 DEF MergeDies
    <3> QED BY <1>2, <3>1
  <2>8. CASE MergeRest
    <3>1. stage = "merge" /\ stage' = "done" /\ k' = k /\ received' = received
      BY <2>8 DEF MergeRest
    <3> QED BY <1>2, <1>3, <3>1
  <2> QED BY <1>1, <2>1, <2>2, <2>3, <2>4, <2>5, <2>6, <2>7, <2>8 DEF Next
<1>5. /\ Sendable' /\ (\E S : shown \in Seq(S))'
      /\ (Len(shown) < Values => AtValue(Len(shown) + 1))'
      /\ (\A j \in 1..Len(shown) : Shows(sent[j], shown[j]))'
      /\ (tag = 0 => at = "start")'
      /\ (\A j \in 1..received : sent[j].type \notin {8, 9})'
  BY <1>1 DEF Sending, Sendable, Messages, Sent, AtValue, FieldStart, Shows, Right, Lowest,
              Magnitude, Sign
<1> QED BY <1>1, <1>4, <1>5 DEF Sending

LEMMA SendingKept ==
    /\ Sending /\ stage' = stage /\ k' = k /\ received' = received
    /\ kind' = kind /\ in' = in /\ (at' = at \/ tag # 0)
    /\ auxb' = auxb /\ tag' = tag /\ sent' = sent /\ shown' = shown
    => Sending'
  BY DEF Sending, Sendable, Messages, Sent, AtValue, FieldStart, Shows, Right, Lowest,
         Magnitude, Sign

LEMMA SendingNext == Sending /\ Numbering /\ [PageNext]_pageVars => Sending'
<1> SUFFICES ASSUME Sending, Numbering, [PageNext]_pageVars PROVE Sending'
  OBVIOUS
<1>1. CASE SplitPlaces
  BY <1>1, SendingKept DEF SplitPlaces, vars, conversion, message
<1>2. CASE MergeStep
  BY <1>2, SendingMerge
<1>3. CASE ConvertStep
  <2>1. kind' = kind /\ in' = in /\ tag # 0
    BY <1>3, Zenon DEF ConvertStep, Cvt!Next, Cvt!Start, Cvt!Lead, Cvt!Rest, Cvt!ConvertDouble
  <2> QED BY <1>3, <2>1, SendingKept DEF ConvertStep, vars, message
<1>4. CASE ConvertReturns
  BY <1>4, SendingReturns
<1>5. CASE UNCHANGED pageVars
  BY <1>5, SendingKept DEF pageVars, vars, conversion, message
<1> QED BY <1>1, <1>2, <1>3, <1>4, <1>5 DEF PageNext

LEMMA SendingInit == PageInit => Sending /\ Numbering
<1> SUFFICES ASSUME PageInit PROVE Sending /\ Numbering
  OBVIOUS
<1>1. /\ Sendable /\ auxb = 0 /\ tag = sent[1].type
      /\ kind = KindOf(sent[1].type) /\ in = sent[1].in /\ shown = <<>>
      /\ stage = "split" /\ k = 0 /\ received = 0
      /\ at = "start" /\ left = in /\ group = Groups - 1 /\ chars = <<>>
  BY DEF PageInit, Sendable, Init, Cvt!Init
<1>2. Values \in Nat /\ Values > 0 /\ 1 \in 1..Values
  BY DataMergeAssumption, Parameters
<1>3. shown \in Seq({}) /\ Len(shown) = 0
  BY <1>1
<1>4. Sending
  <2>1. AtValue(Len(shown) + 1)
    BY <1>1, <1>3, FieldsFollow DEF AtValue
  <2> QED BY <1>1, <1>2, <1>3, <2>1 DEF Sending
<1>5. InType(kind, in)
  BY <1>1, <1>2, SentTypes DEF WellTyped
<1>6. Numbering
  BY <1>1, <1>5 DEF Numbering
<1> QED BY <1>4, <1>6

LEMMA NumberingShows == Numbering => IntegersRight
<1> SUFFICES ASSUME Numbering, at = "done", kind # "double", in # -Cvt!Pow(2, Bits - 1)
             PROVE  /\ Cvt!IsNumeral(Cvt!Unsign(chars))
                    /\ Cvt!ValueOf(Cvt!Unsign(chars)) = Cvt!Abs(in)
                    /\ Cvt!Unsign(chars)[1] = 0 => Cvt!Unsign(chars) = <<0>>
                    /\ (chars # Cvt!Unsign(chars)) <=> (in < 0)
  BY Zenon DEF IntegersRight, Cvt!IntegersRight
<1>1. in \in Int
  BY InTable DEF Numbering
<1>2. Right(in, chars)
  BY ConvertNames DEF Numbering, Lowest
<1>3. Cvt!Abs(in) = Magnitude(in)
  BY DEF Cvt!Abs, Magnitude
<1> QED BY <1>1, <1>2, <1>3, RightShown, ConvertNames

\* Every integer the client converts, of whatever width, is written as its own
\* decimal numeral, the smallest of its type excepted: the groups of the table are
\* put together without a zero lost or one too many (convert.cc:36, convert.cc:55).
THEOREM NumeralsRight == PageSpec => []IntegersRight
<1> QED BY SendingInit, NumberNext, SendingNext, NumberingShows, PTL DEF PageSpec

LEMMA SendingShows == Sending => ValuesShown
<1> SUFFICES ASSUME Sending, stage = "done", received >= k
             PROVE  /\ Len(shown) = k
                    /\ \A i \in 1..k :
                        /\ sent[i].type = 0 => shown[i] = <<>>
                        /\ sent[i].type \in 1..5 /\ sent[i].in # -Pow(2, Bits - 1) =>
                            /\ ValueOf(Cvt!Unsign(shown[i])) = Cvt!Abs(sent[i].in)
                            /\ (sent[i].in < 0) <=> (shown[i][1] = Cvt!Minus)
  BY Zenon DEF ValuesShown
<1>1. Len(shown) = k
  BY DEF Sending
<1>2. ASSUME NEW i \in 1..k PROVE i \in 1..Values /\ Shows(sent[i], shown[i])
  BY <1>1, DataMergeAssumption DEF Sending
<1>3. ASSUME NEW i \in 1..k, sent[i].type \in 1..5, sent[i].in # -Pow(2, Bits - 1)
      PROVE  /\ ValueOf(Cvt!Unsign(shown[i])) = Cvt!Abs(sent[i].in)
             /\ (sent[i].in < 0) <=> (shown[i][1] = Cvt!Minus)
  <2>1. i \in 1..Values /\ Right(sent[i].in, shown[i])
    BY <1>2, <1>3 DEF Shows, Lowest
  <2>2. InType(KindOf(sent[i].type), sent[i].in) /\ KindOf(sent[i].type) # "double"
    BY <1>3, <2>1, SentTypes DEF Sending, WellTyped, KindOf
  <2>3. sent[i].in \in Int
    BY <2>2, InTable
  <2>4. Cvt!Abs(sent[i].in) = Magnitude(sent[i].in)
    BY DEF Cvt!Abs, Magnitude
  <2> QED BY <2>1, <2>3, <2>4, RightShown
<1>4. \A i \in 1..k : sent[i].type = 0 => shown[i] = <<>>
  BY <1>2 DEF Shows
<1> QED BY <1>1, <1>3, <1>4

\* Whatever the sizes of the types, the client that ends with its values received has
\* gone from each to the first byte of the next, and has written one for each
\* variable, the values as they were sent and in that order; of a long double or a
\* char, which it does not step over, nothing is said (client.cc:156-201).
THEOREM ValuesInOrder == PageSpec => []ValuesShown
<1> QED BY SendingInit, NumberNext, SendingNext, SendingShows, PTL DEF PageSpec

-----------------------------------------------------------------------------
(* The page *)

\* How many digits a number has, and what the client takes them to be.
LEMMA DigitsOf ==
    ASSUME NEW n \in Nat, n < 10000
    PROVE  /\ n < 10 => Digits(n) = 1
           /\ n >= 10 /\ n < 100 => Digits(n) = 2
           /\ n >= 100 /\ n < 1000 => Digits(n) = 3
           /\ n >= 1000 => Digits(n) = 4
<1> DEFINE R == {w \in 1..9 : n >= Tens[w]}
           m == IF n < 10 THEN 0 ELSE IF n < 100 THEN 1 ELSE IF n < 1000 THEN 2 ELSE 3
<1>1. /\ Tens[1] = 10 /\ Tens[2] = 100 /\ Tens[3] = 1000 /\ Tens[4] = 10000
      /\ Tens[5] = 100000 /\ Tens[6] = 1000000 /\ Tens[7] = 10000000
      /\ Tens[8] = 100000000 /\ Tens[9] = 1000000000
  BY DEF Tens
<1>2. \A w \in 1..9 : w = 1 \/ w = 2 \/ w = 3 \/ w = 4 \/ w = 5 \/ w = 6 \/ w = 7 \/ w = 8 \/ w = 9
  OBVIOUS
<1>3. R = 1..m
  BY <1>1, <1>2
<1>4. m \in Nat /\ Cardinality(1..m) = m
  <2>1. m \in Nat
    OBVIOUS
  <2> HIDE DEF m
  <2> QED BY <2>1, FS_Interval
<1>5. Digits(n) = 1 + Cardinality(R)
  BY DEF Digits
<1> HIDE DEF R
<1> QED BY <1>3, <1>4, <1>5

LEMMA DigitsEnough == ASSUME NEW n \in Nat, n < 10000 PROVE n < Pow(10, Digits(n))
<1>1. 10 \in Nat \ {0} /\ 0 \in Nat /\ 1 \in Nat /\ 2 \in Nat /\ 3 \in Nat
  OBVIOUS
<1>2. /\ Pow(10, 0 + 1) = 10 * Pow(10, 0) /\ Pow(10, 1 + 1) = 10 * Pow(10, 1)
      /\ Pow(10, 2 + 1) = 10 * Pow(10, 2) /\ Pow(10, 3 + 1) = 10 * Pow(10, 3)
      /\ Pow(10, 0) = 1
  BY <1>1, PowNext, PowZero
<1>3. Pow(10, 1) = 10 /\ Pow(10, 2) = 100 /\ Pow(10, 3) = 1000 /\ Pow(10, 4) = 10000
  BY <1>2
<1>4. \/ n < 10 /\ Digits(n) = 1
      \/ n < 100 /\ Digits(n) = 2
      \/ n < 1000 /\ Digits(n) = 3
      \/ Digits(n) = 4
  BY DigitsOf
<1> QED BY <1>3, <1>4

LEMMA NumbersizeOf ==
    ASSUME NEW n \in Nat, n < 10000
    PROVE  /\ n < 10 => Numbersize(n) = 1
           /\ n >= 10 /\ n < 100 => Numbersize(n) = 2
           /\ n >= 100 => Numbersize(n) = 3
<1> DEFINE abs == IF n < 0 THEN -n ELSE n
           F(f) == [m \in 0..abs |->
                IF m < 10 THEN 1 ELSE IF m < 100 THEN 2 ELSE IF m < 1000 THEN 3
                ELSE 3 * f[m \div 1000]]
           g == [m \in 0..n |-> IF m < 10 THEN 1 ELSE IF m < 100 THEN 2 ELSE 3]
           s == CHOOSE h : h = F(h)
<1>1. Numbersize(n) = s[abs]
  BY DEF Numbersize
<1>2. abs = n
  OBVIOUS
<1> HIDE DEF abs
<1>3. \A m \in 0..n : m >= 1000 => m \div 1000 \in 1..9 /\ m \div 1000 \in 0..n
  <2> TAKE m \in 0..n
  <2> QED OBVIOUS
<1>4. g = F(g)
  <2>1. \A m \in 0..n : g[m] = IF m < 10 THEN 1 ELSE IF m < 100 THEN 2 ELSE 3
    OBVIOUS
  <2> HIDE DEF g
  <2>2. ASSUME NEW m \in 0..n
        PROVE  g[m] = IF m < 10 THEN 1 ELSE IF m < 100 THEN 2 ELSE IF m < 1000 THEN 3
                      ELSE 3 * g[m \div 1000]
    <3>1. CASE m < 1000
      BY <2>1, <3>1
    <3>2. CASE m >= 1000
      <4>1. m \div 1000 \in 1..9 /\ m \div 1000 \in 0..n
        BY <1>3, <3>2
      <4>2. g[m \div 1000] = 1
        BY <2>1, <4>1
      <4> QED BY <2>1, <3>2, <4>2
    <3> QED BY <3>1, <3>2
  <2>3. g = [m \in 0..n |-> g[m]]
    BY DEF g
  <2>4. [m \in 0..n |-> g[m]]
          = [m \in 0..n |-> IF m < 10 THEN 1 ELSE IF m < 100 THEN 2 ELSE IF m < 1000 THEN 3
                            ELSE 3 * g[m \div 1000]]
    BY <2>2
  <2> QED BY <1>2, <2>3, <2>4
<1>5. s = F(s)
  <2>1. PICK f : f = F(f)
    <3> HIDE DEF F, g
    <3> QED BY <1>4
  <2> HIDE DEF F
  <2>2. f = F(f) => s = F(s)
    OBVIOUS
  <2> QED BY <2>1, <2>2
<1> HIDE DEF s, g
<1>6. \A m \in 0..n : m < 1000 => s[m] = IF m < 10 THEN 1 ELSE IF m < 100 THEN 2 ELSE 3
  BY <1>2, <1>5
<1>7. \A m \in 0..n : m >= 1000 => s[m] = 3 * s[m \div 1000]
  BY <1>2, <1>5
<1>8. Numbersize(n) = s[n] /\ n \in 0..n
  BY <1>1, <1>2
<1> HIDE DEF F
<1>9. CASE n < 1000
  BY <1>6, <1>8, <1>9
<1>10. CASE n >= 1000
  <2>1. s[n] = 3 * s[n \div 1000] /\ n \div 1000 \in 1..9 /\ n \div 1000 \in 0..n
    BY <1>3, <1>7, <1>8, <1>10
  <2>2. s[n \div 1000] = 1
    BY <1>6, <2>1
  <2> QED BY <1>8, <1>10, <2>1, <2>2
<1> QED BY <1>9, <1>10

\* Where the numbers of the header are, and what is read there or one before.
Numbered(last) ==
    /\ last \in Nat \ {0} /\ Len(Header) = last /\ DOMAIN Header = 1..last
    /\ \A i \in 1..last : Header[i].n \in Nat /\ Header[i].n < 10000

LEMMA Starts ==
    ASSUME NEW last, Numbered(last)
    PROVE  /\ \A i \in 1..last : StartOf(i) \in Nat
           /\ \A i \in 1..last, j \in 1..last :
                i < j => StartOf(i) + Digits(Header[i].n) + 1 <= StartOf(j)
           /\ StartOf(1) = 0
           /\ \A i \in 1..(last - 1) : StartOf(i + 1) = StartOf(i) + Digits(Header[i].n) + 1
<1> DEFINE w == [j \in DOMAIN Header |-> Digits(Header[j].n) + 1]
<1>1. last \in Nat \ {0} /\ DOMAIN Header = 1..last
  BY DEF Numbered
<1>2. \A i \in 1..last : w[i] = Digits(Header[i].n) + 1 /\ w[i] \in Nat /\ Digits(Header[i].n) \in 1..10
  BY <1>1, DigitsBound
<1>3. \A i : StartOf(i) = SumTo(w, i - 1)
  BY DEF StartOf
<1> HIDE DEF w
<1>4. \A m \in 0..last : SumTo(w, m) \in Nat
  <2> TAKE m \in 0..last
  <2>1. m \in Nat /\ \A i \in 1..m : w[i] \in Nat
    BY <1>1, <1>2
  <2> QED BY <2>1, SumType
<1>5. \A m \in 0..(last - 1) : SumTo(w, m + 1) = SumTo(w, m) + w[m + 1]
  <2> TAKE m \in 0..(last - 1)
  <2>1. m \in Nat /\ \A i \in 1..(m + 1) : w[i] \in Nat
    BY <1>1, <1>2
  <2> QED BY <2>1, SumNext
<1>6. \A n \in 0..last : \A m \in 0..n : SumTo(w, m) <= SumTo(w, n)
  <2> TAKE n \in 0..last
  <2> TAKE m \in 0..n
  <2>1. n \in Nat /\ \A i \in 1..n : w[i] \in Nat
    BY <1>1, <1>2
  <2> QED BY <2>1, SumGrows
<1>7. \A i \in 1..last : StartOf(i) \in Nat
  <2> TAKE i \in 1..last
  <2>1. i - 1 \in 0..last
    BY <1>1
  <2> QED BY <1>3, <1>4, <2>1
<1>8. \A i \in 1..(last - 1) : StartOf(i + 1) = StartOf(i) + Digits(Header[i].n) + 1
  <2> TAKE i \in 1..(last - 1)
  <2>1. i - 1 \in 0..(last - 1) /\ (i - 1) + 1 = i /\ (i + 1) - 1 = i /\ i \in 1..last
    BY <1>1
  <2>2. SumTo(w, i) = SumTo(w, i - 1) + w[i]
    BY <1>5, <2>1
  <2>3. SumTo(w, i - 1) \in Nat
    BY <1>1, <1>4, <2>1
  <2> QED BY <1>2, <1>3, <2>1, <2>2, <2>3
<1>9. \A i \in 1..last, j \in 1..last :
        i < j => StartOf(i) + Digits(Header[i].n) + 1 <= StartOf(j)
  <2> SUFFICES ASSUME NEW i \in 1..last, NEW j \in 1..last, i < j
               PROVE  StartOf(i) + Digits(Header[i].n) + 1 <= StartOf(j)
    OBVIOUS
  <2>1. i \in 1..(last - 1) /\ j - 1 \in 0..last /\ i \in 0..(j - 1) /\ (i + 1) - 1 = i
    BY <1>1
  <2>2. StartOf(i + 1) <= StartOf(j)
    BY <1>3, <1>6, <2>1
  <2> QED BY <1>8, <2>1, <2>2
<1>10. StartOf(1) = 0
  <2>1. 1 - 1 = 0
    OBVIOUS
  <2> QED BY <1>3, <2>1, SumFirst
<1> QED BY <1>7, <1>8, <1>9, <1>10

LEMMA ReadsLength ==
    ASSUME NEW last, Numbered(last), NEW i \in 1..last, NEW e \in 0..1, e = 1 => i > 1
    PROVE  ReadAt(StartOf(i) - e) = IF i = last THEN -Header[last].n ELSE Header[i].n
<1> DEFINE pos == StartOf(i) - e
           here == {x \in 1..(Len(Header) - 1) :
                      StartOf(x) <= pos /\ pos < StartOf(x) + Digits(Header[x].n)}
           the == CHOOSE x \in here : TRUE
           next == {x \in 1..Len(Header) : StartOf(x) >= pos}
<1>1. /\ last \in Nat \ {0} /\ Len(Header) = last
      /\ \A x \in 1..last : Header[x].n \in Nat /\ Header[x].n < 10000
  BY DEF Numbered
<1>2. \A x \in 1..last : StartOf(x) \in Nat /\ Digits(Header[x].n) \in 1..10
  BY Starts, DigitsBound
<1>3. /\ \A x \in 1..last : x < i => StartOf(x) + Digits(Header[x].n) + 1 <= StartOf(i)
      /\ \A x \in 1..last : i < x => StartOf(i) + Digits(Header[i].n) + 1 <= StartOf(x)
  BY Starts
<1>4. ReadAt(pos) =
        IF here # {} THEN Header[the].n % Pow(10, Digits(Header[the].n) - (pos - StartOf(the)))
        ELSE IF next = {} THEN -1
        ELSE IF Min(next) = Len(Header) THEN -Header[Len(Header)].n ELSE Header[Min(next)].n
  BY DEF ReadAt
<1>5. pos \in Int /\ pos <= StartOf(i) /\ pos + 1 >= StartOf(i) /\ (e = 0 => pos = StartOf(i))
  BY <1>2
<1> HIDE DEF pos
<1>6. CASE e = 0 /\ i # last
  <2>1. \A x \in 1..last : x < i \/ x = i \/ i < x
    BY <1>1
  <2>2. here = {i}
    <3>1. i \in 1..(last - 1)
      BY <1>1, <1>6
    <3>2. StartOf(i) <= pos /\ pos < StartOf(i) + Digits(Header[i].n)
      BY <1>2, <1>5, <1>6
    <3>3. \A x \in 1..(last - 1) :
            StartOf(x) <= pos /\ pos < StartOf(x) + Digits(Header[x].n) => x = i
      <4> SUFFICES ASSUME NEW x \in 1..(last - 1), x # i, StartOf(x) <= pos,
                          pos < StartOf(x) + Digits(Header[x].n)
                   PROVE  FALSE
        OBVIOUS
      <4>1. x \in 1..last /\ (x < i \/ i < x)
        BY <1>1
      <4>2. CASE x < i
        BY <1>2, <1>3, <1>5, <1>6, <4>1, <4>2
      <4>3. CASE i < x
        BY <1>2, <1>3, <1>5, <1>6, <4>1, <4>3
      <4> QED BY <4>1, <4>2, <4>3
    <3> QED BY <1>1, <3>1, <3>2, <3>3
  <2>3. here # {} /\ the = i
    BY <2>2
  <2>4. Digits(Header[i].n) - (pos - StartOf(i)) = Digits(Header[i].n)
    BY <1>2, <1>5, <1>6
  <2>5. ReadAt(pos) = Header[i].n % Pow(10, Digits(Header[i].n))
    BY <1>4, <2>3, <2>4, Zenon
  <2>6. /\ Header[i].n \in Nat /\ Header[i].n < Pow(10, Digits(Header[i].n))
        /\ Pow(10, Digits(Header[i].n)) \in Nat \ {0}
    <3>1. Digits(Header[i].n) \in Nat
      BY <1>2
    <3>2. Header[i].n < Pow(10, Digits(Header[i].n))
      BY <1>1, DigitsEnough
    <3>3. 10 \in Nat \ {0}
      OBVIOUS
    <3>4. Pow(10, Digits(Header[i].n)) \in Nat \ {0}
      BY <3>1, <3>3, PowType
    <3> QED BY <1>1, <3>2, <3>4
  <2>7. \A n \in Nat, p \in Nat \ {0} : n < p => n % p = n
    OBVIOUS
  <2> QED BY <1>6, <2>5, <2>6, <2>7 DEF pos
<1>7. CASE ~(e = 0 /\ i # last)
  <2>1. here = {}
    <3> SUFFICES ASSUME NEW x \in 1..(last - 1), StartOf(x) <= pos,
                        pos < StartOf(x) + Digits(Header[x].n)
                 PROVE  FALSE
      BY <1>1
    <3>1. x \in 1..last /\ (x < i \/ x = i \/ i < x)
      BY <1>1
    <3>2. ~(x < i)
      BY <1>2, <1>3, <1>5, <3>1
    <3>3. e = 1
      BY <1>1, <1>7, <3>1, <3>2
    <3>4. pos < StartOf(i)
      BY <1>2, <3>3 DEF pos
    <3> QED BY <1>2, <1>3, <1>5, <3>1, <3>2, <3>4
  <2>2. next = i..last
    <3>1. \A x \in 1..last : x < i \/ x >= i
      BY <1>1
    <3>2. \A x \in 1..last : x < i => ~(StartOf(x) >= pos)
      BY <1>2, <1>3, <1>5
    <3>3. \A x \in 1..last : x >= i => StartOf(x) >= pos
      <4> SUFFICES ASSUME NEW x \in 1..last, x >= i PROVE StartOf(x) >= pos
        OBVIOUS
      <4>1. CASE x = i
        BY <1>2, <1>5, <4>1
      <4>2. CASE x # i
        <5>1. i < x
          BY <1>1, <4>2
        <5> QED BY <1>2, <1>3, <1>5, <5>1
      <4> QED BY <4>1, <4>2
    <3> QED BY <1>1, <3>1, <3>2, <3>3
  <2>3. next # {} /\ Min(next) = i
    BY <1>1, <2>2 DEF Min
  <2> HIDE DEF next, here, the
  <2> QED BY <1>1, <1>4, <2>1, <2>3 DEF pos
<1> QED BY <1>6, <1>7

\* The texts and values as they come.
LEMMA PageItems ==
    ASSUME tmpl \in Templates
    PROVE  /\ \E T : Page \in Seq(T)
           /\ Len(Page) = 2 * Variables + 1
           /\ \A m \in 0..(Variables - 1) :
                /\ Page[2 * m + 1] = [kind |-> "text", from |-> Before(m + 1), to |-> Before(m + 2)]
                /\ Page[2 * m + 2] = ValueOut(m + 1)
           /\ Page[2 * Variables + 1]
                = [kind |-> "text", from |-> Before(Variables + 1), to |-> Total(tmpl)]
<1> DEFINE V == Variables
           Out(i) == IF i = 2 * V + 1
                     THEN [kind |-> "text", from |-> Before(V + 1), to |-> Total(tmpl)]
                     ELSE IF i % 2 = 0 THEN ValueOut(i \div 2)
                     ELSE [kind |-> "text", from |-> Before((i + 1) \div 2), to |-> Before((i + 3) \div 2)]
<1>1. Page = [i \in 1..(2 * V + 1) |-> Out(i)]
  BY DEF Page
<1>2. V \in Nat
  BY TemplateTypes
<1> HIDE DEF V
<1>3. Out(2 * V + 1) = [kind |-> "text", from |-> Before(V + 1), to |-> Total(tmpl)]
  OBVIOUS
<1>4. ASSUME NEW m \in 0..(V - 1)
      PROVE  /\ Out(2 * m + 1) = [kind |-> "text", from |-> Before(m + 1), to |-> Before(m + 2)]
             /\ Out(2 * m + 2) = ValueOut(m + 1)
  <2>1. /\ 2 * m + 1 # 2 * V + 1 /\ (2 * m + 1) % 2 = 1
        /\ ((2 * m + 1) + 1) \div 2 = m + 1 /\ ((2 * m + 1) + 3) \div 2 = m + 2
        /\ 2 * m + 2 # 2 * V + 1 /\ (2 * m + 2) % 2 = 0 /\ (2 * m + 2) \div 2 = m + 1
    BY <1>2
  <2> QED BY <2>1
<1> HIDE DEF Out
<1>5. \A m \in 0..(V - 1) : 2 * m + 1 \in 1..(2 * V + 1) /\ 2 * m + 2 \in 1..(2 * V + 1)
  BY <1>2
<1>6. 2 * V + 1 \in 1..(2 * V + 1) /\ 2 * V + 1 \in Nat
  BY <1>2
<1>7. Page \in Seq({Out(i) : i \in 1..(2 * V + 1)}) /\ Len(Page) = 2 * V + 1
  BY <1>1, <1>6
<1>8. \A i \in 1..(2 * V + 1) : Page[i] = Out(i)
  BY <1>1
<1> QED BY <1>3, <1>4, <1>5, <1>6, <1>7, <1>8 DEF V

\* The lengths as the client finds them.
LEMMA LengthsRead ==
    ASSUME StdioSize < 10000, Splitting, Fits, stage \notin {"split", "close"}
    PROVE  /\ Numbered(Variables + 1) /\ Variables \in Nat
           /\ \A i \in 1..Variables : /\ Header[i].n = tmpl.pre[i]
                                      /\ tmpl.pre[i] \in Nat /\ tmpl.pre[i] < 10000
           /\ Header[Variables + 1].n = tmpl.rest /\ tmpl.rest \in Nat
<1> DEFINE V == Variables
<1>1. tmpl \in Templates /\ file = Written
  BY DEF Splitting, Written
<1>2. /\ V \in Nat /\ tmpl.rest \in Nat /\ SumTo(tmpl.pre, V) \in Nat
      /\ \A i \in 1..V : tmpl.pre[i] \in Nat
  BY <1>1, TemplateTypes
<1>3. SumTo(tmpl.pre, V) + tmpl.rest < 10000
  <2>1. SumTo(tmpl.pre, V) + tmpl.rest <= StdioSize /\ StdioSize \in Nat
    BY DataMergeAssumption DEF Fits, Total, Variables
  <2> QED BY <1>2, <2>1
<1>4. /\ Len(Header) = V + 1 /\ \A i \in 1..V : Header[i].n = tmpl.pre[i]
      /\ Header[V + 1].n = tmpl.rest /\ DOMAIN Header = 1..(V + 1)
  BY <1>1, HeaderShape
<1> HIDE DEF V
<1>5. \A i \in 1..V : tmpl.pre[i] < 10000
  <2> TAKE i \in 1..V
  <2>1. /\ i - 1 \in Nat /\ (i - 1) + 1 = i /\ i \in 0..V
        /\ \A j \in 1..((i - 1) + 1) : tmpl.pre[j] \in Nat
        /\ \A j \in 1..(i - 1) : tmpl.pre[j] \in Nat
    BY <1>2
  <2>2. SumTo(tmpl.pre, i) = SumTo(tmpl.pre, i - 1) + tmpl.pre[i]
    BY <2>1, SumNext
  <2>3. SumTo(tmpl.pre, i - 1) \in Nat
    BY <2>1, SumType
  <2>4. SumTo(tmpl.pre, i) <= SumTo(tmpl.pre, V)
    BY <1>2, <2>1, SumGrows
  <2> QED BY <1>2, <1>3, <2>2, <2>3, <2>4
<1>6. tmpl.rest < 10000
  BY <1>2, <1>3
<1>7. \A i \in 1..(V + 1) : i \in 1..V \/ i = V + 1
  BY <1>2
<1>8. Numbered(V + 1)
  BY <1>2, <1>4, <1>5, <1>6, <1>7 DEF Numbered
<1> QED BY <1>2, <1>4, <1>5, <1>8 DEF V

\* A text that fits in the buffer has at most four digits: it holds 4096 bytes.
SmallBuffer == StdioSize < 10000

\* After m variables the client is at the next text; among the lengths it is one
\* character behind if it has met the one of four digits.
Behind(m) == IF \E j \in 1..m : tmpl.pre[j] >= 1000 THEN 1 ELSE 0
Reached(m, a, b, o) ==
    /\ m \in 0..Variables
    /\ a = StartOf(m + 1) - Behind(m) /\ b = Before(m + 1)
    /\ \E S : o \in Seq(S)
    /\ Len(o) = 2 * m /\ \A x \in 1..(2 * m) : o[x] = Page[x]

Merging ==
    /\ stage \in {"split", "close", "connect", "connecting", "read"} =>
        auxv = 0 /\ text = 0 /\ out = <<>>
    /\ stage \in {"connect", "connecting", "read"} => k = 0
    /\ Fits /\ Followed /\ received >= Variables =>
        /\ stage = "merge" => Reached(k, auxv, text, out)
        /\ stage = "done" => out = Page

LEMMA ReachedLength ==
    ASSUME StdioSize < 10000, Splitting, Fits, stage \notin {"split", "close"},
           NEW m \in 0..Variables, NEW a, a = StartOf(m + 1) - Behind(m)
    PROVE  ReadAt(a) = IF m = Variables THEN -tmpl.rest ELSE tmpl.pre[m + 1]
<1>1. /\ Numbered(Variables + 1) /\ Variables \in Nat
      /\ \A i \in 1..Variables : Header[i].n = tmpl.pre[i]
      /\ Header[Variables + 1].n = tmpl.rest
  BY LengthsRead
<1>2. /\ m + 1 \in 1..(Variables + 1) /\ m + 1 = Variables + 1 <=> m = Variables
      /\ m # Variables => m + 1 \in 1..Variables
  BY <1>1
<1>3. Behind(m) \in 0..1 /\ (Behind(m) = 1 => m + 1 > 1)
  <2>1. m = 0 => ~\E j \in 1..m : tmpl.pre[j] >= 1000
    OBVIOUS
  <2> QED BY <1>1, <2>1 DEF Behind
<1>4. ReadAt(a) = IF m + 1 = Variables + 1 THEN -Header[Variables + 1].n ELSE Header[m + 1].n
  BY <1>1, <1>2, <1>3, ReadsLength
<1> QED BY <1>1, <1>2, <1>4

\* At most one length has four digits.
LEMMA OneLong ==
    ASSUME Variables \in Nat, Followed, NEW i \in 1..Variables, NEW j \in 1..Variables,
           tmpl.pre[i] >= 1000, tmpl.pre[j] >= 1000
    PROVE  i = j
<1> DEFINE L == {x \in 1..Variables : tmpl.pre[x] >= 1000}
<1> SUFFICES ASSUME i # j PROVE FALSE
  OBVIOUS
<1>1. IsFiniteSet(1..Variables)
  BY FS_Interval
<1>2. IsFiniteSet(L) /\ L \subseteq 1..Variables
  BY <1>1, FS_Subset
<1>3. i \in L /\ j \in L /\ Cardinality(L) <= 1
  BY DEF Followed
<1> HIDE DEF L
<1>4. /\ IsFiniteSet({}) /\ Cardinality({}) = 0
  BY FS_EmptySet
<1>5. IsFiniteSet({i}) /\ Cardinality({i}) = 1
  BY FS_Singleton, ZenonT(60)
<1>6. IsFiniteSet({i} \cup {j}) /\ Cardinality({i} \cup {j}) = 2
  <2> DEFINE S == {i}
  <2>1. j \notin S
    OBVIOUS
  <2>2. IsFiniteSet(S) /\ Cardinality(S) = 1
    BY <1>5
  <2> HIDE DEF S
  <2>3. /\ IsFiniteSet(S \cup {j})
        /\ Cardinality(S \cup {j}) = IF j \in S THEN Cardinality(S) ELSE Cardinality(S) + 1
    BY <2>2, FS_AddElement, Zenon
  <2>4. IsFiniteSet(S \cup {j}) /\ Cardinality(S \cup {j}) = 2
    BY <2>1, <2>2, <2>3
  <2> QED BY <2>4 DEF S
<1>7. {i} \cup {j} \subseteq L
  BY <1>3
<1>8. Cardinality({i} \cup {j}) <= Cardinality(L) /\ Cardinality(L) \in Nat
  BY <1>2, <1>7, FS_Subset, FS_CardinalityType
<1> QED BY <1>3, <1>6, <1>8

\* One turn: the length of the text is read where it is, and the client is as far
\* behind after it as it was, or one character more.
LEMMA ReachedNext ==
    ASSUME StdioSize < 10000, Splitting, Fits, Followed, stage \notin {"split", "close"},
           NEW m \in 0..(Variables - 1), NEW a, NEW b, NEW o, Reached(m, a, b, o),
           NEW n, n = ReadAt(a)
    PROVE  /\ n \in Nat /\ n = tmpl.pre[m + 1]
           /\ Reached(m + 1, a + Numbersize(n) + 1, b + n,
                      o \o <<[kind |-> "text", from |-> b, to |-> b + n]>> \o <<ValueOut(m + 1)>>)
<1> DEFINE V == Variables
           t == [kind |-> "text", from |-> b, to |-> b + n]
           v == ValueOut(m + 1)
<1>1. /\ Numbered(V + 1) /\ V \in Nat
      /\ \A i \in 1..V : /\ Header[i].n = tmpl.pre[i]
                          /\ tmpl.pre[i] \in Nat /\ tmpl.pre[i] < 10000
  BY LengthsRead
<1>2. m + 1 \in 1..V /\ m \in 0..V /\ m # V /\ m \in Nat /\ m + 1 \in 0..V
  BY <1>1
<1>3. a = StartOf(m + 1) - Behind(m) /\ b = Before(m + 1)
  BY DEF Reached
<1>4. n = tmpl.pre[m + 1] /\ n \in Nat /\ n < 10000
  BY <1>1, <1>2, <1>3, ReachedLength
<1>5. b + n = Before(m + 2)
  <2>1. (m + 1) - 1 = m /\ (m + 2) - 1 = m + 1 /\ \A i \in 1..(m + 1) : tmpl.pre[i] \in Nat
    BY <1>1, <1>2
  <2>2. SumTo(tmpl.pre, m + 1) = SumTo(tmpl.pre, m) + tmpl.pre[m + 1]
    BY <1>2, <2>1, SumNext
  <2> QED BY <1>3, <1>4, <2>1, <2>2 DEF Before
<1>6. a + Numbersize(n) + 1 = StartOf(m + 2) - Behind(m + 1)
  <2>1. m + 1 \in 1..((V + 1) - 1) /\ (m + 1) + 1 = m + 2 /\ m + 1 \in 1..(V + 1)
    BY <1>1, <1>2
  <2>2. StartOf(m + 2) = StartOf(m + 1) + Digits(n) + 1 /\ StartOf(m + 1) \in Nat
    BY <1>1, <1>2, <1>4, <2>1, Starts
  <2>3. \A j \in 1..(m + 1) : j \in 1..m \/ j = m + 1
    BY <1>2
  <2>4. \A j \in 1..m : j \in 1..(m + 1) /\ j \in 1..V /\ j # m + 1
    BY <1>1, <1>2
  <2>5. CASE n < 1000
    <3>1. Numbersize(n) = Digits(n) /\ Digits(n) \in 1..10
      BY <1>4, <2>5, DigitsOf, NumbersizeOf, DigitsBound
    <3>2. (\E j \in 1..(m + 1) : tmpl.pre[j] >= 1000) <=> (\E j \in 1..m : tmpl.pre[j] >= 1000)
      BY <1>4, <2>3, <2>4, <2>5
    <3>3. Behind(m + 1) = Behind(m) /\ Behind(m) \in 0..1
      BY <3>2 DEF Behind
    <3> QED BY <1>3, <2>2, <3>1, <3>3
  <2>6. CASE n >= 1000
    <3>1. Numbersize(n) = 3 /\ Digits(n) = 4
      BY <1>4, <2>6, DigitsOf, NumbersizeOf
    <3>2. m + 1 \in 1..(m + 1)
      BY <1>2
    <3>3. Behind(m + 1) = 1
      BY <1>4, <2>6, <3>2 DEF Behind
    <3>4. ~\E j \in 1..m : tmpl.pre[j] >= 1000
      BY <1>1, <1>2, <1>4, <2>4, <2>6, OneLong
    <3>5. Behind(m) = 0
      BY <3>4 DEF Behind
    <3> QED BY <1>3, <2>2, <3>1, <3>3, <3>5
  <2> QED BY <1>4, <2>5, <2>6
<1>7. PICK S : o \in Seq(S)
  BY DEF Reached
<1>8. Len(o) = 2 * m /\ \A x \in 1..(2 * m) : o[x] = Page[x]
  BY DEF Reached
<1>9. Page[2 * m + 1] = t /\ Page[2 * m + 2] = v
  BY <1>2, <1>3, <1>5, PageItems DEF Splitting
<1> HIDE DEF t, v
<1> DEFINE p == o \o <<t>> \o <<v>>
           T == S \cup {t, v}
<1>10. /\ p \in Seq(T) /\ Len(p) = 2 * m + 2
       /\ \A x \in 1..(2 * m) : p[x] = o[x]
       /\ p[2 * m + 1] = t /\ p[2 * m + 2] = v
  <2>1. o \in Seq(T) /\ t \in T /\ v \in T
    BY <1>7
  <2> HIDE DEF T
  <2> DEFINE q == o \o <<t>>
  <2>2. q \in Seq(T) /\ Len(q) = 2 * m + 1 /\ q[2 * m + 1] = t /\ \A x \in 1..(2 * m) : q[x] = o[x]
    BY <1>8, <2>1, AppendTo
  <2> HIDE DEF q
  <2>3. p = q \o <<v>>
    BY DEF q
  <2> HIDE DEF p
  <2>4. /\ p \in Seq(T) /\ Len(p) = 2 * m + 2 /\ p[2 * m + 2] = v
        /\ \A x \in 1..(2 * m + 1) : p[x] = q[x]
    <3>1. /\ Append(q, v) \in Seq(T) /\ Len(Append(q, v)) = Len(q) + 1
          /\ \A x \in 1..Len(q) : Append(q, v)[x] = q[x]
          /\ Append(q, v)[Len(q) + 1] = v /\ q \o <<v>> = Append(q, v)
      BY <2>1, <2>2, AppendTo
    <3>2. Len(q) + 1 = 2 * m + 2
      BY <1>2, <2>2
    <3> QED BY <2>2, <2>3, <3>1, <3>2
  <2>5. \A x \in 1..(2 * m) : x \in 1..(2 * m + 1)
    BY <1>2
  <2>6. 2 * m + 1 \in 1..(2 * m + 1)
    BY <1>2
  <2> QED BY <2>2, <2>4, <2>5, <2>6
<1> HIDE DEF p
<1>11. \A x \in 1..(2 * (m + 1)) : p[x] = Page[x]
  <2>1. \A x \in 1..(2 * (m + 1)) : x \in 1..(2 * m) \/ x = 2 * m + 1 \/ x = 2 * m + 2
    BY <1>2
  <2> QED BY <1>8, <1>9, <1>10, <2>1
<1>12. Reached(m + 1, a + Numbersize(n) + 1, b + n, p)
  <2>1. (m + 1) + 1 = m + 2 /\ 2 * (m + 1) = 2 * m + 2
    BY <1>2
  <2>2. \E U : p \in Seq(U)
    BY <1>10
  <2> QED BY <1>2, <1>5, <1>6, <1>10, <1>11, <2>1, <2>2 DEF Reached
<1> QED BY <1>4, <1>12 DEF p, t, v

LEMMA ReachedKept ==
    ASSUME file' = file, tmpl' = tmpl
    PROVE  /\ Reached(k, auxv, text, out)' <=> Reached(k', auxv', text', out')
           /\ Page' = Page
<1>1. Header' = Header /\ Variables' = Variables
  BY DEF Header, Variables
<1>2. StartOf(k + 1)' = StartOf(k' + 1)
  BY <1>1, Zenon DEF StartOf
<1>3. Behind(k)' = Behind(k') /\ Before(k + 1)' = Before(k' + 1)
  <2>1. (Behind(k)' = Behind(k')) /\ (Before(k + 1)' = SumTo(tmpl'.pre, (k' + 1) - 1))
    BY DEF Behind, Before
  <2>2. Before(k' + 1) = SumTo(tmpl.pre, (k' + 1) - 1)
    BY Zenon DEF Before
  <2> QED BY <2>1, <2>2
<1>4. Page' = Page
  BY <1>1, Zenon DEF Page, Before, Total, ValueOut
<1> QED BY <1>1, <1>2, <1>3, <1>4 DEF Reached

LEMMA MergingVariable ==
    SmallBuffer /\ Splitting /\ Sending /\ Merging /\ MergeVariable => Merging'
<1> SUFFICES ASSUME SmallBuffer, Splitting, Sending, Merging, MergeVariable
             PROVE  Merging'
  OBVIOUS
<1> DEFINE n == ReadAt(auxv)
<1>1. /\ stage = "merge" /\ stage' = stage /\ file' = file /\ tmpl' = tmpl
      /\ received' = received /\ k < Len(Header) - 1 /\ k' = k + 1
      /\ auxv' = auxv + Numbersize(n) + 1 /\ text' = text + n
      /\ \E v \in Converted(k + 1) : out' = out \o <<TextOut(n)>> \o v
  <2>1. /\ stage = "merge" /\ stage' = stage /\ file' = file /\ tmpl' = tmpl
        /\ received' = received /\ k < Len(Header) - 1 /\ k' = k + 1
    BY DEF MergeVariable
  <2>2. auxv' = auxv + Numbersize(n) + 1 /\ text' = text + n
    BY Zenon DEF MergeVariable
  <2>3. \E v \in Converted(k + 1) : out' = out \o <<TextOut(n)>> \o v
    BY Zenon DEF MergeVariable
  <2> QED BY <2>1, <2>2, <2>3, Zenon
<1>2. Fits' = Fits /\ Followed' = Followed /\ Variables' = Variables
  BY <1>1 DEF Fits, Followed, Variables, Total
<1>3. CASE ~(Fits /\ Followed /\ received >= Variables)
  BY <1>1, <1>2, <1>3 DEF Merging
<1>4. CASE Fits /\ Followed /\ received >= Variables
  <2>1. Reached(k, auxv, text, out)
    BY <1>1, <1>4 DEF Merging
  <2>2. Variables \in Nat /\ Len(Header) = Variables + 1
    BY <1>1, <1>4, LengthsRead DEF SmallBuffer, Numbered
  <2>3. k \in 0..(Variables - 1) /\ received \in Int
    BY <1>1, <2>1, <2>2, DataMergeAssumption DEF Reached, Sending
  <2>4. Converted(k + 1) = {<<ValueOut(k + 1)>>}
    BY <1>4, <2>2, <2>3 DEF Converted
  <2> HIDE DEF n
  <2>5. out' = out \o <<TextOut(n)>> \o <<ValueOut(k + 1)>>
    <3>1. PICK v \in Converted(k + 1) : out' = out \o <<TextOut(n)>> \o v
      BY <1>1, Zenon
    <3>2. v = <<ValueOut(k + 1)>>
      BY <2>4, <3>1, Zenon
    <3> QED BY <3>1, <3>2, Zenon
  <2>6. Reached(k + 1, auxv + Numbersize(n) + 1, text + n,
                out \o <<[kind |-> "text", from |-> text, to |-> text + n]>> \o <<ValueOut(k + 1)>>)
    BY <1>1, <1>4, <2>1, <2>3, ReachedNext DEF SmallBuffer, n
  <2>7. Reached(k', auxv', text', out')
    <3>1. TextOut(n) = [kind |-> "text", from |-> text, to |-> text + n]
      BY Zenon DEF TextOut
    <3> QED BY <1>1, <2>5, <2>6, <3>1, Zenon
  <2>8. Reached(k, auxv, text, out)'
    BY <1>1, <2>7, ReachedKept
  <2> QED BY <1>1, <2>8 DEF Merging
<1> QED BY <1>3, <1>4

\* The last text, and the page is whole.
LEMMA MergingRest ==
    SmallBuffer /\ Splitting /\ Merging /\ MergeRest => Merging'
<1> SUFFICES ASSUME SmallBuffer, Splitting, Merging, MergeRest PROVE Merging'
  OBVIOUS
<1> DEFINE n == ReadAt(auxv)
           e == TextOut(IF n < 0 THEN -n ELSE n)
           V == Variables
<1>1. /\ stage = "merge" /\ stage' = "done" /\ file' = file /\ tmpl' = tmpl
      /\ received' = received /\ k = Len(Header) - 1 /\ k' = k
      /\ out' = Append(out, e)
  <2>1. /\ stage = "merge" /\ stage' = "done" /\ file' = file /\ tmpl' = tmpl
        /\ received' = received /\ k = Len(Header) - 1 /\ k' = k
    BY DEF MergeRest
  <2>2. out' = Append(out, e)
    BY Zenon DEF MergeRest
  <2> QED BY <2>1, <2>2, Zenon
<1>2. Fits' = Fits /\ Followed' = Followed /\ Variables' = Variables
  BY <1>1 DEF Fits, Followed, Variables, Total
<1>3. CASE ~(Fits /\ Followed /\ received >= Variables)
  BY <1>1, <1>2, <1>3 DEF Merging
<1>4. CASE Fits /\ Followed /\ received >= Variables
  <2>1. Reached(k, auxv, text, out)
    BY <1>1, <1>4 DEF Merging
  <2>2. V \in Nat /\ Len(Header) = V + 1 /\ tmpl.rest \in Nat
    BY <1>1, <1>4, LengthsRead DEF SmallBuffer, Numbered
  <2>3. k = V
    BY <1>1, <2>2
  <2>4. n = -tmpl.rest
    <3>1. k \in 0..V /\ auxv = StartOf(k + 1) - Behind(k)
      BY <2>1 DEF Reached
    <3> QED BY <1>1, <1>4, <2>3, <3>1, ReachedLength DEF SmallBuffer, V
  <2> HIDE DEF n
  <2>5. e = [kind |-> "text", from |-> text, to |-> text + tmpl.rest]
    BY <2>2, <2>4 DEF TextOut
  <2> HIDE DEF e
  <2>6. text = SumTo(tmpl.pre, V) /\ Before(V + 1) = SumTo(tmpl.pre, V)
    <3>1. (V + 1) - 1 = V
      BY <2>2
    <3> QED BY <2>1, <2>3, <3>1 DEF Reached, Before
  <2>7. text + tmpl.rest = Total(tmpl)
    BY <2>6 DEF Total, Variables
  <2>8. /\ \E T : Page \in Seq(T)
        /\ Len(Page) = 2 * V + 1 /\ Page[2 * V + 1] = e
    BY <2>5, <2>6, <2>7, PageItems DEF Splitting
  <2>9. PICK T : Page \in Seq(T)
    BY <2>8
  <2>10. PICK S : out \in Seq(S)
    BY <2>1 DEF Reached
  <2>11. Len(out) = 2 * V /\ \A x \in 1..(2 * V) : out[x] = Page[x]
    BY <2>1, <2>3 DEF Reached
  <2> DEFINE U == S \cup T \cup {e}
  <2>12. out \in Seq(U) /\ Page \in Seq(U) /\ e \in U
    BY <2>9, <2>10
  <2> HIDE DEF U, V
  <2>13. /\ out' \in Seq(U) /\ Len(out') = 2 * V + 1
         /\ \A x \in 1..(2 * V) : out'[x] = Page[x]
         /\ out'[2 * V + 1] = e
    BY <1>1, <2>11, <2>12, AppendTo
  <2>14. \A x \in 1..(2 * V + 1) : x \in 1..(2 * V) \/ x = 2 * V + 1
    BY <2>2
  <2>15. \A x \in 1..Len(out') : out'[x] = Page[x]
    BY <2>8, <2>13, <2>14
  <2>16. out' = Page
    BY <2>8, <2>12, <2>13, <2>15, SameSequence
  <2>17. Page' = Page
    BY <1>1, ReachedKept
  <2> QED BY <1>1, <2>16, <2>17 DEF Merging
<1> QED BY <1>3, <1>4

LEMMA MergingRead == Splitting /\ Merging /\ ReadMessage => Merging'
<1> SUFFICES ASSUME Splitting, Merging, ReadMessage PROVE Merging'
  OBVIOUS
<1>1. /\ stage = "read" /\ stage' \in {"merge", "lost"} /\ k' = k /\ file' = file /\ tmpl' = tmpl
      /\ auxv' = auxv /\ text' = text /\ out' = out
  BY DEF ReadMessage
<1>2. k = 0 /\ auxv = 0 /\ text = 0 /\ out = <<>>
  BY <1>1 DEF Merging
<1>3. Reached(0, 0, 0, <<>>)
  <2>1. Variables \in Nat
    BY TemplateTypes DEF Splitting
  <2>2. 0 + 1 = 1 /\ 1 - 1 = 0
    OBVIOUS
  <2>3. StartOf(0 + 1) = 0 /\ Before(0 + 1) = 0
    BY <2>2, SumFirst, Zenon DEF StartOf, Before
  <2>4. Behind(0) = 0
    BY DEF Behind
  <2>5. <<>> \in Seq({}) /\ Len(<<>>) = 0
    OBVIOUS
  <2> QED BY <2>1, <2>3, <2>4, <2>5 DEF Reached
<1>4. Reached(k, auxv, text, out)'
  BY <1>1, <1>2, <1>3, ReachedKept
<1> QED BY <1>1, <1>4 DEF Merging

\* Until then it has not begun, and what ends it otherwise does not count.
LEMMA MergingOther ==
    /\ Splitting /\ Merging
    /\ SplitVariable \/ SplitRest \/ CloseFile \/ OpenSocket \/ Refused \/ Connected
       \/ Dies \/ Unasked
    => Merging'
<1> SUFFICES ASSUME Splitting, Merging,
                    SplitVariable \/ SplitRest \/ CloseFile \/ OpenSocket \/ Refused
                    \/ Connected \/ Dies \/ Unasked
             PROVE  Merging'
  OBVIOUS
<1>1. /\ stage \in {"split", "close", "connect", "connecting", "read"}
      /\ stage' \in {"split", "close", "connect", "connecting", "read", "lost", "closed"}
      /\ auxv' = auxv /\ text' = text /\ out' = out
      /\ stage' \in {"connect", "connecting", "read"} =>
            k' = 0 \/ (stage \in {"connect", "connecting", "read"} /\ k' = k)
  <2>1. CASE SplitVariable \/ SplitRest
    BY <2>1, Zenon DEF SplitVariable, SplitRest
  <2>2. CASE CloseFile
    BY <2>2 DEF CloseFile
  <2>3. CASE OpenSocket \/ Refused \/ Connected \/ Dies \/ Unasked
    BY <2>3 DEF OpenSocket, Refused, Connected, Dies, Unasked, Waiting
  <2> QED BY <2>1, <2>2, <2>3
<1> QED BY <1>1 DEF Merging

LEMMA MergingDies ==
    SmallBuffer /\ Splitting /\ Sending /\ Merging /\ MergeDies => Merging'
<1>1. MergeDies => stage' = "lost"
  BY DEF MergeDies
<1> QED BY <1>1 DEF Merging

LEMMA MergingKept ==
    Merging /\ UNCHANGED vars => Merging'
<1> SUFFICES ASSUME Merging, UNCHANGED vars PROVE Merging'
  OBVIOUS
<1>1. /\ stage' = stage /\ k' = k /\ file' = file /\ tmpl' = tmpl /\ received' = received
      /\ auxv' = auxv /\ text' = text /\ out' = out
  BY DEF vars
<1>2. Fits' = Fits /\ Followed' = Followed /\ Variables' = Variables
  BY <1>1 DEF Fits, Followed, Variables, Total
<1>3. Reached(k, auxv, text, out)' <=> Reached(k, auxv, text, out)
  BY <1>1, ReachedKept
<1>4. Page' = Page
  BY <1>1, ReachedKept
<1> QED BY <1>1, <1>2, <1>3, <1>4 DEF Merging

LEMMA MergingNext ==
    SmallBuffer /\ Splitting /\ Sending /\ Merging /\ [PageNext]_pageVars => Merging'
<1> SUFFICES ASSUME SmallBuffer, Splitting, Sending, Merging, [PageNext]_pageVars
             PROVE  Merging'
  OBVIOUS
<1>1. CASE MergeStep
  BY <1>1, MergingOther, MergingRead, MergingVariable, MergingDies, MergingRest
     DEF MergeStep, Next
<1>2. CASE SplitPlaces \/ ConvertStep \/ ConvertReturns \/ UNCHANGED pageVars
  <2>1. UNCHANGED vars
    BY <1>2, Zenon DEF SplitPlaces, ConvertStep, ConvertReturns, pageVars
  <2> QED BY <2>1, MergingKept
<1> QED BY <1>1, <1>2 DEF PageNext

\* What the client writes of a template that fits in the buffer and has one length
\* of four digits at most is the template with the values in the places of the
\* variables: it finds its way among the lengths although it takes a number of four
\* digits for one of three (client.cc:48-65, client.cc:147-201).
THEOREM PagesRight == SmallBuffer => (PageSpec => []PageMerged)
<1> SUFFICES ASSUME SmallBuffer PROVE PageSpec => []PageMerged
  OBVIOUS
<1>1. PageInit => Splitting /\ Sending /\ Numbering /\ Merging
  <2>1. Init => Merging
    BY DEF Init, Merging
  <2> QED BY <2>1, SplittingInit, SendingInit DEF PageInit
<1>2. Splitting /\ Sending /\ Numbering /\ Merging /\ [PageNext]_pageVars
      => (Splitting /\ Sending /\ Numbering /\ Merging)'
  BY SplittingNext, SendingNext, NumberNext, MergingNext
<1>3. Merging => PageMerged
  BY DEF Merging, PageMerged
<1> QED BY <1>1, <1>2, <1>3, PTL DEF PageSpec

-----------------------------------------------------------------------------
(* The doubles *)

LEMMA Decimals ==
    /\ IntBits \in Nat /\ Prec \in Nat \ {0} /\ Places \in Nat /\ Prec <= Places
    /\ DigPrec \in Nat /\ DigMax \in Nat \ {0} /\ DigPrec <= DigMax
  BY ClientPageAssumption, Zenon

LEMMA LengthIs ==
    ASSUME NEW n \in Nat \ {0}, NEW a \in Nat \ {0}, Pow(10, a - 1) <= n, n < Pow(10, a)
    PROVE  Cvt!Length(n) = a
<1> DEFINE b == CHOOSE d \in 1..n : Pow(10, d - 1) <= n /\ n < Pow(10, d)
<1>1. Cvt!Length(n) = b
  BY ConvertNames, Zenon DEF Cvt!Length
<1>2. b \in 1..n /\ Pow(10, b - 1) <= n /\ n < Pow(10, b)
  BY LengthSome, Zenon
<1> HIDE DEF b
<1>3. b \in Nat \ {0} /\ n \in Nat
  BY <1>2
<1>4. a = b
  BY <1>2, <1>3, LengthOnly
<1> QED BY <1>1, <1>4

LEMMA LengthBounds ==
    ASSUME NEW n \in Nat \ {0}
    PROVE  /\ Cvt!Length(n) \in Nat \ {0}
           /\ Pow(10, Cvt!Length(n) - 1) <= n /\ n < Pow(10, Cvt!Length(n))
<1>1. PICK a \in 1..n : Pow(10, a - 1) <= n /\ n < Pow(10, a)
  BY LengthSome
<1>2. a \in Nat \ {0}
  BY <1>1
<1> QED BY <1>1, <1>2, LengthIs

\* The number without its decimals has so many digits fewer.
LEMMA LengthCut ==
    ASSUME NEW v \in Nat, NEW p \in Nat, Pow(10, p) <= v
    PROVE  /\ v \div Pow(10, p) \in Nat \ {0}
           /\ Cvt!Length(v) = Cvt!Length(v \div Pow(10, p)) + p
<1> DEFINE U == Pow(10, p)
           d == v \div U
           a == Cvt!Length(d)
<1>1. U \in Nat \ {0}
  BY TenPower
<1>2. d \in Nat /\ U * d <= v /\ v < U * d + U
  BY <1>1, DivBounds
<1>3. d # 0
  <2> HIDE DEF d
  <2> QED BY <1>1, <1>2
<1> HIDE DEF d
<1>4. a \in Nat \ {0} /\ Pow(10, a - 1) <= d /\ d < Pow(10, a)
  BY <1>2, <1>3, LengthBounds
<1> HIDE DEF a
<1>5. a - 1 \in Nat /\ a \in Nat /\ (a + p) - 1 = p + (a - 1) /\ a + p = p + a
      /\ a + p \in Nat \ {0}
  BY <1>4
<1>6. 10 \in Nat \ {0}
  OBVIOUS
<1>7. Pow(10, p + (a - 1)) = U * Pow(10, a - 1) /\ Pow(10, p + a) = U * Pow(10, a)
  BY <1>5, <1>6, PowSum
<1>8. Pow(10, a - 1) \in Nat /\ Pow(10, a) \in Nat
  BY <1>5, TenPower
<1>9. ASSUME NEW x \in Nat, NEW y \in Nat, NEW w \in Nat, x <= y PROVE w * x <= w * y
  <2>1. w * (y - x) \in Nat /\ w * (y - x) = w * y - w * x
    BY <1>9
  <2> QED BY <2>1
<1>10. U * Pow(10, a - 1) <= U * d
  BY <1>1, <1>2, <1>4, <1>8, <1>9
<1>11. U * (d + 1) <= U * Pow(10, a)
  BY <1>1, <1>2, <1>4, <1>8, <1>9
<1>12. U * d \in Nat /\ U * (d + 1) = U * d + U /\ U * Pow(10, a - 1) \in Nat /\ U * Pow(10, a) \in Nat
  BY <1>1, <1>2, <1>8
<1>13. Pow(10, (a + p) - 1) <= v /\ v < Pow(10, a + p) /\ v # 0
  BY <1>2, <1>3, <1>5, <1>7, <1>10, <1>11, <1>12, <1>1
<1>14. Cvt!Length(v) = a + p
  BY <1>5, <1>13, LengthIs
<1> QED BY <1>2, <1>3, <1>14 DEF a, d

\* The first n digits of a number, if it has as many that are significant.
LEMMA FirstDigitsIs ==
    ASSUME NEW v \in Nat \ {0}, NEW n \in Nat, n <= Cvt!Length(v), n <= DigPrec
    PROVE  /\ Cvt!FirstDigits(v, n) = LastDigits(v \div Pow(10, Cvt!Length(v) - n), n)
           /\ v \div Pow(10, Cvt!Length(v) - n) \in Nat
           /\ v \div Pow(10, Cvt!Length(v) - n) < Pow(10, n)
<1> DEFINE L == Cvt!Length(v)
           m == L - n
           w == v \div Pow(10, m)
<1>1. L \in Nat \ {0} /\ v < Pow(10, L)
  BY LengthBounds
<1> HIDE DEF L
<1>2. m \in Nat /\ m + n = L
  BY <1>1 DEF L
<1> HIDE DEF m
<1>3. Pow(10, m) \in Nat \ {0} /\ w \in Nat
  BY <1>2, TenPower, DivBounds
<1>4. w < Pow(10, n)
  BY <1>1, <1>2, DivBelow
<1>5. ASSUME NEW d \in 1..n
      PROVE  (IF d > L \/ d > DigPrec THEN 0 ELSE (v \div Pow(10, L - d)) % 10)
               = (w \div Pow(10, n - d)) % 10
  <2>1. n - d \in Nat /\ L - d = m + (n - d) /\ ~(d > L) /\ ~(d > DigPrec)
    BY <1>1, <1>2, Decimals
  <2>2. 10 \in Nat \ {0} /\ Pow(10, n - d) \in Nat \ {0}
    BY <2>1, TenPower
  <2>3. Pow(10, L - d) = Pow(10, m) * Pow(10, n - d)
    BY <1>2, <2>1, <2>2, PowSum
  <2>4. w \div Pow(10, n - d) = v \div Pow(10, L - d)
    BY <1>3, <2>2, <2>3, DivDivided
  <2> QED BY <2>1, <2>4
<1>6. Cvt!FirstDigits(v, n)
        = [d \in 1..n |-> IF d > L \/ d > DigPrec THEN 0 ELSE (v \div Pow(10, L - d)) % 10]
  BY ConvertNames, Zenon DEF Cvt!FirstDigits, L
<1>7. Cvt!FirstDigits(v, n) = LastDigits(w, n)
  <2> HIDE DEF w
  <2> QED BY <1>5, <1>6 DEF LastDigits
<1> QED BY <1>3, <1>4, <1>7 DEF w, m, L

\* The digit behind them says to which side of a half what is cut off is.
LEMMA NextDigit ==
    ASSUME NEW v \in Nat \ {0}, NEW n \in Nat, n <= Cvt!Length(v), n < DigPrec
    PROVE  LET Q == Pow(10, Cvt!Length(v) - n)
               w == v \div Q
               up == Cvt!FirstDigits(v, n + 1)[n + 1] >= 5
           IN  /\ Q * w <= v /\ v < Q * w + Q
               /\ up => 2 * (v - Q * w) >= Q
               /\ ~up => 2 * (v - Q * w) <= Q
<1> DEFINE L == Cvt!Length(v)
           Q == Pow(10, L - n)
           w == v \div Q
           c == Cvt!FirstDigits(v, n + 1)[n + 1]
<1>1. L \in Nat \ {0}
  BY LengthBounds
<1>2. c = IF n + 1 > L THEN 0 ELSE (v \div Pow(10, L - (n + 1))) % 10
  <2>1. n + 1 \in 1..(n + 1) /\ ~(n + 1 > DigPrec)
    BY Decimals
  <2> QED BY <2>1, ConvertNames DEF Cvt!FirstDigits
<1> HIDE DEF c
<1>3. L - n \in Nat
  BY <1>1 DEF L
<1>4. Q \in Nat \ {0}
  BY <1>3, TenPower
<1>5. w \in Nat /\ Q * w <= v /\ v < Q * w + Q
  BY <1>4, DivBounds
<1>6. CASE n + 1 > L
  <2>1. L - n = 0 /\ c = 0
    BY <1>1, <1>2, <1>3, <1>6
  <2>2. 10 \in Nat \ {0} /\ Pow(10, 0) = 1
    BY PowZero
  <2>3. Q = 1
    BY <2>1, <2>2
  <2> HIDE DEF w, Q
  <2>4. v = w /\ ~(c >= 5) /\ Q * w = w
    BY <1>5, <2>1, <2>3
  <2>5. 2 * (v - Q * w) <= Q
    BY <2>3, <2>4, <1>5
  <2> QED BY <1>5, <2>4, <2>5 DEF Q, w, c, L
<1>7. CASE ~(n + 1 > L)
  <2> DEFINE h == Pow(10, L - (n + 1))
             x == v \div h
  <2>1. L - (n + 1) \in Nat /\ (L - (n + 1)) + 1 = L - n
    BY <1>1, <1>7
  <2>2. h \in Nat \ {0} /\ Q = 10 * h
    BY <2>1, TenPower
  <2>3. x \in Nat /\ h * x <= v /\ v < h * x + h /\ c = x % 10
    BY <1>2, <1>7, <2>2, DivBounds
  <2>4. x \div 10 = w
    BY <2>2, DivDiv
  <2> HIDE DEF h, x, w, Q
  <2>5. x = 10 * w + c /\ c \in 0..9
    BY <2>3, <2>4, DivTen
  <2>6. h * x = Q * w + h * c /\ Q * w \in Nat
    BY <1>5, <2>2, <2>3, <2>5
  <2>7. c >= 5 => h * c >= 5 * h
    <3>1. c >= 5 => h * (c - 5) \in Nat /\ h * (c - 5) = h * c - 5 * h
      BY <2>2, <2>5
    <3> QED BY <2>2, <2>5, <3>1
  <2>8. ~(c >= 5) => h * c + h <= 5 * h
    <3>1. ~(c >= 5) => h * (4 - c) \in Nat /\ h * (4 - c) = 4 * h - h * c
      BY <2>2, <2>5
    <3> QED BY <2>2, <2>5, <3>1
  <2>9. h * c \in Nat
    BY <2>2, <2>5
  <2>10. /\ c >= 5 => 2 * (v - Q * w) >= Q
         /\ ~(c >= 5) => 2 * (v - Q * w) <= Q
    BY <2>2, <2>3, <2>6, <2>7, <2>8, <2>9
  <2> QED BY <1>5, <2>10 DEF Q, w, c, L
<1> QED BY <1>6, <1>7

\* One more, or the power of ten the nines are one below.
Nines(s) == \A d \in 1..Len(s) : s[d] = 9

LEMMA CarriedRight ==
    ASSUME NEW s \in Seq(0..9), Len(s) > 0
    PROVE  /\ Cvt!CarriedOver(s) \in Seq(0..9) /\ Len(Cvt!CarriedOver(s)) = Len(s)
           /\ ~Nines(s) => ValueOf(Cvt!CarriedOver(s)) = ValueOf(s) + 1
           /\ Nines(s) => /\ ValueOf(Cvt!CarriedOver(s)) = Pow(10, Len(s) - 1)
                          /\ ValueOf(s) + 1 = Pow(10, Len(s))
<1> DEFINE n == Len(s)
           others == {d \in DOMAIN s : s[d] # 9}
           p == IF others = {} THEN 1 ELSE CHOOSE d \in others : \A e \in others : e <= d
           c == [d \in DOMAIN s |->
                    IF d > p THEN 0
                    ELSE IF d < p THEN s[d]
                    ELSE IF others = {} THEN 1 ELSE s[d] + 1]
<1>1. Cvt!CarriedOver(s) = c
  BY Zenon DEF Cvt!CarriedOver
<1>2. n \in Nat \ {0} /\ DOMAIN s = 1..n /\ \A d \in 1..n : s[d] \in 0..9
  OBVIOUS
<1>3. Nines(s) <=> others = {}
  BY <1>2 DEF Nines
<1>4. /\ p \in 1..n /\ \A d \in 1..n : d > p => s[d] = 9
      /\ others # {} => s[p] # 9
  <2>1. CASE others = {}
    BY <1>2, <2>1
  <2>2. CASE others # {}
    <3>1. others \in SUBSET (0..n)
      BY <1>2
    <3>2. \E x \in others : \A y \in others : x >= y
      <4> HIDE DEF others, n
      <4>1. n \in Nat
        BY <1>2
      <4> QED BY <2>2, <3>1, <4>1, Greatest
    <3>3. \E x \in others : \A y \in others : y <= x
      <4> HIDE DEF others
      <4>1. \A x \in others : x \in Int
        BY <3>1
      <4> QED BY <3>2, <4>1
    <3>4. p \in others /\ \A y \in others : y <= p
      <4> HIDE DEF others
      <4> QED BY <2>2, <3>3, Zenon
    <3> HIDE DEF p
    <3>5. p \in 1..n /\ s[p] # 9
      BY <1>2, <3>4
    <3>6. ASSUME NEW d \in 1..n, d > p PROVE s[d] = 9
      <4>1. d \notin others
        BY <1>2, <3>4, <3>5, <3>6
      <4> QED BY <1>2, <4>1
    <3> QED BY <3>5, <3>6
  <2> QED BY <2>1, <2>2
<1> HIDE DEF p
<1>5. /\ c \in Seq(0..9) /\ Len(c) = n
      /\ \A d \in 1..n : c[d] = IF d > p THEN 0 ELSE IF d < p THEN s[d]
                                ELSE IF others = {} THEN 1 ELSE s[d] + 1
  <2> HIDE DEF n
  <2>1. \A d \in 1..n : (IF d > p THEN 0 ELSE IF d < p THEN s[d]
                         ELSE IF others = {} THEN 1 ELSE s[d] + 1) \in 0..9
    <3> TAKE d \in 1..n
    <3>1. d = p /\ others # {} => s[d] \in 0..9 /\ s[d] # 9
      BY <1>2, <1>4
    <3>2. s[d] \in 0..9 /\ p \in 1..n /\ n \in Nat
      BY <1>2, <1>4
    <3> HIDE DEF others
    <3> QED BY <3>1, <3>2
  <2>2. c = [d \in 1..n |-> IF d > p THEN 0 ELSE IF d < p THEN s[d]
                            ELSE IF others = {} THEN 1 ELSE s[d] + 1]
    BY <1>2
  <2> HIDE DEF c, others
  <2>3. c \in [1..n -> 0..9]
    BY <2>1, <2>2
  <2> QED BY <1>2, <2>2, <2>3
<1> HIDE DEF c
<1>6. PICK u : ValueOf(s) = u[n] /\ Reads(u, s, n)
  BY ValueSteps
<1>7. PICK w : ValueOf(c) = w[n] /\ Reads(w, c, n)
  BY <1>5, ValueSteps
<1> HIDE DEF n
<1>8. \A d \in 0..n : u[d] \in Nat
  <2>1. u[0] \in Nat /\ n \in Nat
    BY <1>2, <1>6 DEF Reads
  <2>2. ASSUME NEW d \in 1..n, u[d - 1] \in Nat PROVE u[d] \in Nat
    <3>1. u[d] = 10 * u[d - 1] + s[d]
      BY <1>6 DEF Reads
    <3>2. s[d] \in 0..9
      BY <1>2
    <3>3. ASSUME NEW a \in Nat, NEW b \in 0..9 PROVE 10 * a + b \in Nat
      OBVIOUS
    <3> HIDE DEF others
    <3> QED BY <2>2, <3>1, <3>2, <3>3, Zenon
  <2> QED BY <2>1, <2>2, Typed
<1>9. ASSUME others # {} PROVE ValueOf(c) = ValueOf(s) + 1
  <2> DEFINE T == {d \in Nat : d <= n => w[d] = IF d < p THEN u[d] ELSE u[d] + 1}
  <2> HIDE DEF others
  <2>1. 0 \in T
    BY <1>2, <1>4, <1>6, <1>7 DEF Reads
  <2>2. ASSUME NEW d \in Nat, d \in T PROVE d + 1 \in T
    <3> SUFFICES ASSUME d + 1 <= n
                 PROVE  w[d + 1] = IF d + 1 < p THEN u[d + 1] ELSE u[d + 1] + 1
      OBVIOUS
    <3>1. d + 1 \in 1..n /\ (d + 1) - 1 = d /\ d \in 0..n /\ n \in Nat /\ p \in 1..n
      BY <1>2, <1>4
    <3>2. w[d] = IF d < p THEN u[d] ELSE u[d] + 1
      BY <2>2, <3>1
    <3>3. w[d + 1] = 10 * w[d] + c[d + 1] /\ u[d + 1] = 10 * u[d] + s[d + 1]
      BY <1>6, <1>7, <3>1 DEF Reads
    <3>4. u[d] \in Nat /\ s[d + 1] \in 0..9
      BY <1>2, <1>8, <3>1
    <3>5. c[d + 1] = IF d + 1 > p THEN 0 ELSE IF d + 1 < p THEN s[d + 1] ELSE s[d + 1] + 1
      BY <1>5, <1>9, <3>1
    <3>6. d + 1 > p => s[d + 1] = 9
      BY <1>4, <3>1
    <3>7. CASE d + 1 < p
      BY <3>1, <3>2, <3>3, <3>4, <3>5, <3>7
    <3>8. CASE d + 1 = p
      BY <3>1, <3>2, <3>3, <3>4, <3>5, <3>8, SMTT(30)
    <3>9. CASE d + 1 > p
      BY <3>1, <3>2, <3>3, <3>4, <3>5, <3>6, <3>9
    <3> QED BY <3>1, <3>7, <3>8, <3>9
  <2>3. Nat \subseteq T
    <3> HIDE DEF T
    <3> QED BY <2>1, <2>2, Inductive
  <2>4. w[n] = IF n < p THEN u[n] ELSE u[n] + 1
    BY <1>2, <2>3
  <2> QED BY <1>2, <1>4, <1>6, <1>7, <2>4
<1>10. ASSUME others = {} PROVE ValueOf(c) = Pow(10, n - 1) /\ ValueOf(s) + 1 = Pow(10, n)
  <2> DEFINE T == {d \in Nat : d <= n => /\ u[d] + 1 = Pow(10, d)
                                         /\ d > 0 => w[d] = Pow(10, d - 1)}
  <2>0. p = 1 /\ \A d \in 1..n : s[d] = 9
    BY <1>2, <1>10 DEF p
  <2>1. 0 \in T
    <3>1. 10 \in Nat \ {0} /\ Pow(10, 0) = 1
      BY PowZero
    <3> QED BY <1>2, <1>6, <3>1 DEF Reads
  <2>2. ASSUME NEW d \in Nat, d \in T PROVE d + 1 \in T
    <3> SUFFICES ASSUME d + 1 <= n
                 PROVE  u[d + 1] + 1 = Pow(10, d + 1) /\ w[d + 1] = Pow(10, d)
      OBVIOUS
    <3>1. d + 1 \in 1..n /\ (d + 1) - 1 = d /\ d \in 0..n /\ n \in Nat
      BY <1>2
    <3>2. u[d] + 1 = Pow(10, d) /\ (d > 0 => w[d] = Pow(10, d - 1))
      BY <2>2, <3>1
    <3>3. w[d + 1] = 10 * w[d] + c[d + 1] /\ u[d + 1] = 10 * u[d] + s[d + 1] /\ w[0] = 0
      BY <1>6, <1>7, <3>1 DEF Reads
    <3>4. u[d] \in Nat /\ s[d + 1] = 9
      BY <1>8, <2>0, <3>1
    <3>5. c[d + 1] = IF d = 0 THEN 1 ELSE 0
      BY <1>5, <1>10, <2>0, <3>1
    <3>6. Pow(10, d + 1) = 10 * Pow(10, d) /\ Pow(10, d) \in Nat
      BY TenPower
    <3>7. u[d + 1] + 1 = Pow(10, d + 1)
      BY <3>2, <3>3, <3>4, <3>6
    <3>8. CASE d = 0
      <4>1. 10 \in Nat \ {0} /\ Pow(10, 0) = 1
        BY PowZero
      <4> QED BY <3>3, <3>5, <3>7, <3>8, <4>1
    <3>9. CASE d > 0
      <4>1. d - 1 \in Nat /\ (d - 1) + 1 = d
        BY <3>9
      <4>2. Pow(10, d) = 10 * Pow(10, d - 1) /\ Pow(10, d - 1) \in Nat
        BY <4>1, TenPower
      <4> QED BY <3>2, <3>3, <3>5, <3>7, <3>9, <4>2
    <3> QED BY <3>8, <3>9
  <2>3. Nat \subseteq T
    <3> HIDE DEF T
    <3> QED BY <2>1, <2>2, Inductive
  <2>4. u[n] + 1 = Pow(10, n) /\ w[n] = Pow(10, n - 1)
    BY <1>2, <2>3
  <2> QED BY <1>6, <1>7, <2>4
<1> QED BY <1>1, <1>3, <1>5, <1>9, <1>10 DEF n

LEMMA TwoParts ==
    ASSUME NEW S, NEW a \in Seq(S), NEW b \in Seq(S)
    PROVE  /\ a \o b \in Seq(S) /\ Len(a \o b) = Len(a) + Len(b)
           /\ \A d \in 1..(Len(a) + Len(b)) :
                (a \o b)[d] = IF d <= Len(a) THEN a[d] ELSE b[d - Len(a)]
  OBVIOUS

LEMMA NoDigit == \A z \in 0..9 : z # 10
  OBVIOUS

\* The digits with the point behind the first dec of them.
Pointed(g, dec) ==
    [d \in 1..(Len(g) + 1) |-> IF d <= dec THEN g[d] ELSE IF d = dec + 1 THEN 10 ELSE g[d - 1]]

\* Where the point is in them, and what they are without it.
Separated(s, g, dec) ==
    LET point == CHOOSE d \in 1..Len(s) : s[d] = 10
    IN  /\ point = dec + 1
        /\ SubSeq(s, 1, point - 1) \o SubSeq(s, point + 1, Len(s)) = g
        /\ \E d \in 1..Len(s) : s[d] = 10

LEMMA PointedRead ==
    ASSUME NEW g \in Seq(0..9), NEW dec \in 1..Len(g), NEW cs, NEW n \in Int,
           cs = Sign(n) \o Pointed(g, dec)
    PROVE  /\ Separated(Cvt!Unsign(cs), g, dec)
           /\ (cs # Cvt!Unsign(cs)) <=> (n < 0)
<1> DEFINE b == Pointed(g, dec)
           N == Len(g)
<1>1. N \in Nat /\ dec \in 1..N /\ \A d \in 1..N : g[d] \in 0..9
  OBVIOUS
<1>2. /\ b \in Seq(0..10) /\ Len(b) = N + 1
      /\ \A d \in 1..(N + 1) : b[d] = IF d <= dec THEN g[d] ELSE IF d = dec + 1 THEN 10 ELSE g[d - 1]
  <2>1. \A d \in 1..(N + 1) :
            (IF d <= dec THEN g[d] ELSE IF d = dec + 1 THEN 10 ELSE g[d - 1]) \in 0..10
    <3> TAKE d \in 1..(N + 1)
    <3>1. CASE d <= dec
      <4>1. d \in 1..N
        BY <1>1, <3>1
      <4> QED BY <1>1, <3>1, <4>1
    <3>2. CASE d = dec + 1
      BY <1>1, <3>2
    <3>3. CASE ~(d <= dec) /\ d # dec + 1
      <4>1. d - 1 \in 1..N
        BY <1>1, <3>3
      <4> QED BY <1>1, <3>3, <4>1
    <3> QED BY <3>1, <3>2, <3>3
  <2>2. b = [d \in 1..(N + 1) |-> IF d <= dec THEN g[d] ELSE IF d = dec + 1 THEN 10 ELSE g[d - 1]]
    BY DEF Pointed
  <2> HIDE DEF b, N
  <2> QED BY <1>1, <2>1, <2>2
<1> HIDE DEF b, N
<1>3. Len(b) > 0 /\ b[1] = g[1] /\ b[1] \in 0..9
  BY <1>1, <1>2, SMTT(30)
<1>4. Cvt!Unsign(cs) = b /\ ((cs # b) <=> (n < 0))
  <2>1. Cvt!Minus = 11
    BY DEF Cvt!Minus
  <2>2. CASE n < 0
    <3>1. cs = <<11>> \o b
      BY <2>2 DEF Sign, b
    <3>2. Len(cs) > 0 /\ cs[1] = 11 /\ Tail(cs) = b
      BY <1>2, <3>1
    <3> QED BY <1>3, <2>1, <2>2, <3>2, SMTT(30) DEF Cvt!Unsign
  <2>3. CASE ~(n < 0)
    <3>1. cs = <<>> \o b
      BY <2>3 DEF Sign, b
    <3>2. cs = b
      BY <1>2, <3>1
    <3> QED BY <1>3, <2>1, <2>3, <3>2, SMTT(30) DEF Cvt!Unsign
  <2> QED BY <2>2, <2>3
<1>5. /\ dec + 1 \in 1..Len(b) /\ b[dec + 1] = 10
      /\ \A d \in 1..Len(b) : b[d] = 10 => d = dec + 1
  <2>1. dec + 1 \in 1..(N + 1) /\ b[dec + 1] = 10
    BY <1>1, <1>2
  <2>2. ASSUME NEW d \in 1..(N + 1), b[d] = 10, d # dec + 1 PROVE FALSE
    <3>1. CASE d <= dec
      <4>1. d \in 1..N /\ b[d] = g[d]
        BY <1>1, <1>2, <3>1
      <4> QED BY <1>1, <2>2, <4>1, NoDigit, Zenon
    <3>2. CASE ~(d <= dec)
      <4>1. d - 1 \in 1..N /\ b[d] = g[d - 1]
        BY <1>1, <1>2, <2>2, <3>2
      <4> QED BY <1>1, <2>2, <4>1, NoDigit, Zenon
    <3> QED BY <3>1, <3>2
  <2> QED BY <1>2, <2>1, <2>2
<1>6. (CHOOSE d \in 1..Len(b) : b[d] = 10) = dec + 1
  BY <1>5, Zenon
<1>7. SubSeq(b, 1, dec) \o SubSeq(b, dec + 2, Len(b)) = g
  <2> DEFINE x == SubSeq(b, 1, dec)
             y == SubSeq(b, dec + 2, Len(b))
  <2>1. /\ x \in Seq(0..10) /\ Len(x) = dec /\ \A d \in 1..dec : x[d] = g[d]
    <3>1. x \in Seq(0..10) /\ Len(x) = dec /\ \A d \in 1..dec : x[d] = b[d]
      BY <1>1, <1>2, SMTT(30)
    <3> HIDE DEF x
    <3> QED BY <1>1, <1>2, <3>1
  <2>2. /\ y \in Seq(0..10) /\ Len(y) = N - dec /\ \A d \in 1..(N - dec) : y[d] = g[dec + d]
    <3>1. y \in Seq(0..10) /\ Len(y) = N - dec /\ \A d \in 1..(N - dec) : y[d] = b[dec + 1 + d]
      BY <1>1, <1>2, SMTT(30)
    <3> HIDE DEF y
    <3>2. ASSUME NEW d \in 1..(N - dec) PROVE b[dec + 1 + d] = g[dec + d]
      <4>1. dec + 1 + d \in 1..(N + 1) /\ ~(dec + 1 + d <= dec) /\ dec + 1 + d # dec + 1
            /\ (dec + 1 + d) - 1 = dec + d
        BY <1>1
      <4> QED BY <1>2, <4>1
    <3> QED BY <3>1, <3>2
  <2> HIDE DEF x, y
  <2>3. /\ x \o y \in Seq(0..10) /\ Len(x \o y) = N
        /\ \A d \in 1..N : (x \o y)[d] = IF d <= dec THEN x[d] ELSE y[d - dec]
    <3>1. /\ x \o y \in Seq(0..10) /\ Len(x \o y) = dec + (N - dec)
          /\ \A d \in 1..(dec + (N - dec)) : (x \o y)[d] = IF d <= dec THEN x[d] ELSE y[d - dec]
      <4>1. /\ x \o y \in Seq(0..10) /\ Len(x \o y) = Len(x) + Len(y)
            /\ \A d \in 1..(Len(x) + Len(y)) :
                (x \o y)[d] = IF d <= Len(x) THEN x[d] ELSE y[d - Len(x)]
        BY <2>1, <2>2, TwoParts, Zenon
      <4> QED BY <2>1, <2>2, <4>1, Zenon
    <3> QED BY <1>1, <3>1, SMTT(30)
  <2>4. \A d \in 1..N : (x \o y)[d] = g[d]
    <3> TAKE d \in 1..N
    <3>1. CASE d <= dec
      BY <1>1, <2>1, <2>3, <3>1
    <3>2. CASE ~(d <= dec)
      <4>1. d - dec \in 1..(N - dec) /\ dec + (d - dec) = d
        BY <1>1, <3>2
      <4> QED BY <2>2, <2>3, <3>2, <4>1
    <3> QED BY <3>1, <3>2
  <2>5. g \in Seq(0..10) /\ Len(g) = N
    BY DEF N
  <2>6. x \o y = g
    <3> QED BY <2>3, <2>4, <2>5, SameSequence
  <2> QED BY <2>6 DEF x, y
<1>8. (dec + 1) - 1 = dec /\ (dec + 1) + 1 = dec + 2
  BY <1>1
<1>9. Separated(b, g, dec)
  BY <1>5, <1>6, <1>7, <1>8 DEF Separated
<1> QED BY <1>4, <1>9, Zenon

\* What the client puts together of the digits, cut off after Prec decimals of
\* the length it reckoned with.
LEMMA PointedMade ==
    ASSUME NEW g \in Seq(0..9), NEW dec \in 1..Len(g), Len(g) <= dec + Prec
    PROVE  SubSeq([d \in 1..dec |-> Cvt!CharAt(g, d)] \o <<Cvt!Dot>>
                    \o [d \in 1..Prec |-> Cvt!CharAt(g, dec + d)], 1, Len(g) + 1)
             = Pointed(g, dec)
<1> DEFINE N == Len(g)
           S == 0..13
           x == [d \in 1..dec |-> Cvt!CharAt(g, d)]
           y == [d \in 1..Prec |-> Cvt!CharAt(g, dec + d)]
           z == (x \o <<Cvt!Dot>>) \o y
           t == SubSeq(z, 1, N + 1)
<1>1. /\ N \in Nat /\ dec \in 1..N /\ Prec \in Nat /\ N <= dec + Prec
      /\ \A d \in 1..N : g[d] \in 0..9
  BY Decimals
<1>2. /\ \A d \in 1..N : Cvt!CharAt(g, d) = g[d]
      /\ \A d \in Nat : d > 0 => Cvt!CharAt(g, d) \in S
  <2>1. ASSUME NEW d \in Nat, d > 0 PROVE Cvt!CharAt(g, d) \in S
    <3>1. CASE d <= N
      BY <1>1, <2>1, <3>1 DEF Cvt!CharAt
    <3>2. CASE ~(d <= N)
      BY <3>2 DEF Cvt!CharAt, Cvt!Nul, Cvt!Old
    <3> QED BY <3>1, <3>2
  <2>2. \A d \in 1..N : Cvt!CharAt(g, d) = g[d]
    BY DEF Cvt!CharAt
  <2> QED BY <2>1, <2>2
<1>3. Cvt!Dot = 10
  BY DEF Cvt!Dot
<1> HIDE DEF N
<1>4. x \in Seq(S) /\ Len(x) = dec /\ \A d \in 1..dec : x[d] = g[d]
  <2>1. \A d \in 1..dec : Cvt!CharAt(g, d) = g[d] /\ Cvt!CharAt(g, d) \in S
    BY <1>1, <1>2
  <2> HIDE DEF S
  <2>2. x \in [1..dec -> S] /\ dec \in Nat
    BY <1>1, <2>1
  <2>3. \A d \in 1..dec : x[d] = g[d]
    BY <2>1
  <2> HIDE DEF x
  <2> QED BY <2>2, <2>3
<1>5. y \in Seq(S) /\ Len(y) = Prec /\ \A d \in 1..Prec : y[d] = Cvt!CharAt(g, dec + d)
  <2>1. \A d \in 1..Prec : Cvt!CharAt(g, dec + d) \in S
    BY <1>1, <1>2
  <2> HIDE DEF S
  <2>2. y \in [1..Prec -> S] /\ Prec \in Nat
    BY <1>1, <2>1
  <2>3. \A d \in 1..Prec : y[d] = Cvt!CharAt(g, dec + d)
    OBVIOUS
  <2> HIDE DEF y
  <2> QED BY <2>2, <2>3
<1> DEFINE a == x \o <<Cvt!Dot>>
<1> HIDE DEF x, y
<1>6. /\ a \in Seq(S) /\ Len(a) = dec + 1
      /\ \A d \in 1..(dec + 1) : a[d] = IF d <= dec THEN x[d] ELSE 10
  <2>1. <<Cvt!Dot>> \in Seq(S)
    BY <1>3
  <2>2. Len(<<Cvt!Dot>>) = 1 /\ <<Cvt!Dot>>[1] = 10
    BY <1>3
  <2> DEFINE o == <<Cvt!Dot>>
  <2> HIDE DEF S, o
  <2>3. /\ x \o o \in Seq(S) /\ Len(x \o o) = Len(x) + Len(o)
        /\ \A d \in 1..(Len(x) + Len(o)) :
             (x \o o)[d] = IF d <= Len(x) THEN x[d] ELSE o[d - Len(x)]
    BY <1>4, <2>1, TwoParts, Zenon DEF o
  <2>4. Len(o) = 1 /\ o[1] = 10
    BY <2>2 DEF o
  <2>5. \A d \in 1..(dec + 1) : ~(d <= dec) => d - dec = 1
    BY <1>1
  <2> QED BY <1>4, <2>3, <2>4, <2>5 DEF o
<1> HIDE DEF a, S
<1>7. /\ z \in Seq(S) /\ Len(z) = dec + 1 + Prec
      /\ \A d \in 1..(dec + 1 + Prec) : z[d] = IF d <= dec + 1 THEN a[d] ELSE y[d - (dec + 1)]
  <2>1. /\ a \o y \in Seq(S) /\ Len(a \o y) = Len(a) + Len(y)
        /\ \A d \in 1..(Len(a) + Len(y)) :
             (a \o y)[d] = IF d <= Len(a) THEN a[d] ELSE y[d - Len(a)]
    BY <1>5, <1>6, TwoParts, Zenon
  <2>2. z = a \o y
    BY DEF a
  <2> QED BY <1>5, <1>6, <2>1, <2>2
<1> HIDE DEF z
<1>8. /\ t \in Seq(S) /\ Len(t) = N + 1 /\ \A d \in 1..(N + 1) : t[d] = z[d]
  BY <1>1, <1>7
<1> HIDE DEF t
<1>9. ASSUME NEW d \in 1..(N + 1)
      PROVE  t[d] = IF d <= dec THEN g[d] ELSE IF d = dec + 1 THEN 10 ELSE g[d - 1]
  <2>1. d \in 1..(dec + 1 + Prec)
    BY <1>1
  <2>2. t[d] = IF d <= dec + 1 THEN a[d] ELSE y[d - (dec + 1)]
    BY <1>7, <1>8, <2>1
  <2>3. CASE d <= dec
    <3>1. d \in 1..dec /\ d \in 1..(dec + 1) /\ d <= dec + 1
      BY <1>1, <2>3
    <3> QED BY <1>4, <1>6, <2>2, <2>3, <3>1
  <2>4. CASE d = dec + 1
    <3>1. d \in 1..(dec + 1) /\ d <= dec + 1 /\ ~(d <= dec)
      BY <1>1, <2>4
    <3> QED BY <1>6, <2>2, <2>4, <3>1
  <2>5. CASE ~(d <= dec + 1)
    <3>1. /\ d - (dec + 1) \in 1..Prec /\ dec + (d - (dec + 1)) = d - 1 /\ d - 1 \in 1..N
          /\ ~(d <= dec) /\ d # dec + 1
      BY <1>1, <2>5
    <3> QED BY <1>2, <1>5, <2>2, <2>5, <3>1
  <2>6. d <= dec \/ d = dec + 1 \/ ~(d <= dec + 1)
    BY <1>1
  <2> QED BY <2>3, <2>4, <2>5, <2>6
<1>10. t = [d \in 1..(N + 1) |-> IF d <= dec THEN g[d] ELSE IF d = dec + 1 THEN 10 ELSE g[d - 1]]
  <2>1. t = [d \in 1..Len(t) |-> t[d]]
    BY <1>8
  <2> QED BY <1>8, <1>9, <2>1
<1>11. t = Pointed(g, dec)
  BY <1>10 DEF Pointed, N
<1>12. z = x \o <<Cvt!Dot>> \o y
  BY DEF z
<1> QED BY <1>11, <1>12, Zenon DEF t, x, y, N

\* The integer part is an unsigned int.
LEMMA WholePart ==
    ASSUME NEW v \in Nat, NEW u \in Nat \ {0}, NEW b \in Nat \ {0}, v < b * u
    PROVE  (v \div u) % b = v \div u
<1> DEFINE d == v \div u
<1>1. d \in Nat /\ u * d <= v
  BY DivBounds
<1> HIDE DEF d
<1>2. d < b
  <2>1. CASE b <= d
    <3>1. u * (d - b) \in Nat /\ u * (d - b) = u * d - b * u
      BY <1>1, <2>1
    <3> QED BY <1>1, <3>1
  <2> QED BY <1>1, <2>1
<1>3. d % b = d
  BY <1>1, <1>2
<1> QED BY <1>3 DEF d

\* The digits rounded, and where the point is.
Unit(dec, len) == Pow(10, Places - (len + Prec - dec))
RoundedTo(e, v, len) ==
    /\ e.digits \in Seq(0..9) /\ Len(e.digits) = len + Prec
    /\ e.dec \in {len, len + 1}
    /\ Unit(e.dec, len) \in Nat /\ ValueOf(e.digits) \in Nat
    /\ 2 * Magnitude(ValueOf(e.digits) * Unit(e.dec, len) - v) <= Unit(e.dec, len)

LEMMA Rounded ==
    ASSUME NEW v \in Nat \ {0}, NEW len \in Nat \ {0}, Cvt!Length(v) = len + Places,
           len + Prec < DigPrec
    PROVE  RoundedTo(Cvt!Ecvt(v, len + Prec), v, len)
<1> DEFINE n == len + Prec
           L == Cvt!Length(v)
           Q == Pow(10, L - n)
           w == v \div Q
           s == Cvt!FirstDigits(v, n)
           up == Cvt!FirstDigits(v, n + 1)[n + 1] >= 5
           g == Cvt!Ecvt(v, n).digits
           dec == Cvt!Ecvt(v, n).dec
           unit == Unit(dec, len)
<1>1. /\ Prec \in Nat \ {0} /\ Places \in Nat /\ Prec <= Places
      /\ n \in Nat \ {0} /\ n - 1 \in Nat /\ L \in Nat /\ n <= L /\ L - n = Places - Prec /\ L - n \in Nat
      /\ L - Places = len /\ n < DigPrec /\ n <= DigPrec /\ Cvt!Asked(n) = n
  BY Decimals DEF Cvt!Asked
<1>2. Q \in Nat \ {0}
  BY <1>1, TenPower
<1>3. /\ s = LastDigits(w, n) /\ w \in Nat /\ w < Pow(10, n)
  BY <1>1, FirstDigitsIs, Zenon
<1>4. s \in Seq(0..9) /\ Len(s) = n /\ ValueOf(s) = w
  <2> HIDE DEF s, w, n
  <2>1. n \in Nat
    BY <1>1
  <2> QED BY <1>3, <2>1, LastDigitsType, ValueWhole
<1>5. /\ Q * w <= v /\ v < Q * w + Q
      /\ up => 2 * (v - Q * w) >= Q
      /\ ~up => 2 * (v - Q * w) <= Q
  <2>1. n \in Nat /\ n <= Cvt!Length(v) /\ n < DigPrec
    BY <1>1
  <2> HIDE DEF n
  <2> QED BY <2>1, NextDigit, Zenon
<1>6. /\ g = IF up THEN Cvt!CarriedOver(s) ELSE s
      /\ dec = IF up /\ \A d \in 1..n : s[d] = 9 THEN L - Places + 1 ELSE L - Places
  <2> HIDE DEF n
  <2> QED BY <1>1 DEF Cvt!Ecvt
<1>7. (\A d \in 1..n : s[d] = 9) <=> Nines(s)
  BY <1>4 DEF Nines
<1> HIDE DEF unit, s, w, up, g, dec, n, L
<1>8. /\ Cvt!CarriedOver(s) \in Seq(0..9) /\ Len(Cvt!CarriedOver(s)) = n
      /\ ~Nines(s) => ValueOf(Cvt!CarriedOver(s)) = w + 1
      /\ Nines(s) => /\ ValueOf(Cvt!CarriedOver(s)) = Pow(10, n - 1)
                     /\ w + 1 = Pow(10, n)
  <2>1. Len(s) > 0
    BY <1>1, <1>4
  <2> QED BY <1>4, <2>1, CarriedRight
<1>9. g \in Seq(0..9) /\ Len(g) = n
  BY <1>4, <1>6, <1>8
<1>10. ValueOf(g) \in Nat
  BY <1>9, ValueType
<1>11. ASSUME NEW x \in Nat, NEW m \in Nat, NEW q \in Nat, NEW z \in Nat, NEW k1 \in BOOLEAN,
              z = IF k1 THEN q * x + q ELSE q * x,
              q * x <= m, m < q * x + q,
              k1 => 2 * (m - q * x) >= q, ~k1 => 2 * (m - q * x) <= q
       PROVE  2 * Magnitude(z - m) <= q
  <2>1. q * x \in Nat
    OBVIOUS
  <2> DEFINE y == q * x
  <2>2. /\ z = IF k1 THEN y + q ELSE y
        /\ y <= m /\ m < y + q /\ (k1 => 2 * (m - y) >= q) /\ (~k1 => 2 * (m - y) <= q) /\ y \in Nat
    BY <1>11, <2>1, Zenon
  <2> HIDE DEF y
  <2> QED BY <2>2 DEF Magnitude
<1>12. CASE up /\ Nines(s)
  <2>1. dec = len + 1 /\ ValueOf(g) = Pow(10, n - 1) /\ w + 1 = Pow(10, n)
    BY <1>1, <1>6, <1>7, <1>8, <1>12
  <2>2. Places - (len + Prec - dec) = (L - n) + 1
    BY <1>1, <2>1 DEF n
  <2>3. unit = 10 * Q
    BY <1>1, <2>2, TenPower DEF unit, Unit
  <2>4. Pow(10, n) = 10 * Pow(10, n - 1) /\ Pow(10, n - 1) \in Nat
    <3>1. (n - 1) + 1 = n
      BY <1>1
    <3> QED BY <1>1, <3>1, TenPower
  <2> HIDE DEF Q
  <2>5. ValueOf(g) * unit = Q * w + Q
    <3>1. ValueOf(g) * unit = Q * (10 * Pow(10, n - 1))
      BY <1>2, <2>1, <2>3, <2>4
    <3>2. Q * (w + 1) = Q * w + Q
      BY <1>2, <1>3
    <3> QED BY <2>1, <2>4, <3>1, <3>2
  <2>6. Q \in Nat /\ v \in Nat /\ unit \in Nat /\ ValueOf(g) * unit \in Nat
    BY <1>2, <1>10, <2>3
  <2>7. 2 * Magnitude(ValueOf(g) * unit - v) <= Q
    BY <1>3, <1>5, <1>11, <1>12, <2>5, <2>6
  <2>8. Magnitude(ValueOf(g) * unit - v) \in Nat
    BY <2>6 DEF Magnitude
  <2>9. 2 * Magnitude(ValueOf(g) * unit - v) <= unit
    BY <1>2, <2>3, <2>7, <2>8
  <2> QED BY <1>9, <1>10, <2>1, <2>6, <2>9 DEF RoundedTo, unit, g, dec, n
<1>13. CASE ~(up /\ Nines(s))
  <2>1. dec = len
    BY <1>1, <1>6, <1>7, <1>13
  <2>2. Places - (len + Prec - dec) = L - n
    BY <1>1, <2>1 DEF n
  <2>3. unit = Q
    BY <2>2 DEF unit, Unit
  <2> HIDE DEF Q
  <2>4. ValueOf(g) = IF up THEN w + 1 ELSE w
    BY <1>4, <1>6, <1>8, <1>13
  <2>5. ValueOf(g) * unit = IF up THEN Q * w + Q ELSE Q * w
    BY <1>2, <1>3, <2>3, <2>4
  <2>6. Q \in Nat /\ v \in Nat /\ unit \in Nat /\ ValueOf(g) * unit \in Nat
    BY <1>2, <1>10, <2>3
  <2>7. 2 * Magnitude(ValueOf(g) * unit - v) <= Q
    BY <1>3, <1>5, <1>11, <2>5, <2>6
  <2> QED BY <1>9, <1>10, <2>1, <2>3, <2>6, <2>7 DEF RoundedTo, unit, g, dec, n
<1> QED BY <1>12, <1>13

\* What a double n is written as: digits with Prec of them behind the point, or
\* one fewer, within half a unit of the last.
Rounds(n, g, dec) ==
    LET unit == Pow(10, Places - (Len(g) - dec))
    IN  /\ Len(g) - dec \in {Prec - 1, Prec}
        /\ 2 * Magnitude(ValueOf(g) * unit - Magnitude(n)) <= unit
Printable(n) ==
    /\ Pow(10, Places) <= Magnitude(n) /\ Magnitude(n) < Pow(2, IntBits) * Pow(10, Places)
    /\ Cvt!Length(Magnitude(n) \div Pow(10, Places)) + Prec < DigPrec
DoubleRight(n, cs) ==
    \E g \in Seq(0..9) : \E dec \in 1..Len(g) : cs = Sign(n) \o Pointed(g, dec) /\ Rounds(n, g, dec)

\* What convert makes of it.
DoubleText(v, n) ==
    LET d == (v \div Cvt!Pow(10, Places)) % Cvt!Pow(2, IntBits)
        len == Cvt!Length(d)
        e == Cvt!Ecvt(v, len + Prec)
        cs == [m \in 1..e.dec |-> Cvt!CharAt(e.digits, m)] \o <<Cvt!Dot>>
              \o [m \in 1..Prec |-> Cvt!CharAt(e.digits, e.dec + m)]
    IN  IF d = 0 THEN <<0>>
        ELSE (IF n < 0 THEN <<Cvt!Minus>> ELSE <<>>) \o SubSeq(cs, 1, len + Prec + 1)

LEMMA DoubleWritten ==
    ASSUME NEW n \in Int, Printable(n)
    PROVE  DoubleRight(n, DoubleText(Magnitude(n), n))
<1> DEFINE v == Magnitude(n)
           U == Pow(10, Places)
           B == Pow(2, IntBits)
           d == v \div U
           len == Cvt!Length(d)
           e == Cvt!Ecvt(v, len + Prec)
           g == e.digits
           dec == e.dec
           cs == [m \in 1..dec |-> Cvt!CharAt(g, m)] \o <<Cvt!Dot>>
                 \o [m \in 1..Prec |-> Cvt!CharAt(g, dec + m)]
<1>1. v \in Nat /\ U <= v /\ v < B * U /\ len + Prec < DigPrec
  BY DEF Magnitude, Printable
<1>2. U \in Nat \ {0} /\ B \in Nat \ {0}
  BY Decimals, TenPower, PowType
<1>3. d % B = d
  <2> HIDE DEF v, U, B
  <2> QED BY <1>1, <1>2, WholePart
<1>4. d \in Nat \ {0} /\ Cvt!Length(v) = len + Places
  <2>1. Places \in Nat /\ Pow(10, Places) <= v
    BY <1>1, Decimals
  <2> HIDE DEF v
  <2> QED BY <1>1, <2>1, LengthCut
<1>5. len \in Nat \ {0}
  <2> HIDE DEF d
  <2> QED BY <1>4, LengthBounds
<1>6. v # 0
  BY <1>1, <1>2
<1>7. RoundedTo(e, v, len)
  <2>1. v \in Nat \ {0}
    BY <1>1, <1>6
  <2> HIDE DEF v, len
  <2> QED BY <2>1, <1>1, <1>4, <1>5, Rounded
<1>8. DoubleText(v, n) = Sign(n) \o SubSeq(cs, 1, len + Prec + 1)
  <2>1. Cvt!Pow(10, Places) = U /\ Cvt!Pow(2, IntBits) = B
    BY ConvertNames, Zenon
  <2>2. (v \div Cvt!Pow(10, Places)) % Cvt!Pow(2, IntBits) = d
    BY <1>3, <2>1, Zenon
  <2>3. d # 0
    BY <1>4
  <2>4. (IF n < 0 THEN <<Cvt!Minus>> ELSE <<>>) = Sign(n)
    BY DEF Sign, Cvt!Minus
  <2> HIDE DEF d, v
  <2> QED BY <2>2, <2>3, <2>4, Zenon DEF DoubleText
<1> HIDE DEF d, U, B, v, len, e
<1>9. /\ g \in Seq(0..9) /\ Len(g) = len + Prec /\ dec \in {len, len + 1}
      /\ Prec \in Nat \ {0}
  BY <1>7, Decimals DEF RoundedTo
<1>10. dec \in 1..Len(g) /\ Len(g) <= dec + Prec /\ Len(g) - dec \in {Prec - 1, Prec}
  BY <1>5, <1>9
<1>11. SubSeq(cs, 1, len + Prec + 1) = Pointed(g, dec)
  <2>1. SubSeq(cs, 1, Len(g) + 1) = Pointed(g, dec)
    <3> HIDE DEF g, dec
    <3> QED BY <1>9, <1>10, PointedMade
  <2> QED BY <1>9, <2>1
<1>12. Unit(dec, len) = Pow(10, Places - (Len(g) - dec))
  <2>1. len + Prec - dec = Len(g) - dec
    BY <1>5, <1>9
  <2> HIDE DEF g, dec
  <2> QED BY <2>1, Zenon DEF Unit
<1>13. Rounds(n, g, dec)
  BY <1>7, <1>10, <1>12 DEF RoundedTo, Rounds, v
<1> QED
  <2>1. DoubleText(v, n) = Sign(n) \o Pointed(g, dec)
    BY <1>8, <1>11
  <2> HIDE DEF g, dec
  <2> QED BY <1>9, <1>10, <1>13, <2>1, Zenon DEF DoubleRight, v

\* A double is converted at once.
DoubleWaiting ==
    /\ kind = "double" => at \in {"start", "done"}
    /\ kind = "double" /\ at = "done" /\ Printable(in) => DoubleRight(in, chars)

LEMMA DoubleNext == DoubleWaiting /\ Numbering /\ [PageNext]_pageVars => DoubleWaiting'
<1> SUFFICES ASSUME DoubleWaiting, Numbering, [PageNext]_pageVars PROVE DoubleWaiting'
  OBVIOUS
<1>1. ASSUME UNCHANGED conversion PROVE DoubleWaiting'
  <2>1. kind' = kind /\ in' = in /\ at' = at /\ chars' = chars
    BY <1>1 DEF conversion
  <2> QED BY <2>1 DEF DoubleWaiting, Printable, DoubleRight, Rounds, Magnitude, Sign, Pointed
<1>2. CASE SplitPlaces \/ MergeStep \/ UNCHANGED pageVars
  BY <1>1, <1>2, Zenon DEF SplitPlaces, MergeStep, pageVars
<1>3. CASE Cvt!Start \/ Cvt!Lead \/ Cvt!Rest
  <2>1. kind # "double" /\ kind' = kind
    BY <1>3 DEF DoubleWaiting, Cvt!Start, Cvt!Lead, Cvt!Rest
  <2> QED BY <2>1 DEF DoubleWaiting
<1>4. CASE Cvt!ConvertDouble
  <2>1. kind = "double" /\ kind' = kind /\ in' = in /\ at' = "done"
    BY <1>4, Zenon DEF Cvt!ConvertDouble
  <2>2. chars' = DoubleText(Cvt!Abs(in), in)
    BY <1>4, Zenon DEF Cvt!ConvertDouble, DoubleText
  <2>3. in \in Int
    BY <2>1 DEF Numbering, InType
  <2>4. Cvt!Abs(in) = Magnitude(in)
    BY DEF Cvt!Abs, Magnitude
  <2>5. Printable(in) => DoubleRight(in, chars')
    BY <2>2, <2>3, <2>4, DoubleWritten
  <2>6. /\ Printable(in)' <=> Printable(in)
        /\ DoubleRight(in, chars)' <=> DoubleRight(in, chars')
    BY <2>1 DEF Printable, DoubleRight, Rounds, Magnitude, Sign, Pointed
  <2> QED BY <2>1, <2>5, <2>6 DEF DoubleWaiting
<1>5. CASE ConvertReturns
  <2>1. at' = "start"
    BY <1>5, Zenon DEF ConvertReturns
  <2> QED BY <2>1 DEF DoubleWaiting
<1> QED BY <1>2, <1>3, <1>4, <1>5 DEF PageNext, ConvertStep, Cvt!Next

LEMMA DoublesShow == DoubleWaiting /\ Numbering => DoublesRight
<1> DEFINE s == Cvt!Unsign(chars)
           point == CHOOSE d \in 1..Len(s) : s[d] = Cvt!Dot
           digits == SubSeq(s, 1, point - 1) \o SubSeq(s, point + 1, Len(s))
           frac == Len(digits) - (point - 1)
           unit == Cvt!Pow(10, Places - frac)
<1> SUFFICES ASSUME DoubleWaiting, Numbering, at = "done", kind = "double",
                    Cvt!Abs(in) >= Cvt!Pow(10, Places),
                    Cvt!Abs(in) < Cvt!Pow(2, IntBits) * Cvt!Pow(10, Places),
                    Cvt!Length(Cvt!Abs(in) \div Cvt!Pow(10, Places)) + Prec < DigPrec
             PROVE  /\ \E d \in 1..Len(s) : s[d] = Cvt!Dot
                    /\ Cvt!IsNumeral(digits)
                    /\ frac \in {Prec - 1, Prec}
                    /\ 2 * Cvt!Abs(Cvt!ValueOf(digits) * unit - Cvt!Abs(in)) <= unit
                    /\ (chars # s) <=> (in < 0)
  BY Zenon DEF DoublesRight, Cvt!DoublesRight
<1>1. in \in Int
  BY DEF Numbering, InType
<1>2. \A n : Cvt!Abs(n) = Magnitude(n)
  BY Zenon DEF Cvt!Abs, Magnitude
<1>3. Printable(in)
  <2>1. Cvt!Abs(in) = Magnitude(in) /\ Magnitude(in) \in Int
    BY <1>1 DEF Cvt!Abs, Magnitude
  <2>2. Cvt!Pow(10, Places) = Pow(10, Places) /\ Cvt!Pow(2, IntBits) = Pow(2, IntBits)
    BY ConvertNames, Zenon
  <2>3. Pow(10, Places) \in Nat
    BY Decimals, TenPower
  <2> QED BY <2>1, <2>2, <2>3 DEF Printable
<1>4. PICK g \in Seq(0..9) : \E dec \in 1..Len(g) :
            chars = Sign(in) \o Pointed(g, dec) /\ Rounds(in, g, dec)
  BY <1>3, Zenon DEF DoubleWaiting, DoubleRight
<1>5. PICK dec \in 1..Len(g) : chars = Sign(in) \o Pointed(g, dec) /\ Rounds(in, g, dec)
  BY <1>4, Zenon
<1>6. /\ point = dec + 1 /\ digits = g
      /\ \E d \in 1..Len(s) : s[d] = Cvt!Dot
      /\ (chars # s) <=> (in < 0)
  <2>1. in \in Int /\ chars = Sign(in) \o Pointed(g, dec)
    BY <1>1, <1>5
  <2>2. Separated(s, g, dec) /\ ((chars # s) <=> (in < 0))
    BY <2>1, PointedRead
  <2>3. Cvt!Dot = 10
    BY DEF Cvt!Dot
  <2> HIDE DEF s
  <2> QED BY <2>2, <2>3, Zenon DEF Separated
<1>7. frac = Len(g) - dec
  <2> HIDE DEF point, digits
  <2> QED BY <1>5, <1>6
<1>8. unit = Pow(10, Places - (Len(g) - dec)) /\ Cvt!ValueOf(digits) = ValueOf(g)
  BY <1>6, <1>7, ConvertNames, Zenon
<1>9. Cvt!IsNumeral(digits)
  <2>1. IsNumeral(g)
    BY <1>5 DEF IsNumeral
  <2> QED BY <1>6, <2>1, ConvertNames, Zenon
<1>10. 2 * Cvt!Abs(Cvt!ValueOf(digits) * unit - Cvt!Abs(in)) <= unit
  BY <1>2, <1>5, <1>8, Zenon DEF Rounds
<1>11. frac \in {Prec - 1, Prec}
  BY <1>5, <1>7 DEF Rounds
<1> QED BY <1>6, <1>9, <1>10, <1>11, Zenon

\* In exact arithmetic every double of at least one the client converts, its whole
\* part an unsigned int, is written as the decimal numeral next to it with the
\* decimals asked for, or one fewer where a nine was carried over the point, as long
\* as the digits asked for are fewer than _cvt picks off (convert.cc:141, 191-214,
\* 236-247).
THEOREM DoublesRounded == PageSpec => []DoublesRight
<1>1. PageInit => DoubleWaiting
  BY DEF PageInit, Cvt!Init, DoubleWaiting
<1> QED BY <1>1, SendingInit, NumberNext, SendingNext, DoubleNext, DoublesShow, PTL DEF PageSpec

-----------------------------------------------------------------------------
(* The types *)

Leads(i) == \A j \in 1..i : file[j].kind = "len"

Put == [kind : {"text"}, from : Nat, to : Nat] \cup [kind : {"value"}, n : Nat]
       \cup [kind : {"junk"}]

\* A file begins with no more lengths than there are variables, so the client, which
\* takes what is before the last length for lengths, never counts past them.
Typing ==
    /\ TypeOK
    /\ \A i \in 0..Len(file) : Leads(i) => i <= IF stage = "split" THEN k ELSE Variables
    /\ stage = "merge" => WellFormed(file)
    /\ stage \in {"split", "close"} => sockets = 0
    /\ stage = "connecting" => tried < Addresses
    /\ out \in Seq(Put)

LEMMA ItemTypes ==
    ASSUME NEW n \in Nat
    PROVE  /\ Item("len", n) \in Items /\ Item("last", n) \in Items
           /\ Text(n) \in Seq(Items) /\ Len(Text(n)) \in 0..1
           /\ \A i \in 1..Len(Text(n)) : Text(n)[i].kind = "text"
<1>1. Item("len", n) \in Items /\ Item("last", n) \in Items /\ Item("text", n) \in Items
  BY DEF Item, Items
<1>2. Item("text", n).kind = "text"
  BY DEF Item
<1> DEFINE t == Item("text", n)
<1> HIDE DEF t
<1>3. Text(n) = IF n = 0 THEN <<>> ELSE <<t>>
  BY DEF Text, t
<1>4. t \in Items /\ t.kind = "text"
  BY <1>1, <1>2 DEF t
<1> QED BY <1>1, <1>3, <1>4

\* What is behind in the buffer when whole blocks of it were written.
LEMMA Buffered ==
    ASSUME NEW S \in Nat \ {0}, NEW b \in 0..S, NEW n \in Nat
    PROVE  LET f == IF b + n <= S THEN 0 ELSE ((b + n) \div S) * S
           IN  f \in Nat /\ b + n - f \in 0..S
<1> DEFINE m == b + n
           q == m \div S
<1>1. m \in Nat
  OBVIOUS
<1> HIDE DEF m
<1>2. q \in Nat /\ S * q <= m /\ m < S * q + S
  BY <1>1, DivBounds
<1> HIDE DEF q
<1>3. q * S = S * q /\ q * S \in Nat
  BY <1>2
<1>4. m - q * S \in 0..S
  BY <1>1, <1>2, <1>3
<1>5. m <= S => m - 0 \in 0..S
  BY <1>1
<1> QED BY <1>3, <1>4, <1>5 DEF m, q

LEMMA FlushedTypes ==
    ASSUME pending \in 0..StdioSize, NEW n \in Nat, Fprintf(n)
    PROVE  Flushed(n) \in Nat /\ pending' \in 0..StdioSize
<1>1. StdioSize \in Nat \ {0}
  BY DataMergeAssumption
<1> QED BY <1>1, Buffered DEF Flushed, Fprintf

\* A length and what follows it.
LEMMA LeadsOn ==
    ASSUME NEW f \in Seq(Items), NEW e \in Items, NEW t \in Seq(Items), NEW m \in Nat,
           \A i \in 1..Len(t) : t[i].kind = "text",
           \A i \in 0..Len(f) : (\A j \in 1..i : f[j].kind = "len") => i <= m
    PROVE  \A i \in 0..Len(f \o <<e>> \o t) :
              (\A j \in 1..i : (f \o <<e>> \o t)[j].kind = "len") => i <= m + 1
<1> DEFINE g == f \o <<e>> \o t
           F == Len(f)
<1>1. /\ g \in Seq(Items) /\ Len(g) = F + 1 + Len(t) /\ F \in Nat /\ Len(t) \in Nat
      /\ \A j \in 1..F : g[j] = f[j]
      /\ \A j \in 1..Len(t) : g[F + 1 + j] = t[j]
  OBVIOUS
<1> HIDE DEF g
<1>2. ASSUME NEW i \in 0..Len(g), \A j \in 1..i : g[j].kind = "len" PROVE i <= m + 1
  <2>1. CASE i <= F
    <3>1. i \in 0..F /\ \A j \in 1..i : j \in 1..F
      BY <1>1, <2>1
    <3>2. \A j \in 1..i : f[j].kind = "len"
      BY <1>1, <1>2, <3>1
    <3> QED BY <1>1, <3>1, <3>2
  <2>2. CASE i = F + 1
    <3>1. F \in 0..F /\ \A j \in 1..F : j \in 1..i
      BY <1>1, <2>2
    <3>2. \A j \in 1..F : f[j].kind = "len"
      BY <1>1, <1>2, <3>1
    <3>3. F <= m
      BY <3>1, <3>2
    <3> QED BY <1>1, <2>2, <3>3
  <2>3. CASE i > F + 1
    <3>1. F + 1 + 1 \in 1..i /\ 1 \in 1..Len(t)
      BY <1>1, <2>3
    <3>2. g[F + 1 + 1].kind = "text"
      BY <1>1, <3>1
    <3> QED BY <1>2, <3>1, <3>2
  <2> QED BY <1>1, <2>1, <2>2, <2>3
<1> QED BY <1>2 DEF g

\* And what is behind what is no length.
LEMMA LeadsStay ==
    ASSUME NEW f \in Seq(Items), NEW t \in Seq(Items), NEW m \in Nat,
           \A i \in 1..Len(t) : t[i].kind # "len",
           \A i \in 0..Len(f) : (\A j \in 1..i : f[j].kind = "len") => i <= m
    PROVE  \A i \in 0..Len(f \o t) : (\A j \in 1..i : (f \o t)[j].kind = "len") => i <= m
<1> DEFINE g == f \o t
           F == Len(f)
<1>1. /\ g \in Seq(Items) /\ Len(g) = F + Len(t) /\ F \in Nat /\ Len(t) \in Nat
      /\ \A j \in 1..F : g[j] = f[j]
      /\ \A j \in 1..Len(t) : g[F + j] = t[j]
  OBVIOUS
<1> HIDE DEF g
<1>2. ASSUME NEW i \in 0..Len(g), \A j \in 1..i : g[j].kind = "len" PROVE i <= m
  <2>1. CASE i <= F
    <3>1. i \in 0..F /\ \A j \in 1..i : j \in 1..F
      BY <1>1, <2>1
    <3>2. \A j \in 1..i : f[j].kind = "len"
      BY <1>1, <1>2, <3>1
    <3> QED BY <1>1, <3>1, <3>2
  <2>2. CASE i > F
    <3>1. F + 1 \in 1..i /\ 1 \in 1..Len(t)
      BY <1>1, <2>2
    <3>2. g[F + 1].kind # "len"
      BY <1>1, <3>1
    <3> QED BY <1>2, <3>1, <3>2
  <2> QED BY <1>1, <2>1, <2>2
<1> QED BY <1>2 DEF g

LEMMA TypingInit == Init => Typing
<1> SUFFICES ASSUME Init PROVE Typing
  OBVIOUS
<1>1. Variables \in Nat
  BY TemplateTypes DEF Init
<1>2. StdioSize \in Nat /\ Values \in Nat /\ Addresses \in Nat
  BY DataMergeAssumption
<1>3. file = <<>> /\ <<>> \in Seq(Items) /\ Len(file) = 0
  BY DEF Init
<1>4. out = <<>> /\ <<>> \in Seq(Put) /\ Len(out) = 0
  BY DEF Init
<1> QED BY <1>1, <1>2, <1>3, <1>4 DEF Init, Typing, TypeOK

LEMMA TypingVariable == Typing /\ SplitVariable => Typing'
<1> SUFFICES ASSUME Typing, SplitVariable PROVE Typing'
  OBVIOUS
<1> DEFINE n == tmpl.pre[k + 1]
           b == Flushed(n)
           e == Item("len", n)
<1>1. TypeOK /\ stage = "split" /\ k < Variables
  BY DEF Typing, SplitVariable
<1>2. /\ file' = file \o <<e>> \o Text(b) /\ Fprintf(n) /\ k' = k + 1
      /\ UNCHANGED <<tmpl, stage, tried, sockets, received, auxv, text, out>>
  BY DEF SplitVariable
<1>3. /\ Variables \in Nat /\ k \in 0..Variables /\ n \in Nat /\ k + 1 \in 0..Variables
      /\ pending \in 0..StdioSize /\ file \in Seq(Items)
  <2>1. tmpl \in Templates /\ k \in 0..Variables /\ pending \in 0..StdioSize /\ file \in Seq(Items)
    BY <1>1 DEF TypeOK
  <2>2. Variables \in Nat /\ \A i \in 1..Variables : tmpl.pre[i] \in Nat
    BY <2>1, TemplateTypes
  <2>3. k + 1 \in 1..Variables
    BY <1>1, <2>1, <2>2
  <2> QED BY <2>1, <2>2, <2>3
<1>4. b \in Nat /\ pending' \in 0..StdioSize
  <2> HIDE DEF n
  <2> QED BY <1>2, <1>3, FlushedTypes
<1> HIDE DEF n, b, e
<1>5. e \in Items /\ Text(b) \in Seq(Items) /\ \A i \in 1..Len(Text(b)) : Text(b)[i].kind = "text"
  BY <1>3, <1>4, ItemTypes DEF e
<1> DEFINE t == Text(b)
<1> HIDE DEF t
<1>6. t \in Seq(Items) /\ file' = file \o <<e>> \o t /\ \A i \in 1..Len(t) : t[i].kind = "text"
  BY <1>2, <1>5 DEF t
<1>7. file' \in Seq(Items)
  BY <1>3, <1>5, <1>6
<1>8. \A i \in 0..Len(file) : (\A j \in 1..i : file[j].kind = "len") => i <= k
  BY <1>1 DEF Typing, Leads
<1>9. \A i \in 0..Len(file') : (\A j \in 1..i : file'[j].kind = "len") => i <= k + 1
  <2> DEFINE g == file \o <<e>> \o t
  <2>1. k \in Nat
    BY <1>3
  <2>2. \A i \in 0..Len(g) : (\A j \in 1..i : g[j].kind = "len") => i <= k + 1
    BY <1>3, <1>5, <1>6, <1>8, <2>1, LeadsOn
  <2> HIDE DEF g
  <2>3. file' = g
    BY <1>6 DEF g
  <2> QED BY <2>2, <2>3
<1>10. TypeOK'
  BY <1>1, <1>2, <1>3, <1>4, <1>7 DEF TypeOK, Variables
<1>11. sockets' = 0
  BY <1>1, <1>2 DEF Typing
<1> QED BY <1>1, <1>2, <1>9, <1>10, <1>11 DEF Typing, Leads

LEMMA TypingRest == Typing /\ SplitRest => Typing'
<1> SUFFICES ASSUME Typing, SplitRest PROVE Typing'
  OBVIOUS
<1> DEFINE n == tmpl.rest
           b == Flushed(n)
           e == Item("last", n)
<1>1. TypeOK /\ stage = "split" /\ k = Variables
  BY DEF Typing, SplitRest
<1>2. /\ stage' = "close"
      /\ UNCHANGED <<tmpl, k, tried, sockets, received, auxv, text, out>>
  BY DEF SplitRest
<1>3. /\ Variables \in Nat /\ n \in Nat
      /\ pending \in 0..StdioSize /\ file \in Seq(Items)
  BY <1>1, TemplateTypes DEF TypeOK
<1>4. \A i \in 0..Len(file) : (\A j \in 1..i : file[j].kind = "len") => i <= Variables
  BY <1>1 DEF Typing, Leads
<1>5. ASSUME k # 0
      PROVE  /\ file' \in Seq(Items) /\ pending' \in 0..StdioSize
             /\ \A i \in 0..Len(file') : (\A j \in 1..i : file'[j].kind = "len") => i <= Variables
  <2>1. file' = file \o Text(b) \o <<e>> /\ Fprintf(n)
    BY <1>5 DEF SplitRest
  <2> HIDE DEF n
  <2>2. b \in Nat /\ pending' \in 0..StdioSize
    BY <1>3, <2>1, FlushedTypes
  <2>3. e \in Items /\ e.kind = "last"
    BY <1>3, ItemTypes DEF Item
  <2> DEFINE x == Text(b)
  <2> HIDE DEF b, e
  <2>4. x \in Seq(Items) /\ \A i \in 1..Len(x) : x[i].kind = "text"
    BY <2>2, ItemTypes
  <2> HIDE DEF x
  <2> DEFINE t == x \o <<e>>
  <2>5. t \in Seq(Items) /\ Len(t) = Len(x) + 1 /\ Len(x) \in Nat
        /\ (\A i \in 1..Len(x) : t[i] = x[i]) /\ t[Len(x) + 1] = e
    BY <2>3, <2>4
  <2> HIDE DEF t
  <2>6. \A i \in 1..Len(t) : t[i].kind # "len"
    <3>1. \A i \in 1..Len(t) : i \in 1..Len(x) \/ i = Len(x) + 1
      BY <2>5
    <3> QED BY <2>3, <2>4, <2>5, <3>1
  <2>7. file' = file \o t
    <3>1. file' = file \o x \o <<e>>
      BY <2>1 DEF x
    <3> QED BY <1>3, <2>3, <2>4, <3>1 DEF t
  <2> DEFINE g == file \o t
  <2>8. g \in Seq(Items)
    BY <1>3, <2>5
  <2>9. \A i \in 0..Len(g) : (\A j \in 1..i : g[j].kind = "len") => i <= Variables
    BY <1>3, <1>4, <2>5, <2>6, LeadsStay
  <2> HIDE DEF g
  <2>10. file' = g
    BY <2>7 DEF g
  <2> QED BY <2>2, <2>8, <2>9, <2>10
<1>6. k = 0 => file' = file /\ pending' = pending
  BY DEF SplitRest
<1>7. /\ file' \in Seq(Items) /\ pending' \in 0..StdioSize
      /\ \A i \in 0..Len(file') : (\A j \in 1..i : file'[j].kind = "len") => i <= Variables
  <2>1. CASE k = 0
    BY <1>3, <1>4, <1>6, <2>1
  <2> QED BY <1>5, <2>1
<1>8. Variables' = Variables
  BY <1>2 DEF Variables
<1>9. TypeOK'
  BY <1>1, <1>2, <1>7, <1>8 DEF TypeOK
<1>10. sockets' = 0
  BY <1>1, <1>2 DEF Typing
<1> QED BY <1>2, <1>7, <1>8, <1>9, <1>10 DEF Typing, Leads

LEMMA TypingClosed == Typing /\ CloseFile => Typing'
<1> SUFFICES ASSUME Typing, CloseFile PROVE Typing'
  OBVIOUS
<1>1. TypeOK /\ stage = "close" /\ sockets = 0 /\ stage' = "connect" /\ k' = 0 /\ pending' = 0
      /\ file' = file \o Text(pending)
      /\ UNCHANGED <<tmpl, tried, sockets, received, auxv, text, out>>
  BY DEF Typing, CloseFile
<1>2. Variables \in Nat /\ pending \in Nat /\ file \in Seq(Items) /\ StdioSize \in Nat
  BY <1>1, TemplateTypes, DataMergeAssumption DEF TypeOK
<1> DEFINE t == Text(pending)
           g == file \o t
<1>3. t \in Seq(Items) /\ \A i \in 1..Len(t) : t[i].kind = "text"
  BY <1>2, ItemTypes
<1> HIDE DEF t
<1>4. \A i \in 0..Len(file) : (\A j \in 1..i : file[j].kind = "len") => i <= Variables
  BY <1>1 DEF Typing, Leads
<1>5. g \in Seq(Items)
  BY <1>2, <1>3
<1>6. \A i \in 0..Len(g) : (\A j \in 1..i : g[j].kind = "len") => i <= Variables
  <2>1. \A i \in 1..Len(t) : t[i].kind # "len"
    BY <1>3
  <2> QED BY <1>2, <1>3, <1>4, <2>1, LeadsStay
<1> HIDE DEF g
<1>7. file' = g
  BY <1>1 DEF g, t
<1>8. Variables' = Variables
  BY <1>1 DEF Variables
<1>9. TypeOK'
  BY <1>1, <1>2, <1>5, <1>7, <1>8 DEF TypeOK
<1> QED BY <1>1, <1>6, <1>7, <1>8, <1>9 DEF Typing, Leads

\* The client's count of the digits is a number.
Size(f, m) == IF m < 10 THEN 1 ELSE IF m < 100 THEN 2 ELSE IF m < 1000 THEN 3 ELSE 3 * f[m \div 1000]

LEMMA Thousandth ==
    ASSUME NEW m \in Nat, m >= 1000
    PROVE  m \div 1000 \in Nat /\ m \div 1000 < m
<1> DEFINE q == m \div 1000
<1>1. q \in Nat /\ 1000 * q <= m
  BY DivBounds
<1> HIDE DEF q
<1>2. q < m
  BY <1>1
<1> QED BY <1>1, <1>2 DEF q

LEMMA SizeSame ==
    ASSUME NEW m \in Nat, NEW f, NEW g, \A j \in 0..(m - 1) : f[j] = g[j]
    PROVE  Size(f, m) = Size(g, m)
<1>1. CASE m < 1000
  BY <1>1 DEF Size
<1>2. CASE m >= 1000
  <2>1. m \div 1000 \in 0..(m - 1)
    BY <1>2, Thousandth
  <2> QED BY <1>2, <2>1 DEF Size
<1> QED BY <1>1, <1>2

LEMMA SizeSome ==
    ASSUME NEW n \in Nat
    PROVE  \E f : f = [m \in 0..n |-> Size(f, m)]
<1> DEFINE T == {k1 \in Nat : \E f : f = [m \in 0..k1 |-> Size(f, m)]}
<1>1. 0 \in T
  <2> DEFINE f == [m \in 0..0 |-> 1]
  <2>1. \A m \in 0..0 : Size(f, m) = 1
    BY DEF Size
  <2>2. f = [m \in 0..0 |-> Size(f, m)]
    <3> HIDE DEF f
    <3>1. f = [m \in 0..0 |-> 1]
      BY DEF f
    <3> QED BY <2>1, <3>1
  <2> HIDE DEF f
  <2>3. \E g : g = [m \in 0..0 |-> Size(g, m)]
    BY <2>2, Zenon
  <2> QED BY <2>3
<1>2. ASSUME NEW k1 \in Nat, k1 \in T PROVE k1 + 1 \in T
  <2>1. PICK f : f = [m \in 0..k1 |-> Size(f, m)]
    BY <1>2
  <2> DEFINE new == Size(f, k1 + 1)
             g == [m \in 0..(k1 + 1) |-> IF m = k1 + 1 THEN new ELSE f[m]]
  <2>2. \A m \in 0..k1 : g[m] = f[m] /\ m # k1 + 1 /\ m \in 0..(k1 + 1)
    OBVIOUS
  <2>3. g[k1 + 1] = new
    OBVIOUS
  <2>4. \A m \in 0..k1 : f[m] = Size(f, m)
    BY <2>1, Zenon
  <2>5. g = [m \in 0..(k1 + 1) |-> g[m]]
    OBVIOUS
  <2> HIDE DEF g
  <2>6. \A m \in 0..(k1 + 1) : g[m] = Size(g, m)
    <3> TAKE m \in 0..(k1 + 1)
    <3>1. m \in Nat /\ \A j \in 0..(m - 1) : j \in 0..k1
      OBVIOUS
    <3>2. Size(g, m) = Size(f, m)
      <4>1. \A j \in 0..(m - 1) : g[j] = f[j]
        BY <2>2, <3>1
      <4> QED BY <3>1, <4>1, SizeSame
    <3>3. m = k1 + 1 \/ m \in 0..k1
      OBVIOUS
    <3> QED BY <2>2, <2>3, <2>4, <3>2, <3>3
  <2>7. g = [m \in 0..(k1 + 1) |-> Size(g, m)]
    BY <2>5, <2>6
  <2>8. \E h : h = [m \in 0..(k1 + 1) |-> Size(h, m)]
    BY <2>7, Zenon
  <2> QED BY <2>8
<1>3. n \in T
  <2> HIDE DEF T
  <2> QED BY <1>1, <1>2, Inductive
<1> QED BY <1>3

LEMMA NumbersizeType == ASSUME NEW n \in Nat PROVE Numbersize(n) \in Nat
<1> DEFINE abs == IF n < 0 THEN -n ELSE n
           F(f) == [m \in 0..abs |-> Size(f, m)]
           s == CHOOSE h : h = F(h)
<1>1. Numbersize(n) = s[abs]
  BY Zenon DEF Numbersize, Size
<1>2. abs = n
  OBVIOUS
<1> HIDE DEF abs
<1>3. s = F(s)
  <2>1. \E f : f = F(f)
    BY <1>2, SizeSome
  <2> HIDE DEF F
  <2> QED BY <2>1, Zenon
<1> HIDE DEF s
<1>4. \A m \in 0..n : s[m] = Size(s, m)
  BY <1>2, <1>3, Zenon
<1> HIDE DEF F
<1> DEFINE T == {m \in Nat : \A j \in 0..m : j <= n => s[j] \in Nat}
<1>5. 0 \in T
  <2>1. s[0] = 1
    BY <1>4 DEF Size
  <2> QED BY <2>1
<1>6. ASSUME NEW m \in Nat, m \in T PROVE m + 1 \in T
  <2>1. ASSUME m + 1 <= n PROVE s[m + 1] \in Nat
    <3>1. s[m + 1] = Size(s, m + 1)
      BY <1>4, <2>1
    <3>2. CASE m + 1 < 1000
      BY <3>1, <3>2 DEF Size
    <3>3. CASE m + 1 >= 1000
      <4> DEFINE q == (m + 1) \div 1000
      <4>1. q \in Nat /\ q < m + 1
        BY <3>3, Thousandth
      <4>2. s[m + 1] = 3 * s[q]
        BY <3>1, <3>3 DEF Size
      <4> HIDE DEF q
      <4>3. q \in 0..m /\ q <= n
        BY <2>1, <4>1
      <4>4. s[q] \in Nat
        BY <1>6, <4>3
      <4> QED BY <4>2, <4>4
    <3> QED BY <3>2, <3>3
  <2>2. \A j \in 0..(m + 1) : j = m + 1 \/ j \in 0..m
    OBVIOUS
  <2> QED BY <1>6, <2>1, <2>2
<1>7. n \in T
  <2> HIDE DEF T
  <2> QED BY <1>5, <1>6, Inductive
<1> QED BY <1>1, <1>2, <1>7

\* The header the client follows: the items up to the last length.
LEMMA HeaderTypes ==
    ASSUME Typing, stage = "merge"
    PROVE  /\ Len(Header) \in 1..(Variables + 1) /\ DOMAIN Header = 1..Len(Header)
           /\ \A i \in 1..Len(Header) : Header[i].n \in Nat
<1> DEFINE c == CHOOSE i \in 1..Len(file) : file[i].kind = "last"
<1>1. /\ file \in Seq(Items) /\ WellFormed(file) /\ Variables \in Nat
      /\ \A i \in 0..Len(file) : Leads(i) => i <= Variables
  BY TemplateTypes DEF Typing, TypeOK
<1>2. PICK i \in 1..Len(file) : /\ file[i].kind = "last"
                                /\ \A j \in 1..(i - 1) : file[j].kind = "len"
                                /\ \A j \in (i + 1)..Len(file) : file[j].kind = "text"
  BY <1>1 DEF WellFormed
<1>3. c \in 1..Len(file) /\ file[c].kind = "last"
  BY <1>2, Zenon
<1>4. Header = SubSeq(file, 1, c)
  BY Zenon DEF Header
<1> HIDE DEF c
<1>5. c = i
  <2>1. ~(c < i) /\ ~(c > i)
    <3>1. Len(file) \in Nat
      BY <1>1
    <3>2. c < i => c \in 1..(i - 1)
      BY <1>3, <3>1
    <3>3. c > i => c \in (i + 1)..Len(file)
      BY <1>2, <1>3, <3>1
    <3> QED BY <1>2, <1>3, <3>2, <3>3
  <2> QED BY <1>3, <2>1
<1>6. /\ Len(Header) = c /\ DOMAIN Header = 1..c /\ \A j \in 1..c : Header[j] = file[j]
      /\ c \in Nat /\ \A j \in 1..c : file[j] \in Items
  <2>1. c \in Nat /\ 1..c \subseteq 1..Len(file) /\ \A j \in 1..Len(file) : file[j] \in Items
    BY <1>1, <1>3
  <2>2. Header = [j \in 1..c |-> file[j]]
    BY <1>1, <1>4, <2>1
  <2> QED BY <2>1, <2>2
<1>7. c - 1 <= Variables
  <2>1. Leads(c - 1) /\ c - 1 \in 0..Len(file)
    BY <1>1, <1>2, <1>3, <1>5 DEF Leads
  <2> QED BY <1>1, <2>1
<1>8. \A j \in 1..c : Header[j].n \in Nat
  BY <1>6 DEF Items
<1>9. c \in 1..(Variables + 1)
  BY <1>1, <1>3, <1>6, <1>7
<1> QED BY <1>6, <1>8, <1>9

\* Whatever the client reads there is an integer.
LEMMA ReadType ==
    ASSUME Typing, stage = "merge", NEW pos \in Nat
    PROVE  ReadAt(pos) \in Int
<1> DEFINE last == Len(Header)
           here == {x \in 1..(last - 1) : StartOf(x) <= pos /\ pos < StartOf(x) + Digits(Header[x].n)}
           the == CHOOSE x \in here : TRUE
           next == {x \in 1..last : StartOf(x) >= pos}
           w == [j \in DOMAIN Header |-> Digits(Header[j].n) + 1]
<1>1. /\ last \in Nat \ {0} /\ DOMAIN Header = 1..last
      /\ \A i \in 1..last : Header[i].n \in Nat
  <2>1. Variables \in Nat
    BY TemplateTypes DEF Typing, TypeOK
  <2> QED BY <2>1, HeaderTypes
<1>2. ReadAt(pos) =
        IF here # {} THEN Header[the].n % Pow(10, Digits(Header[the].n) - (pos - StartOf(the)))
        ELSE IF next = {} THEN -1
        ELSE IF Min(next) = last THEN -Header[last].n ELSE Header[Min(next)].n
  BY Zenon DEF ReadAt
<1>3. \A i \in 1..last : StartOf(i) \in Nat
  <2> TAKE i \in 1..last
  <2>1. StartOf(i) = SumTo(w, i - 1)
    BY Zenon DEF StartOf
  <2>2. i - 1 \in Nat /\ \A j \in 1..(i - 1) : j \in 1..last
    BY <1>1
  <2>3. \A j \in 1..last : Digits(Header[j].n) \in 1..10
    BY <1>1, DigitsBound, Zenon
  <2>4. \A j \in 1..last : w[j] = Digits(Header[j].n) + 1
    BY <1>1
  <2> HIDE DEF w
  <2>5. \A j \in 1..last : w[j] \in Nat
    BY <2>3, <2>4
  <2> QED BY <2>1, <2>2, <2>5, SumType
<1>4. CASE here # {}
  <2>1. the \in here
    BY <1>4
  <2> DEFINE d == Digits(Header[the].n)
             left1 == d - (pos - StartOf(the))
             n == Header[the].n
  <2>2. /\ the \in 1..(last - 1) /\ StartOf(the) <= pos /\ pos < StartOf(the) + d
    BY <2>1
  <2> HIDE DEF the, here, last
  <2>3. the \in 1..last
    BY <1>1, <2>2
  <2>4. StartOf(the) \in Nat /\ n \in Nat /\ d \in Nat
    <3>1. d \in 1..10
      BY DigitsBound, Zenon
    <3>2. StartOf(the) \in Nat /\ n \in Nat
      BY <1>1, <1>3, <2>3, Zenon
    <3> QED BY <3>1, <3>2
  <2>5. left1 \in Nat
    <3> HIDE DEF d
    <3> QED BY <2>2, <2>4
  <2>6. Pow(10, left1) \in Nat \ {0}
    <3> HIDE DEF left1
    <3> QED BY <2>5, TenPower
  <2> DEFINE p == Pow(10, left1)
  <2>7. ReadAt(pos) = n % p
    BY <1>2, <1>4, Zenon
  <2> HIDE DEF n, p, left1, d
  <2>8. p \in Nat \ {0}
    BY <2>6 DEF p
  <2>9. n % p \in Nat
    BY <2>4, <2>8
  <2> QED BY <2>7, <2>9
<1>5. CASE here = {} /\ next # {}
  <2>1. PICK x \in next : \A y \in next : x <= y
    <3>1. next \in SUBSET Nat
      BY <1>1
    <3> HIDE DEF next
    <3> QED BY <1>5, <3>1, Least
  <2>2. Min(next) \in next
    <3> HIDE DEF next
    <3> QED BY <2>1, Zenon DEF Min
  <2>3. Min(next) \in 1..last
    BY <2>2
  <2>4. Header[last].n \in Nat /\ Header[Min(next)].n \in Nat
    <3>1. last \in 1..last
      BY <1>1
    <3> HIDE DEF next, last
    <3> QED BY <1>1, <2>3, <3>1
  <2>5. ReadAt(pos) = -Header[last].n \/ ReadAt(pos) = Header[Min(next)].n
    BY <1>2, <1>5, Zenon
  <2> HIDE DEF next, last
  <2> QED BY <2>4, <2>5
<1>6. CASE here = {} /\ next = {}
  BY <1>2, <1>6
<1> QED BY <1>4, <1>5, <1>6

LEMMA TypingConnects ==
    Typing /\ (OpenSocket \/ Refused \/ Connected \/ Dies \/ Unasked \/ ReadMessage) => Typing'
<1> SUFFICES ASSUME Typing,
                    OpenSocket \/ Refused \/ Connected \/ Dies \/ Unasked \/ ReadMessage
             PROVE  Typing'
  OBVIOUS
<1>1. TypeOK /\ stage \in {"connect", "connecting", "read"} /\ stage' \notin {"split", "close"}
  BY DEF Typing, OpenSocket, Refused, Connected, Dies, Unasked, ReadMessage
<1>2. UNCHANGED <<tmpl, k, file, pending, auxv, text, out>>
  BY DEF OpenSocket, Refused, Connected, Dies, Unasked, ReadMessage, Waiting
<1>3. stage' = "merge" => WellFormed(file)
  BY <1>1 DEF OpenSocket, Refused, Connected, Dies, Unasked, ReadMessage
<1>4. Addresses \in Nat /\ Values \in Nat
  BY DataMergeAssumption
<1>5. TypeOK'
  <2>1. Variables' = Variables
    BY <1>2 DEF Variables
  <2>2. CASE OpenSocket
    BY <1>1, <1>2, <1>4, <2>1, <2>2 DEF TypeOK, OpenSocket, Waiting
  <2>3. CASE Refused
    BY <1>1, <1>2, <1>4, <2>1, <2>3 DEF Typing, TypeOK, Refused, Waiting
  <2>4. CASE Connected
    BY <1>1, <1>2, <1>4, <2>1, <2>4 DEF TypeOK, Connected, Waiting
  <2>5. CASE Dies
    BY <1>1, <1>2, <1>4, <2>1, <2>5 DEF TypeOK, Dies, Waiting
  <2>6. CASE Unasked
    BY <1>1, <1>2, <1>4, <2>1, <2>6 DEF TypeOK, Unasked, Waiting
  <2>7. CASE ReadMessage
    BY <1>1, <1>2, <1>4, <2>1, <2>7 DEF TypeOK, ReadMessage
  <2> QED BY <2>2, <2>3, <2>4, <2>5, <2>6, <2>7
<1>6. \A i \in 0..Len(file)' : Leads(i)' => i <= Variables'
  BY <1>1, <1>2 DEF Typing, Leads, Variables
<1>7. WellFormed(file)' <=> WellFormed(file)
  BY <1>2 DEF WellFormed
<1>8. stage' = "connecting" => tried' < Addresses
  BY <1>1 DEF OpenSocket, Refused, Connected, Dies, Unasked, ReadMessage
<1> QED BY <1>1, <1>2, <1>3, <1>5, <1>6, <1>7, <1>8 DEF Typing

LEMMA PutTypes ==
    ASSUME NEW n \in Nat, text \in Nat, NEW m \in Nat
    PROVE  TextOut(n) \in Put /\ \A v \in Converted(m) : v \in Seq(Put)
<1>1. TextOut(n) \in Put /\ ValueOut(m) \in Put /\ Junk \in Put
  BY DEF TextOut, ValueOut, Junk, Put
<1> DEFINE a == ValueOut(m)
           b == Junk
<1>2. Converted(m) = IF m <= received THEN {<<a>>} ELSE {<<>>, <<b>>}
  BY DEF Converted
<1>3. a \in Put /\ b \in Put
  BY <1>1
<1> HIDE DEF a, b
<1>4. <<a>> \in Seq(Put) /\ <<b>> \in Seq(Put) /\ <<>> \in Seq(Put)
  BY <1>3
<1> QED BY <1>1, <1>2, <1>4

LEMMA PutKinds ==
    ASSUME NEW o \in Seq(Put)
    PROVE  \A i \in 1..Len(o) : o[i].kind \in {"text", "value", "junk"}
<1>1. \A p \in Put : p.kind \in {"text", "value", "junk"}
  BY DEF Put
<1>2. \A i \in 1..Len(o) : o[i] \in Put
  OBVIOUS
<1> QED BY <1>1, <1>2, Zenon

\* What a step of the merging leaves as it is.
LEMMA TypingGoesOn ==
    ASSUME Typing, stage = "merge", stage' \in {"merge", "lost", "done"},
           UNCHANGED <<tmpl, file, pending, tried, received>>,
           stage' = "merge" => sockets' = 1, stage' = "done" => sockets' = 0, sockets' \in 0..1,
           k' \in 0..Variables, auxv' \in Nat, text' \in Nat, out' \in Seq(Put)
    PROVE  Typing'
<1>1. Variables' = Variables /\ (WellFormed(file)' <=> WellFormed(file))
  BY DEF Variables, WellFormed
<1>2. TypeOK'
  BY <1>1, PutKinds DEF Typing, TypeOK
<1>3. \A i \in 0..Len(file)' : Leads(i)' => i <= Variables'
  BY <1>1 DEF Typing, Leads
<1> QED BY <1>1, <1>2, <1>3 DEF Typing

LEMMA TypingMerge == Typing /\ (MergeVariable \/ MergeDies \/ MergeRest) => Typing'
<1> SUFFICES ASSUME Typing, MergeVariable \/ MergeDies \/ MergeRest PROVE Typing'
  OBVIOUS
<1> DEFINE n == ReadAt(auxv)
<1>1. /\ stage = "merge" /\ sockets = 1 /\ k \in 0..Variables /\ Variables \in Nat
      /\ auxv \in Nat /\ text \in Nat /\ out \in Seq(Put)
  BY TemplateTypes DEF Typing, TypeOK, MergeVariable, MergeDies, MergeRest
<1>2. n \in Int /\ Len(Header) \in 1..(Variables + 1)
  BY <1>1, ReadType, HeaderTypes
<1>3. CASE MergeVariable
  <2>1. /\ k < Len(Header) - 1 /\ n >= 0
        /\ k' = k + 1 /\ auxv' = auxv + Numbersize(n) + 1 /\ text' = text + n
        /\ \E v \in Converted(k + 1) : out' = out \o <<TextOut(n)>> \o v
        /\ UNCHANGED <<tmpl, stage, file, pending, tried, sockets, received>>
    BY <1>3 DEF MergeVariable
  <2> HIDE DEF n
  <2>2. n \in Nat /\ k + 1 \in Nat /\ k + 1 \in 0..Variables
    BY <1>1, <1>2, <2>1
  <2>3. Numbersize(n) \in Nat
    BY <2>2, NumbersizeType
  <2>4. out' \in Seq(Put)
    <3>1. PICK v \in Converted(k + 1) : out' = out \o <<TextOut(n)>> \o v
      BY <2>1
    <3> DEFINE e == TextOut(n)
    <3>2. e \in Put /\ v \in Seq(Put)
      BY <1>1, <2>2, PutTypes
    <3> HIDE DEF e
    <3>3. out \o <<e>> \o v \in Seq(Put)
      BY <1>1, <3>2
    <3> QED BY <3>1, <3>3 DEF e
  <2>5. auxv' \in Nat /\ text' \in Nat
    BY <1>1, <2>1, <2>2, <2>3
  <2> QED BY <1>1, <2>1, <2>2, <2>4, <2>5, TypingGoesOn
<1>4. CASE MergeDies
  <2>1. /\ stage' = "lost" /\ UNCHANGED <<tmpl, k, file, pending, tried, sockets, received, auxv, text>>
        /\ out' = out \/ (n >= 0 /\ out' = Append(out, TextOut(n)))
    BY <1>4 DEF MergeDies
  <2> HIDE DEF n
  <2>2. out' \in Seq(Put)
    <3>1. CASE out' = out
      BY <1>1, <3>1
    <3>2. CASE n >= 0 /\ out' = Append(out, TextOut(n))
      <4>1. TextOut(n) \in Put
        BY <1>1, <1>2, <3>2, PutTypes
      <4> QED BY <1>1, <3>2, <4>1, AppendTo
    <3> QED BY <2>1, <3>1, <3>2
  <2> QED BY <1>1, <2>1, <2>2, TypingGoesOn
<1>5. CASE MergeRest
  <2> DEFINE m == IF n < 0 THEN -n ELSE n
  <2>1. /\ stage' = "done" /\ sockets' = sockets - 1 /\ out' = Append(out, TextOut(m))
        /\ UNCHANGED <<tmpl, k, file, pending, tried, received, auxv, text>>
    BY <1>5 DEF MergeRest
  <2> HIDE DEF n
  <2>2. m \in Nat
    BY <1>2
  <2> HIDE DEF m
  <2>3. out' \in Seq(Put)
    BY <1>1, <2>1, <2>2, PutTypes, AppendTo
  <2>4. sockets' = 0 /\ 0 \in 0..1
    BY <1>1, <2>1
  <2> QED BY <1>1, <2>1, <2>3, <2>4, TypingGoesOn
<1> QED BY <1>3, <1>4, <1>5

LEMMA TypingNext == Typing /\ [PageNext]_pageVars => Typing'
<1> SUFFICES ASSUME Typing, [PageNext]_pageVars PROVE Typing'
  OBVIOUS
<1>1. UNCHANGED vars \/ Next
  BY DEF PageNext, pageVars, SplitPlaces, MergeStep, ConvertStep, ConvertReturns
<1>2. CASE UNCHANGED vars
  BY <1>2 DEF vars, Typing, TypeOK, Leads, WellFormed, Variables
<1>3. CASE Next
  BY <1>3, TypingVariable, TypingRest, TypingClosed, TypingConnects, TypingMerge DEF Next
<1> QED BY <1>1, <1>2, <1>3

\* The other splitter: its buffer, and what it has written.
Parts == [kind : {"text", "places"}, n : Nat \ {0}]
Placing == PlacesWaiting /\ ipending \in 0..PlacesSize /\ ifile \in Seq(Parts)

LEMMA PartTypes ==
    ASSUME NEW n \in Nat, NEW kd \in {"text", "places"}
    PROVE  Pos!Item(kd, n) \in Seq(Parts)
<1> DEFINE e == [kind |-> kd, n |-> n]
<1>1. n # 0 => e \in Parts
  BY DEF Parts
<1>2. Pos!Item(kd, n) = IF n = 0 THEN <<>> ELSE <<e>>
  BY DEF Pos!Item
<1> HIDE DEF e
<1> QED BY <1>1, <1>2

LEMMA PlacesTyped == Placing => Pos!TypeOK
<1> SUFFICES ASSUME Placing PROVE Pos!TypeOK
  OBVIOUS
<1>1. /\ tmpl \in Templates /\ istage \in {"split", "close", "done"} /\ ik \in 0..Variables
      /\ lengths = ik * VarLength /\ si = SumTo(tmpl.pre, ik)
      /\ positions = [i \in 1..ik |-> SumTo(tmpl.pre, i)]
      /\ ipending \in 0..PlacesSize /\ ifile \in Seq(Parts)
  BY DEF Placing, PlacesWaiting
<1>2. Variables \in Nat /\ ik \in Int /\ ik \in Nat
  BY <1>1, TemplateTypes
<1>3. Pos!Variables = Variables /\ Pos!Before(ik + 1) = SumTo(tmpl.pre, ik)
  BY <1>2, PlacesNames
<1>4. Len(positions) = ik
  BY <1>1, <1>2
<1>5. \A i \in DOMAIN ifile : ifile[i].kind \in {"text", "places"} /\ ifile[i].n \in Nat \ {0}
  <2>1. \A i \in DOMAIN ifile : ifile[i] \in Parts
    BY <1>1
  <2>2. \A p \in Parts : p.kind \in {"text", "places"} /\ p.n \in Nat \ {0}
    BY DEF Parts
  <2> QED BY <2>1, <2>2, Zenon
<1> QED BY <1>1, <1>3, <1>4, <1>5, Zenon DEF Pos!TypeOK

LEMMA PlacingInit == Init /\ Pos!Init => Placing
<1> SUFFICES ASSUME Init, Pos!Init PROVE Placing
  OBVIOUS
<1>1. ipending = 3 /\ ifile = <<>>
  BY DEF Pos!Init
<1>2. 3 \in 0..PlacesSize /\ <<>> \in Seq(Parts)
  BY Parameters
<1> QED BY <1>1, <1>2, PlacesInit DEF Placing

LEMMA PlacingVariable ==
    ASSUME Placing, Pos!SplitVariable
    PROVE  ipending' \in 0..PlacesSize /\ ifile' \in Seq(Parts)
<1> DEFINE place == Pos!Position(ik + 1) - lengths
           bytes == Pos!Digits(place) + 1
           n == tmpl.pre[ik + 1]
           b == Pos!Flushed(bytes)
<1>1. /\ ik < Variables
      /\ ifile' = ifile \o Pos!Item("text", n) \o Pos!Item("places", b)
      /\ ipending' = ipending + bytes - b
  BY PlacesNames DEF Pos!SplitVariable
<1>2. /\ tmpl \in Templates /\ ik \in 0..Variables /\ lengths = ik * VarLength
      /\ ipending \in 0..PlacesSize /\ ifile \in Seq(Parts)
  BY DEF Placing, PlacesWaiting
<1>3. /\ Variables \in Nat /\ \A i \in 1..Variables : tmpl.pre[i] \in Nat
      /\ PlacesSize \in Nat \ {0} /\ VarLength \in Nat
  BY <1>2, TemplateTypes, Parameters
<1>4. ik \in Nat /\ ik + 1 \in 1..Variables /\ ik + 1 \in 0..Variables
  BY <1>1, <1>2, <1>3
<1>5. n \in Nat
  BY <1>3, <1>4
<1>6. place \in Int
  <2>1. Pos!Position(ik + 1) = SumTo(tmpl.pre, ik + 1) + ik * VarLength
    BY <1>4, PlacesNames
  <2>2. SumTo(tmpl.pre, ik + 1) \in Nat
    BY <1>2, <1>4, PlaceTypes
  <2>3. ik * VarLength \in Nat
    BY <1>3, <1>4
  <2> QED BY <1>2, <2>1, <2>2, <2>3
<1> HIDE DEF place
<1>7. bytes \in Nat
  <2>1. Pos!Digits(place) = Digits(place) /\ Digits(place) \in 1..10
    BY <1>6, PlacesNames, DigitsBound
  <2> QED BY <2>1
<1> HIDE DEF bytes, n
<1>8. b \in Nat /\ ipending + bytes - b \in 0..PlacesSize
  BY <1>2, <1>3, <1>7, Buffered DEF Pos!Flushed
<1> HIDE DEF b
<1> DEFINE x == Pos!Item("text", n)
           y == Pos!Item("places", b)
<1>9. x \in Seq(Parts) /\ y \in Seq(Parts)
  BY <1>5, <1>8, PartTypes
<1> HIDE DEF x, y
<1>10. ifile \o x \o y \in Seq(Parts)
  BY <1>2, <1>9
<1> QED BY <1>1, <1>8, <1>10 DEF x, y

LEMMA PlacingRest ==
    ASSUME Placing, Pos!SplitRest
    PROVE  ipending' \in 0..PlacesSize /\ ifile' \in Seq(Parts)
<1>1. /\ ik = Variables /\ ipending' = ipending
      /\ ifile' = ifile \o Pos!Item("text", Pos!Size - si - lengths)
  BY PlacesNames DEF Pos!SplitRest
<1>2. /\ tmpl \in Templates /\ lengths = ik * VarLength /\ si = SumTo(tmpl.pre, ik)
      /\ ipending \in 0..PlacesSize /\ ifile \in Seq(Parts)
  BY DEF Placing, PlacesWaiting
<1>3. /\ Variables \in Nat /\ SumTo(tmpl.pre, Variables) \in Nat /\ tmpl.rest \in Nat
      /\ VarLength \in Nat
  BY <1>2, TemplateTypes, Parameters
<1> DEFINE n == Pos!Size - si - lengths
<1>4. n \in Nat
  <2>1. Pos!Size = SumTo(tmpl.pre, Variables) + Variables * VarLength + tmpl.rest
    BY PlacesNames
  <2>2. Variables * VarLength \in Nat
    BY <1>3
  <2>3. n = tmpl.rest
    BY <1>1, <1>2, <1>3, <2>1, <2>2
  <2> QED BY <1>3, <2>3
<1> HIDE DEF n
<1> DEFINE x == Pos!Item("text", n)
<1>5. x \in Seq(Parts)
  BY <1>4, PartTypes
<1> HIDE DEF x
<1>6. ifile \o x \in Seq(Parts)
  BY <1>2, <1>5
<1> QED BY <1>1, <1>2, <1>6 DEF x, n

LEMMA PlacingClosed ==
    ASSUME Placing, Pos!Close
    PROVE  ipending' \in 0..PlacesSize /\ ifile' \in Seq(Parts)
<1>1. ipending' = 0 /\ ifile' = ifile \o Pos!Item("places", ipending)
  BY DEF Pos!Close
<1>2. ipending \in 0..PlacesSize /\ ifile \in Seq(Parts) /\ PlacesSize \in Nat
  BY Parameters DEF Placing
<1> DEFINE x == Pos!Item("places", ipending)
<1>3. x \in Seq(Parts)
  BY <1>2, PartTypes
<1> HIDE DEF x
<1>4. ifile \o x \in Seq(Parts)
  BY <1>2, <1>3
<1> QED BY <1>1, <1>2, <1>4 DEF x

LEMMA PlacingNext == Placing /\ [PageNext]_pageVars => Placing'
<1> SUFFICES ASSUME Placing, [PageNext]_pageVars PROVE Placing'
  OBVIOUS
<1>1. PlacesWaiting'
  BY PlacesNext DEF Placing
<1>2. Pos!Next \/ UNCHANGED places
  BY DEF PageNext, pageVars, SplitPlaces, MergeStep, ConvertStep, ConvertReturns
<1>3. CASE Pos!Next
  BY <1>1, <1>3, PlacingVariable, PlacingRest, PlacingClosed DEF Pos!Next, Placing
<1>4. CASE UNCHANGED places
  BY <1>1, <1>4 DEF places, Placing
<1> QED BY <1>2, <1>3, <1>4

\* What convert writes is characters.
Letters == 0..13

LEMMA CharactersPut ==
    ASSUME NEW g \in Seq(0..9), NEW dec \in Nat, NEW m \in Nat, m <= dec + 1 + Prec
    PROVE  SubSeq([d \in 1..dec |-> Cvt!CharAt(g, d)] \o <<Cvt!Dot>>
                    \o [d \in 1..Prec |-> Cvt!CharAt(g, dec + d)], 1, m) \in Seq(Letters)
<1> DEFINE x == [d \in 1..dec |-> Cvt!CharAt(g, d)]
           y == [d \in 1..Prec |-> Cvt!CharAt(g, dec + d)]
           o == <<Cvt!Dot>>
           z == (x \o o) \o y
<1>1. \A d \in Nat : d > 0 => Cvt!CharAt(g, d) \in Letters
  <2> TAKE d \in Nat
  <2> SUFFICES ASSUME d > 0 PROVE Cvt!CharAt(g, d) \in Letters
    OBVIOUS
  <2>1. CASE d <= Len(g)
    BY <2>1 DEF Cvt!CharAt, Letters
  <2>2. CASE ~(d <= Len(g))
    BY <2>2 DEF Cvt!CharAt, Cvt!Nul, Cvt!Old, Letters
  <2> QED BY <2>1, <2>2
<1>2. Prec \in Nat
  BY Decimals
<1>3. x \in Seq(Letters) /\ Len(x) = dec
  <2>1. \A d \in 1..dec : Cvt!CharAt(g, d) \in Letters
    BY <1>1
  <2>2. x \in [1..dec -> Letters]
    BY <2>1
  <2> HIDE DEF x
  <2> QED BY <2>2
<1>4. y \in Seq(Letters) /\ Len(y) = Prec
  <2>1. \A d \in 1..Prec : dec + d \in Nat /\ dec + d > 0
    BY <1>2
  <2>2. \A d \in 1..Prec : Cvt!CharAt(g, dec + d) \in Letters
    BY <1>1, <2>1
  <2>3. y \in [1..Prec -> Letters]
    BY <2>2
  <2> HIDE DEF y
  <2> QED BY <1>2, <2>3
<1>5. o \in Seq(Letters) /\ Len(o) = 1
  BY DEF Cvt!Dot, Letters
<1> HIDE DEF x, y, o
<1>6. z \in Seq(Letters) /\ Len(z) = dec + 1 + Prec
  <2>1. x \o o \in Seq(Letters) /\ Len(x \o o) = Len(x) + Len(o)
    BY <1>3, <1>5, TwoParts, Zenon
  <2> DEFINE h == x \o o
  <2>2. h \in Seq(Letters)
    BY <2>1
  <2> HIDE DEF h
  <2>3. h \o y \in Seq(Letters) /\ Len(h \o y) = Len(h) + Len(y)
    BY <1>4, <2>2, TwoParts, Zenon
  <2>4. z \in Seq(Letters) /\ Len(z) = Len(x \o o) + Len(y)
    BY <2>3, Zenon DEF z, h
  <2> HIDE DEF z
  <2> QED BY <1>2, <1>3, <1>4, <1>5, <2>1, <2>4
<1> HIDE DEF z
<1>7. SubSeq(z, 1, m) \in Seq(Letters)
  BY <1>2, <1>6
<1> QED BY <1>7 DEF z, x, y, o

\* The smaller of two numbers has no more digits.
LEMMA LengthGrows ==
    ASSUME NEW d \in Nat \ {0}, NEW w \in Nat, d <= w
    PROVE  w # 0 /\ Cvt!Length(d) <= Cvt!Length(w)
<1> DEFINE a == Cvt!Length(d)
           b == Cvt!Length(w)
<1>1. w \in Nat \ {0}
  OBVIOUS
<1>2. a \in Nat \ {0} /\ Pow(10, a - 1) <= d
  BY LengthBounds
<1>3. b \in Nat \ {0} /\ w < Pow(10, b)
  BY <1>1, LengthBounds
<1> HIDE DEF a, b
<1>4. a - 1 \in Nat /\ b \in Nat /\ Pow(10, a - 1) \in Nat /\ Pow(10, b) \in Nat
  BY <1>2, <1>3, TenPower
<1>5. b <= a - 1 => Pow(10, b) <= Pow(10, a - 1)
  BY <1>4, TenPowerGrows
<1>6. a <= b
  BY <1>2, <1>3, <1>4, <1>5
<1> QED BY <1>1, <1>6 DEF a, b

\* The digits of a double and where its point is, whether its whole part is an
\* unsigned int or only its remainder.
LEMMA EcvtTypes ==
    ASSUME NEW v \in Nat \ {0}, NEW n \in Nat \ {0}, Places <= Cvt!Length(v)
    PROVE  /\ Cvt!Ecvt(v, n).digits \in Seq(0..9)
           /\ Cvt!Ecvt(v, n).dec \in Nat
           /\ Cvt!Ecvt(v, n).dec >= Cvt!Length(v) - Places
<1> DEFINE m == Cvt!Asked(n)
           s == Cvt!FirstDigits(v, m)
           up == Cvt!FirstDigits(v, m + 1)[m + 1] >= 5
           L == Cvt!Length(v)
           dec == L - Places
<1>1. m \in Nat \ {0}
  BY Decimals DEF Cvt!Asked
<1>2. L \in Nat /\ Places \in Nat
  BY LengthBounds, Decimals
<1> HIDE DEF m
<1>3. s \in Seq(0..9) /\ Len(s) = m
  <2> HIDE DEF L
  <2>1. ASSUME NEW d \in 1..m
        PROVE  (IF d > L \/ d > DigPrec THEN 0 ELSE (v \div Pow(10, L - d)) % 10) \in 0..9
    <3>1. CASE d > L \/ d > DigPrec
      BY <3>1
    <3>2. CASE ~(d > L \/ d > DigPrec)
      <4>1. L - d \in Nat
        BY <1>1, <1>2, <3>2
      <4>2. Pow(10, L - d) \in Nat \ {0}
        BY <4>1, TenPower
      <4>3. v \div Pow(10, L - d) \in Nat
        BY <4>2, DivBounds
      <4> QED BY <3>2, <4>3
    <3> QED BY <3>1, <3>2
  <2>2. s = [d \in 1..m |-> IF d > L \/ d > DigPrec THEN 0 ELSE (v \div Pow(10, L - d)) % 10]
    BY ConvertNames, Zenon DEF Cvt!FirstDigits, L
  <2> HIDE DEF s
  <2> QED BY <1>1, <2>1, <2>2
<1> HIDE DEF s, up
<1>4. Cvt!CarriedOver(s) \in Seq(0..9)
  BY <1>1, <1>3, CarriedRight
<1>5. Cvt!Ecvt(v, n) = [digits |-> IF up THEN Cvt!CarriedOver(s) ELSE s,
                        dec |-> IF up /\ \A d \in 1..m : s[d] = 9 THEN dec + 1 ELSE dec]
  BY Zenon DEF Cvt!Ecvt, s, up, m
<1> HIDE DEF L
<1>6. Cvt!Ecvt(v, n).digits \in Seq(0..9)
  <2>1. Cvt!Ecvt(v, n).digits = Cvt!CarriedOver(s) \/ Cvt!Ecvt(v, n).digits = s
    BY <1>5
  <2> QED BY <1>4, <1>3, <2>1
<1>7. Cvt!Ecvt(v, n).dec \in {dec, dec + 1}
  BY <1>5
<1>8. dec \in Nat
  BY <1>2 DEF L
<1> QED BY <1>6, <1>7, <1>8 DEF L

LEMMA DoubleTyped ==
    ASSUME NEW n \in Int
    PROVE  DoubleText(Magnitude(n), n) \in Seq(Letters)
<1> DEFINE v == Magnitude(n)
           U == Pow(10, Places)
           B == Pow(2, IntBits)
           w == v \div U
           d == w % B
           len == Cvt!Length(d)
           e == Cvt!Ecvt(v, len + Prec)
           g == e.digits
           dec == e.dec
           cs == [m \in 1..dec |-> Cvt!CharAt(g, m)] \o <<Cvt!Dot>>
                 \o [m \in 1..Prec |-> Cvt!CharAt(g, dec + m)]
           sign == IF n < 0 THEN <<Cvt!Minus>> ELSE <<>>
<1>1. v \in Nat
  BY DEF Magnitude
<1>2. U \in Nat \ {0} /\ B \in Nat \ {0} /\ Places \in Nat /\ Prec \in Nat \ {0} /\ Prec <= Places
  BY Decimals, TenPower, PowType
<1>3. DoubleText(v, n) = IF d = 0 THEN <<0>> ELSE sign \o SubSeq(cs, 1, len + Prec + 1)
  <2>1. Cvt!Pow(10, Places) = U /\ Cvt!Pow(2, IntBits) = B
    BY ConvertNames, Zenon
  <2> QED BY <2>1, Zenon DEF DoubleText
<1> HIDE DEF v
<1>4. w \in Nat /\ U * w <= v /\ v < U * w + U
  <2> HIDE DEF U
  <2> QED BY <1>1, <1>2, DivBounds
<1>5. CASE d = 0
  <2>1. <<0>> \in Seq(Letters)
    BY DEF Letters
  <2> HIDE DEF d
  <2> QED BY <1>3, <1>5, <2>1 DEF v
<1>6. CASE d # 0
  <2>1. d \in Nat \ {0} /\ d <= w
    <3> HIDE DEF w, B
    <3>1. d \in Nat /\ d <= w
      BY <1>2, <1>4
    <3> QED BY <1>6, <3>1
  <2>2. U <= v
    <3> HIDE DEF U, w, d
    <3>1. w >= 1
      BY <1>4, <2>1
    <3>2. U * 1 <= U * w
      BY <1>2, <1>4, <3>1
    <3> QED BY <1>1, <1>2, <1>4, <3>2
  <2>3. Cvt!Length(v) = Cvt!Length(w) + Places
    BY <1>1, <1>2, <2>2, LengthCut
  <2>4. len \in Nat \ {0}
    <3> HIDE DEF d
    <3> QED BY <2>1, LengthBounds
  <2>5. len <= Cvt!Length(w) /\ Cvt!Length(w) \in Nat
    <3> HIDE DEF w, d
    <3>1. w \in Nat \ {0}
      BY <1>4, <2>1
    <3> QED BY <1>4, <2>1, <3>1, LengthGrows, LengthBounds
  <2> HIDE DEF U, B, w, d, len
  <2>6. v \in Nat \ {0} /\ len + Prec \in Nat \ {0} /\ Places <= Cvt!Length(v)
    BY <1>1, <1>2, <2>2, <2>3, <2>4, <2>5
  <2>7. g \in Seq(0..9) /\ dec \in Nat /\ dec >= Cvt!Length(v) - Places
    BY <2>6, EcvtTypes
  <2> HIDE DEF e
  <2>8. SubSeq(cs, 1, len + Prec + 1) \in Seq(Letters)
    <3>1. len + Prec + 1 \in Nat /\ len + Prec + 1 <= dec + 1 + Prec
      BY <1>2, <2>3, <2>4, <2>5, <2>7
    <3> HIDE DEF g, dec
    <3> QED BY <2>7, <3>1, CharactersPut
  <2> DEFINE t == SubSeq(cs, 1, len + Prec + 1)
  <2>9. sign \in Seq(Letters)
    <3>1. <<Cvt!Minus>> \in Seq(Letters) /\ <<>> \in Seq(Letters)
      BY DEF Cvt!Minus, Letters
    <3> QED BY <3>1
  <2> HIDE DEF sign, cs, t
  <2>10. sign \o t \in Seq(Letters)
    BY <2>8, <2>9 DEF t
  <2>11. DoubleText(v, n) = sign \o t
    BY <1>3, <1>6, Zenon DEF t
  <2> QED BY <2>10, <2>11 DEF v
<1> QED BY <1>5, <1>6

\* What is left of a number is of its type, and below the divisor of the group
\* before the one at hand: the quotient is a group of the table.
Converting ==
    /\ InType(kind, left)
    /\ group \in -1..(Groups - 1)
    /\ chars \in Seq(Letters)
    /\ at \in {"lead", "rest"} => kind # "double" /\ left < Divisors(group + 1)
    /\ at = "rest" => left \in Nat

LEMMA SmallerTyped ==
    ASSUME NEW kd, NEW n, InType(kd, n), NEW m \in Nat, n \in Nat, m <= n
    PROVE  InType(kd, m)
<1>1. Pow(2, Bits - 1) \in Nat /\ Pow(2, Bits) \in Nat
  <2>1. 2 \in Nat \ {0} /\ Bits - 1 \in Nat /\ Bits \in Nat
    BY Parameters
  <2> QED BY <2>1, PowType
<1> DEFINE a == Pow(2, Bits - 1)
           b == Pow(2, Bits)
<1>2. \/ kd = "signed" /\ n \in -a..(a - 1)
      \/ kd = "unsigned" /\ n \in 0..(b - 1)
      \/ kd = "double" /\ n \in Int
  BY Zenon DEF InType
<1> HIDE DEF a, b
<1>3. a \in Nat /\ b \in Nat
  BY <1>1 DEF a, b
<1>4. \/ kd = "signed" /\ m \in -a..(a - 1)
      \/ kd = "unsigned" /\ m \in 0..(b - 1)
      \/ kd = "double" /\ m \in Int
  BY <1>2, <1>3
<1> QED BY <1>4, Zenon DEF InType, a, b

LEMMA OppositeTyped ==
    ASSUME NEW kd, NEW n, InType(kd, n), kd # "double"
    PROVE  LET m == IF n < 0 THEN Cvt!Opposite(n) ELSE n
           IN  InType(kd, m) /\ m < Divisors(Groups)
<1> DEFINE m == IF n < 0 THEN Cvt!Opposite(n) ELSE n
           a == Pow(2, Bits - 1)
<1>1. n \in Int /\ Magnitude(n) \in Nat /\ Magnitude(n) < Divisors(Groups)
  BY InTable
<1>2. a \in Nat
  <2>1. 2 \in Nat \ {0} /\ Bits - 1 \in Nat
    BY Parameters
  <2> QED BY <2>1, PowType
<1>3. Divisors(Groups) \in Nat
  BY DivisorsNext, Parameters
<1>4. Cvt!Opposite(n) = IF n = -a THEN n ELSE -n
  BY ConvertNames, Zenon DEF Cvt!Opposite
<1> HIDE DEF a
<1>5. m = n \/ (n < 0 /\ n # -a /\ m = -n)
  BY <1>4
<1>6. m < Divisors(Groups)
  <2> HIDE DEF m
  <2> QED BY <1>1, <1>3, <1>5 DEF Magnitude
<1>7. InType(kd, m)
  <2> HIDE DEF m
  <2>1. CASE m = n
    BY <2>1
  <2>2. CASE n < 0 /\ n # -a /\ m = -n
    <3>1. kd = "signed" /\ n \in -a..(a - 1)
      BY <1>1, <2>2 DEF InType, a
    <3>2. m \in -a..(a - 1)
      BY <1>1, <1>2, <2>2, <3>1
    <3> QED BY <3>1, <3>2, Zenon DEF InType, a
  <2> QED BY <1>5, <2>1, <2>2
<1> QED BY <1>6, <1>7

LEMMA DigitsPut ==
    ASSUME NEW c \in Seq(Letters), NEW s \in Seq(0..9)
    PROVE  c \o s \in Seq(Letters)
<1>1. s \in Seq(Letters)
  BY DEF Letters
<1> QED BY <1>1, TwoParts, Zenon

LEMMA ConvertingStart == Converting /\ Numbering /\ Cvt!Start => Converting'
<1> SUFFICES ASSUME Converting, Numbering, Cvt!Start PROVE Converting'
  OBVIOUS
<1>1. /\ InType(kind, in) /\ kind # "double" /\ group = Groups - 1
      /\ kind' = kind /\ in' = in /\ group' = group
      /\ left' = IF in < 0 THEN Cvt!Opposite(in) ELSE in
      /\ chars' = IF in < 0 THEN <<Cvt!Minus>> ELSE IF in = 0 THEN <<0>> ELSE <<>>
      /\ at' = IF in = 0 THEN "done" ELSE "lead"
  BY DEF Numbering, Cvt!Start
<1>2. InType(kind, left') /\ left' < Divisors(Groups)
  BY <1>1, OppositeTyped
<1>3. <<Cvt!Minus>> \in Seq(Letters) /\ <<0>> \in Seq(Letters) /\ <<>> \in Seq(Letters)
  BY DEF Cvt!Minus, Letters
<1>4. chars' \in Seq(Letters)
  BY <1>1, <1>3
<1>5. group' \in -1..(Groups - 1) /\ group' + 1 = Groups
  BY <1>1, Parameters
<1>6. InType(kind, left)' /\ Divisors(group + 1)' = Divisors(Groups)
  BY <1>1, <1>2, <1>5 DEF InType, Divisors
<1> QED BY <1>1, <1>2, <1>4, <1>5, <1>6 DEF Converting, Letters

\* The group at hand is taken off what is left.
LEMMA GroupTaken ==
    ASSUME InType(kind, left), kind' = kind, group \in 0..(Groups - 1), left \in Nat,
           left < Divisors(group + 1), group' = group - 1,
           left' = left - (left \div Divisors(group)) * Divisors(group),
           chars \in Seq(Letters), NEW s \in Seq(0..9), chars' = chars \o s
    PROVE  Converting' \/ kind = "double"
<1> DEFINE D == Divisors(group)
           q == left \div D
<1>1. group \in Nat /\ Groups \in Nat
  BY Parameters
<1>2. D \in Nat \ {0} /\ Pow(10, Width) \in Nat \ {0} /\ left < D * Pow(10, Width)
  BY <1>1, DivisorsNext
<1>3. left - q * D \in Nat /\ left - q * D < D /\ q \in Nat
  BY <1>2, Quotient
<1> HIDE DEF q
<1>4. left' \in Nat /\ left' < D /\ left' <= left
  <2>1. left' = left - q * D
    BY DEF q
  <2> HIDE DEF D
  <2>2. q * D \in Nat
    BY <1>2, <1>3
  <2> QED BY <1>3, <2>1, <2>2
<1> HIDE DEF D
<1>5. InType(kind, left')
  BY <1>4, SmallerTyped
<1>6. group' \in -1..(Groups - 1) /\ group' + 1 = group
  BY <1>1
<1>7. InType(kind, left)' /\ Divisors(group + 1)' = D
  BY <1>5, <1>6 DEF InType, Divisors, D
<1>8. chars' \in Seq(Letters)
  BY DigitsPut
<1> QED BY <1>4, <1>6, <1>7, <1>8 DEF Converting, Letters

LEMMA ConvertingLead == Converting /\ Cvt!Lead => Converting'
<1> SUFFICES ASSUME Converting, Cvt!Lead PROVE Converting'
  OBVIOUS
<1>1. /\ InType(kind, left) /\ group \in -1..(Groups - 1) /\ chars \in Seq(Letters)
      /\ at = "lead" /\ kind # "double" /\ left < Divisors(group + 1)
      /\ kind' = kind /\ Groups \in Nat /\ left \in Int
  BY InTable, Parameters DEF Converting, Cvt!Lead
<1>2. CASE group < 0
  <2>1. at' = "done" /\ left' = left /\ group' = group /\ chars' = chars
    BY <1>2 DEF Cvt!Lead
  <2>2. InType(kind, left)'
    BY <1>1, <2>1 DEF InType
  <2> QED BY <1>1, <2>1, <2>2 DEF Converting, Letters
<1>3. CASE ~(group < 0)
  <2> DEFINE D == Divisors(group)
             q == left \div D
  <2>1. group \in Nat /\ group \in 0..(Groups - 1)
    BY <1>1, <1>3
  <2>2. /\ D \in Nat \ {0} /\ Pow(10, Width) \in Nat \ {0} /\ Cvt!Divisor(group) = D
        /\ left < D * Pow(10, Width)
    BY <1>1, <2>1, DivisorsNext
  <2>3. /\ group' = group - 1
        /\ left >= D => chars' = chars \o Cvt!Stripped(q) /\ left' = left - q * D
        /\ ~(left >= D) => left' = left /\ chars' = chars /\ at' = "lead"
    BY <1>3, <2>2 DEF Cvt!Lead
  <2>4. CASE left >= D
    <3>1. left \in Nat
      <4> HIDE DEF D
      <4> QED BY <1>1, <2>2, <2>4
    <3>2. q \in Nat \ {0} /\ q < Pow(10, Width)
      BY <2>2, <2>4, <3>1, Quotient
    <3>3. Cvt!Stripped(q) \in Seq(0..9)
      BY <3>2, StrippedRight
    <3> QED BY <1>1, <2>1, <2>3, <2>4, <3>1, <3>3, GroupTaken
  <2>5. CASE ~(left >= D)
    <3>1. left' = left /\ chars' = chars /\ at' = "lead" /\ left < D
      <4> HIDE DEF D
      <4> QED BY <1>1, <2>2, <2>3, <2>5
    <3>2. group' \in -1..(Groups - 1) /\ group' + 1 = group
      BY <1>1, <2>1, <2>3
    <3>3. InType(kind, left)' /\ Divisors(group + 1)' = D
      BY <1>1, <3>1, <3>2 DEF InType, Divisors
    <3> HIDE DEF D
    <3> QED BY <1>1, <3>1, <3>2, <3>3 DEF Converting, Letters
  <2> QED BY <2>4, <2>5
<1> QED BY <1>2, <1>3

LEMMA ConvertingRest == Converting /\ Cvt!Rest => Converting'
<1> SUFFICES ASSUME Converting, Cvt!Rest PROVE Converting'
  OBVIOUS
<1>1. /\ InType(kind, left) /\ group \in -1..(Groups - 1) /\ chars \in Seq(Letters)
      /\ at = "rest" /\ kind # "double" /\ left < Divisors(group + 1) /\ left \in Nat
      /\ kind' = kind /\ Groups \in Nat
  BY Parameters DEF Converting, Cvt!Rest
<1>2. CASE group < 0
  <2>1. at' = "done" /\ left' = left /\ group' = group /\ chars' = chars
    BY <1>2 DEF Cvt!Rest
  <2>2. InType(kind, left)'
    BY <1>1, <2>1 DEF InType
  <2> QED BY <1>1, <2>1, <2>2 DEF Converting, Letters
<1>3. CASE ~(group < 0)
  <2> DEFINE D == Divisors(group)
             q == left \div D
  <2>1. group \in Nat /\ group \in 0..(Groups - 1)
    BY <1>1, <1>3
  <2>2. /\ D \in Nat \ {0} /\ Pow(10, Width) \in Nat \ {0} /\ Cvt!Divisor(group) = D
        /\ left < D * Pow(10, Width)
    BY <1>1, <2>1, DivisorsNext
  <2>3. /\ group' = group - 1 /\ chars' = chars \o Cvt!GroupDigits(q)
        /\ left' = left - q * D
    BY <1>3, <2>2 DEF Cvt!Rest
  <2>4. q \in Nat
    BY <1>1, <2>2, Quotient
  <2>5. Cvt!GroupDigits(q) \in Seq(0..9)
    <3>1. Cvt!GroupDigits(q) = LastDigits(q, Width)
      BY ConvertNames, Zenon DEF Cvt!GroupDigits
    <3> QED BY <2>4, <3>1, LastDigitsType, Parameters
  <2> QED BY <1>1, <2>1, <2>3, <2>5, GroupTaken
<1> QED BY <1>2, <1>3

LEMMA ConvertingDouble == Converting /\ Numbering /\ Cvt!ConvertDouble => Converting'
<1> SUFFICES ASSUME Converting, Numbering, Cvt!ConvertDouble PROVE Converting'
  OBVIOUS
<1>1. /\ kind = "double" /\ kind' = kind /\ in' = in /\ at' = "done"
      /\ left' = left /\ group' = group /\ chars' = DoubleText(Cvt!Abs(in), in)
  BY Zenon DEF Cvt!ConvertDouble, DoubleText
<1>2. in \in Int
  BY <1>1 DEF Numbering, InType
<1>3. Cvt!Abs(in) = Magnitude(in)
  BY DEF Cvt!Abs, Magnitude
<1>4. chars' \in Seq(Letters)
  BY <1>1, <1>2, <1>3, DoubleTyped
<1>5. InType(kind, left)'
  BY <1>1 DEF Converting, InType
<1> QED BY <1>1, <1>4, <1>5 DEF Converting, Letters

\* A value not yet begun.
LEMMA ConvertingNew == Numbering /\ at = "start" => Converting
<1> SUFFICES ASSUME Numbering, at = "start" PROVE Converting
  OBVIOUS
<1>1. InType(kind, left) /\ group = Groups - 1 /\ chars = <<>>
  BY DEF Numbering
<1>2. group \in -1..(Groups - 1)
  BY <1>1, Parameters
<1> QED BY <1>1, <1>2 DEF Converting

LEMMA ConvertingReturns == Sending /\ ConvertReturns => Converting'
<1> SUFFICES ASSUME Sending, ConvertReturns PROVE Converting'
  OBVIOUS
<1>1. Numbering' /\ at' = "start"
  BY NumberReturns, Zenon DEF ConvertReturns
<1>2. /\ InType(kind, left)' /\ group' = Groups - 1 /\ chars' = <<>>
      /\ group' \in -1..(Groups - 1)
  BY <1>1, Parameters DEF Numbering, InType
<1> QED BY <1>1, <1>2 DEF Converting, Letters

LEMMA ConvertingNext == Converting /\ Numbering /\ Sending /\ [PageNext]_pageVars => Converting'
<1> SUFFICES ASSUME Converting, Numbering, Sending, [PageNext]_pageVars PROVE Converting'
  OBVIOUS
<1>1. ASSUME UNCHANGED conversion PROVE Converting'
  BY <1>1 DEF conversion, Converting, InType, Divisors, Letters
<1>2. CASE SplitPlaces \/ MergeStep \/ UNCHANGED pageVars
  BY <1>1, <1>2, Zenon DEF SplitPlaces, MergeStep, pageVars
<1>3. CASE ConvertStep
  BY <1>3, ConvertingStart, ConvertingLead, ConvertingRest, ConvertingDouble
     DEF ConvertStep, Cvt!Next
<1>4. CASE ConvertReturns
  BY <1>4, ConvertingReturns
<1> QED BY <1>2, <1>3, <1>4 DEF PageNext

LEMMA ConvertTyped == Converting /\ Numbering => Cvt!TypeOK
<1> SUFFICES ASSUME Converting, Numbering PROVE Cvt!TypeOK
  OBVIOUS
<1>1. /\ InType(kind, left) /\ group \in -1..(Groups - 1) /\ chars \in Seq(Letters)
      /\ at \in {"start", "lead", "rest", "done"}
  BY DEF Converting, Numbering
<1>2. /\ kind \in {"signed", "unsigned", "double"}
      /\ kind = "signed" => left \in -Cvt!Pow(2, Bits - 1)..(Cvt!Pow(2, Bits - 1) - 1)
      /\ kind = "unsigned" => left \in 0..(Cvt!Pow(2, Bits) - 1)
  BY <1>1, ConvertNames DEF InType
<1>3. at = "rest" => left \in 0..(Cvt!Divisor(group + 1) - 1)
  <2> SUFFICES ASSUME at = "rest" PROVE left \in 0..(Cvt!Divisor(group + 1) - 1)
    OBVIOUS
  <2>1. left \in Nat /\ left < Divisors(group + 1)
    BY DEF Converting
  <2>2. group + 1 \in Nat
    BY <1>1, Parameters
  <2>3. Cvt!Divisor(group + 1) = Divisors(group + 1) /\ Divisors(group + 1) \in Nat
    BY <2>2, DivisorsNext
  <2> QED BY <2>1, <2>3
<1>4. chars \in Seq(0..Cvt!Old)
  BY <1>1 DEF Letters, Cvt!Old
<1> QED BY <1>1, <1>2, <1>3, <1>4 DEF Cvt!TypeOK

\* Whatever the template, the client counts no more variables than it has, also when
\* the lengths and the texts of fixed.dat are out of order; it has a socket while it
\* is connected and none when it ends; stdio's buffers are within their size; and a
\* number is divided by a divisor of the table, what is left of it staying of its
\* type and below the divisor before (client.cc:87-227, mdata.cc:45-65,
\* mdata_inv.cc:48-67, convert.cc:14-60).
THEOREM PageTyped == PageSpec => []PageTypeOK
<1>1. PageInit => Typing /\ Placing /\ Converting
  <2> SUFFICES ASSUME PageInit PROVE Typing /\ Placing /\ Converting
    OBVIOUS
  <2>1. Init /\ Pos!Init /\ at = "start"
    BY DEF PageInit, Cvt!Init
  <2> QED BY <2>1, TypingInit, PlacingInit, SendingInit, ConvertingNew
<1>2. Typing /\ Placing /\ Converting /\ Numbering => PageTypeOK
  BY PlacesTyped, ConvertTyped DEF Typing, PageTypeOK
<1> QED BY <1>1, <1>2, SendingInit, TypingNext, PlacingNext, NumberNext, SendingNext,
           ConvertingNext, PTL DEF PageSpec
=============================================================================
