----------------------------- MODULE CspProofs -----------------------------
(***************************************************************************)
(* What is proved of the servlets and of the buffer they append to: how    *)
(* far it may write past its end, that nothing appended is hidden, that a  *)
(* template is compiled to its page and that its servlet prints it.        *)
(***************************************************************************)
EXTENDS CspServlet, Induction, SequenceTheorems, FiniteSetTheorems, TLAPS

-----------------------------------------------------------------------------
(* The buffer: how far past its end it may write. *)

Room == TypeOK /\ InBounds

LEMMA RoomInit == Init => Room
BY BufferAssumption DEF Init, Highest, Room, TypeOK, InBounds

\* What is written beyond the reserve is all that can go past the end: however the
\* reserve relates to the fill, growing leaves room for it and one more.
LEMMA RoomPrinted ==
    ASSUME Room, NEW bytes \in Nat, NEW n \in Nat, Printed(bytes, n)
    PROVE  Room' /\ excess' = IF n <= bytes THEN 0 ELSE n - bytes
<1>1. /\ size \in Nat \ {0} /\ length \in Nat /\ touched \in Nat /\ nuls \subseteq Nat
      /\ touched <= size
  BY DEF Room, TypeOK, Printed, Intact
<1>2. /\ size' = IF length + bytes >= size THEN 2 * (length + bytes) ELSE size
      /\ length' = length + n
      /\ touched' = Highest(IF length + bytes >= size THEN length ELSE touched, length + n + 1)
  BY DEF Printed, SizeAfter, TouchedAfter, Grows
<1>3. nuls' \subseteq Nat
  BY <1>1 DEF Printed, Kept
<1>4. excess' \in Nat /\ excess' = IF n <= bytes THEN 0 ELSE n - bytes
  BY <1>1 DEF Printed, Highest
<1>5. size' + excess' >= length + n + 1 /\ size' \in Nat \ {0}
  BY <1>1, <1>2, <1>4
<1>6. touched' \in Nat /\ length' \in Nat /\ touched' <= size' + excess'
  BY <1>1, <1>2, <1>4, <1>5 DEF Highest
<1> QED BY <1>3, <1>4, <1>5, <1>6 DEF Room, TypeOK, InBounds

LEMMA RoomChar == Room /\ AppendChar => Room'
<1> SUFFICES ASSUME Room, AppendChar PROVE Room'
  OBVIOUS
<1>1. /\ size \in Nat \ {0} /\ length \in Nat /\ touched \in Nat /\ nuls \subseteq Nat
      /\ touched <= size
  BY DEF Room, TypeOK, AppendChar, Intact
<1>2. /\ size' = IF length + 1 >= size THEN 2 * (length + 1) ELSE size
      /\ length' = length + 1 /\ excess' = 0
      /\ touched' = Highest(IF length + 1 >= size THEN length ELSE touched, length + 1)
  BY DEF AppendChar, SizeAfter, TouchedAfter, Grows
<1>3. nuls' \subseteq Nat
  BY <1>1 DEF AppendChar, Kept
<1>4. touched' \in Nat /\ touched' <= size'
  BY <1>1, <1>2 DEF Highest
<1> QED BY <1>1, <1>2, <1>3, <1>4 DEF Room, TypeOK, InBounds

LEMMA RoomDoubles ==
    ASSUME Room,
           NEW number \in Counts, NEW sep \in Seps, NEW n \in Prints["double"],
           AppendDoubles(number, sep, n)
    PROVE  Room'
<1> DEFINE reserve == Reserves["double"]
           bytes == number * (reserve + sep)
           printed == (number - 1) * (n + sep)
<1>1. /\ number \in Nat /\ sep \in Nat /\ n \in Nat /\ reserve \in Nat
  BY BufferAssumption
<1>2. bytes \in Nat
  BY <1>1
<1>3. CASE number > 1
  <2>1. printed \in Nat
    BY <1>1, <1>3
  <2>2. Printed(bytes, printed)
    BY <1>3 DEF AppendDoubles
  <2> HIDE DEF bytes, printed
  <2> QED BY <1>2, <2>1, <2>2, RoomPrinted
<1>4. CASE number <= 1
  <2>1. /\ size \in Nat \ {0} /\ length \in Nat /\ touched \in Nat /\ nuls \subseteq Nat
        /\ touched <= size
    BY <1>1, <1>4 DEF Room, TypeOK, AppendDoubles, Intact
  <2>2. /\ size' = IF length + bytes >= size THEN 2 * (length + bytes) ELSE size
        /\ touched' = IF length + bytes >= size THEN length ELSE touched
        /\ length' = length /\ nuls' = Kept(bytes) /\ excess' = 0
    BY <1>1, <1>4 DEF AppendDoubles, SizeAfter, TouchedAfter, Grows
  <2>3. nuls' \subseteq Nat
    BY <2>1, <2>2 DEF Kept
  <2>4. touched' <= size' /\ size' \in Nat \ {0} /\ touched' \in Nat
    <3> HIDE DEF bytes
    <3> QED BY <1>2, <2>1, <2>2
  <2> QED BY <2>1, <2>2, <2>3, <2>4 DEF Room, TypeOK, InBounds
<1> QED BY <1>1, <1>3, <1>4

LEMMA RoomStep == Room /\ [Next]_vars => Room'
<1> SUFFICES ASSUME Room, [Next]_vars PROVE Room'
  OBVIOUS
<1>1. ASSUME NEW n \in Texts, NEW b \in Texts, AppendText(n, b) PROVE Room'
  BY <1>1, RoomPrinted, BufferAssumption DEF AppendText
<1>2. ASSUME NEW t \in Types, NEW n \in Prints[t], AppendNumber(t, n) PROVE Room'
  <2>1. Reserves[t] \in Nat /\ n \in Nat
    BY <1>2, BufferAssumption
  <2> QED BY <1>2, <2>1, RoomPrinted DEF AppendNumber
<1>3. CASE UNCHANGED vars
  BY <1>3 DEF vars, Room, TypeOK, InBounds
<1> QED BY <1>1, <1>2, <1>3, RoomChar, RoomDoubles DEF Next

\* No sequence of appends, at whatever fill and through whatever growths, writes farther
\* past the allocation than the last value was longer than what was reserved for it
\* (Buffer.hh:29-65, Buffer.cc:16-49); a value as long as its reserve never does, its NUL
\* included.  Nothing is assumed of the reserves, of the values or of the counts that
\* callers give.
THEOREM StaysInBounds == Spec => []InBounds
<1>1. Init => Room
  BY RoomInit
<1>2. Room /\ [Next]_vars => Room'
  BY RoomStep
<1>3. Room => InBounds
  BY DEF Room
<1> QED BY <1>1, <1>2, <1>3, PTL DEF Spec

-----------------------------------------------------------------------------
(* The buffer: its types, and what hides. *)

\* Nothing appended is hidden, and the numbers are numbers.
Showing == TypeOK /\ NothingHidden

LEMMA Grown ==
    ASSUME TypeOK, NEW bytes \in Nat
    PROVE  SizeAfter(bytes) \in Nat \ {0} /\ TouchedAfter(bytes) \in Nat /\ Kept(bytes) \subseteq nuls
<1>1. size \in Nat \ {0} /\ length \in Nat /\ touched \in Nat /\ nuls \subseteq Nat
  BY DEF TypeOK
<1>2. 2 * (length + bytes) \in Nat /\ (length + bytes >= size => 2 * (length + bytes) # 0)
  BY <1>1
<1> QED BY <1>1, <1>2 DEF SizeAfter, TouchedAfter, Kept, Grows

LEMMA ShowingPrinted ==
    ASSUME TypeOK, NEW bytes \in Nat, NEW n \in Nat, Printed(bytes, n)
    PROVE  TypeOK' /\ (NothingHidden => NothingHidden')
<1>1. size \in Nat \ {0} /\ length \in Nat /\ touched \in Nat /\ nuls \subseteq Nat
  BY DEF TypeOK
<1>2. /\ size' = SizeAfter(bytes) /\ length' = length + n
      /\ nuls' = (Kept(bytes) \ length..(length + n)) \cup {length + n}
      /\ touched' = Highest(TouchedAfter(bytes), length + n + 1) /\ excess' = Highest(0, n - bytes)
  BY DEF Printed
<1>3. SizeAfter(bytes) \in Nat \ {0} /\ TouchedAfter(bytes) \in Nat /\ Kept(bytes) \subseteq nuls
  BY Grown
<1>4. TypeOK'
  <2>1. nuls' \subseteq Nat
    <3>1. length + n \in Nat
      BY <1>1
    <3>2. nuls' \subseteq nuls \cup {length + n}
      BY <1>2, <1>3
    <3> QED BY <1>1, <3>1, <3>2
  <2>2. touched' \in Nat /\ length' \in Nat /\ size' \in Nat \ {0} /\ excess' \in Nat
    BY <1>1, <1>2, <1>3 DEF Highest
  <2> QED BY <2>1, <2>2 DEF TypeOK
<1>5. ASSUME NothingHidden, NEW x \in nuls' \cap 0..(length' - 1) PROVE FALSE
  <2>1. x \in Nat /\ x < length + n /\ x # length + n
    BY <1>1, <1>2, <1>5
  <2>2. x \in nuls /\ x \notin length..(length + n)
    BY <1>2, <1>3, <1>5, <2>1
  <2>3. x \in 0..(length - 1)
    BY <1>1, <2>1, <2>2
  <2> QED BY <1>5, <2>2, <2>3 DEF NothingHidden
<1> QED BY <1>4, <1>5 DEF NothingHidden

LEMMA ShowingChar == TypeOK /\ AppendChar => TypeOK' /\ (NothingHidden => NothingHidden')
<1> SUFFICES ASSUME TypeOK, AppendChar PROVE TypeOK' /\ (NothingHidden => NothingHidden')
  OBVIOUS
<1>1. size \in Nat \ {0} /\ length \in Nat /\ touched \in Nat /\ nuls \subseteq Nat
  BY DEF TypeOK
<1>2. /\ size' = SizeAfter(1) /\ length' = length + 1
      /\ nuls' = Kept(1) \ {length}
      /\ touched' = Highest(TouchedAfter(1), length + 1) /\ excess' = 0
  BY DEF AppendChar
<1>3. SizeAfter(1) \in Nat \ {0} /\ TouchedAfter(1) \in Nat /\ Kept(1) \subseteq nuls
  BY Grown
<1>4. TypeOK'
  <2>1. nuls' \subseteq Nat
    BY <1>1, <1>2, <1>3
  <2>2. touched' \in Nat /\ length' \in Nat /\ size' \in Nat \ {0} /\ excess' \in Nat
    BY <1>1, <1>2, <1>3 DEF Highest
  <2> QED BY <2>1, <2>2 DEF TypeOK
<1>5. ASSUME NothingHidden, NEW x \in nuls' \cap 0..(length' - 1) PROVE FALSE
  <2>1. x \in Nat /\ x < length + 1 /\ x # length /\ x \in nuls
    BY <1>1, <1>2, <1>3, <1>5
  <2>2. x \in 0..(length - 1)
    BY <1>1, <2>1
  <2> QED BY <1>5, <2>1, <2>2 DEF NothingHidden
<1> QED BY <1>4, <1>5 DEF NothingHidden

LEMMA ShowingDoubles ==
    ASSUME TypeOK, NEW number \in Counts, NEW sep \in Seps, NEW n \in Prints["double"],
           AppendDoubles(number, sep, n)
    PROVE  TypeOK' /\ (NothingHidden => NothingHidden')
<1> DEFINE bytes == number * (Reserves["double"] + sep)
           printed == (number - 1) * (n + sep)
<1>1. number \in Nat /\ sep \in Nat /\ n \in Nat /\ Reserves["double"] \in Nat
  BY BufferAssumption
<1>2. bytes \in Nat
  BY <1>1
<1>3. CASE number > 1
  <2>1. printed \in Nat
    BY <1>1, <1>3
  <2>2. Printed(bytes, printed)
    BY <1>3 DEF AppendDoubles
  <2> HIDE DEF bytes, printed
  <2> QED BY <1>2, <2>1, <2>2, ShowingPrinted
<1>4. CASE ~(number > 1)
  <2>1. size' = SizeAfter(bytes) /\ nuls' = Kept(bytes) /\ touched' = TouchedAfter(bytes)
        /\ length' = length /\ excess' = 0
    BY <1>4 DEF AppendDoubles
  <2> HIDE DEF bytes
  <2>2. nuls' \subseteq nuls /\ size' \in Nat \ {0} /\ touched' \in Nat
    BY <1>2, <2>1, Grown
  <2>3. TypeOK'
    BY <2>1, <2>2 DEF TypeOK
  <2> QED BY <2>1, <2>2, <2>3 DEF NothingHidden
<1> QED BY <1>3, <1>4

LEMMA ShowingNext == TypeOK /\ Next => TypeOK' /\ (NothingHidden => NothingHidden')
<1> SUFFICES ASSUME TypeOK, Next PROVE TypeOK' /\ (NothingHidden => NothingHidden')
  OBVIOUS
<1>1. ASSUME NEW n \in Texts, NEW b \in Texts, AppendText(n, b)
      PROVE  TypeOK' /\ (NothingHidden => NothingHidden')
  BY <1>1, ShowingPrinted, BufferAssumption DEF AppendText
<1>2. ASSUME NEW t \in Types, NEW n \in Prints[t], AppendNumber(t, n)
      PROVE  TypeOK' /\ (NothingHidden => NothingHidden')
  <2>1. Reserves[t] \in Nat /\ n \in Nat
    BY BufferAssumption
  <2> QED BY <1>2, <2>1, ShowingPrinted DEF AppendNumber
<1> QED BY <1>1, <1>2, ShowingChar, ShowingDoubles DEF Next

LEMMA ShowingInit == Init => TypeOK /\ (InitTexts = {} => NothingHidden)
<1> SUFFICES ASSUME Init PROVE TypeOK /\ (InitTexts = {} => NothingHidden)
  OBVIOUS
<1>1. TypeOK
  BY BufferAssumption DEF Init, TypeOK, Highest
<1>2. InitTexts = {} => length = 0
  BY DEF Init
<1> QED BY <1>1, <1>2 DEF NothingHidden

\* Everything appended shows, in a buffer of any size that begins empty: no sequence of
\* appends and no growth leaves a NUL inside the text in use, although every sprintf
\* writes one behind its text and append(char) none (Buffer.hh:29-56).  A buffer made
\* with an initial value counts the NUL of it, and hides all that is behind (Buffer.cc:24).
THEOREM AllShows == InitTexts = {} /\ Spec => []NothingHidden
<1> SUFFICES ASSUME InitTexts = {} PROVE Spec => []NothingHidden
  OBVIOUS
<1>1. Init => Showing
  BY ShowingInit DEF Showing
<1>2. Showing /\ [Next]_vars => Showing'
  <2>1. CASE UNCHANGED vars
    BY <2>1 DEF vars, Showing, TypeOK, NothingHidden
  <2> QED BY <2>1, ShowingNext DEF Showing
<1>3. Showing => NothingHidden
  BY DEF Showing
<1> QED BY <1>1, <1>2, <1>3, PTL DEF Spec

-----------------------------------------------------------------------------
(* Tokens, and sequences of them. *)

LEMMA TagsWide ==
    ASSUME NEW toks \in Seq(Bld!Token), NEW i \in 1..Len(toks)
    PROVE  Width[toks[i].tag] \in Nat
<1>1. toks[i] \in Bld!Token
  OBVIOUS
<1>2. toks[i].tag \in Bld!Tags
  BY <1>1 DEF Bld!Token, Bld!Tags
<1> QED BY <1>2, CspAssumption

LEMMA Part ==
    ASSUME NEW S, NEW s \in Seq(S), NEW m \in 1..(Len(s) + 1), NEW n \in 0..Len(s)
    PROVE  SubSeq(s, m, n) \in Seq(S)
OBVIOUS

LEMMA Concats ==
    ASSUME NEW S
    PROVE  /\ \A s, t \in Seq(S) : s \o t \in Seq(S)
           /\ \A s \in Seq(S), x \in S : Append(s, x) \in Seq(S)
           /\ \A x \in S : <<x>> \in Seq(S)
           /\ <<>> \in Seq(S)
OBVIOUS

\* The first and the last place where something is found.
LEMMA Found ==
    ASSUME NEW n \in Nat, NEW I \in SUBSET (1..n), I # {}
    PROVE  Bld!Min(I) \in I /\ Bld!Max(I) \in I
<1>1. I \in SUBSET Nat /\ I \in SUBSET (0..n)
  OBVIOUS
<1>2. \E x \in I : \A y \in I : x <= y
  BY <1>1, Least
<1>3. \E x \in I : \A y \in I : x >= y
  BY <1>1, Greatest
<1> QED BY <1>2, <1>3 DEF Bld!Min, Bld!Max

\* Sequences in a row.
LEMMA JoinedSteps ==
    ASSUME NEW S, NEW ss \in Seq(Seq(S))
    PROVE  \E u : /\ Bld!Joined(ss) = u[Len(ss)] /\ u[0] = <<>>
                  /\ \A i \in 1..Len(ss) : u[i] = u[i - 1] \o ss[i]
<1> DEFINE n == Len(ss)
           V == Seq(S)
           none == <<>>
           turn == [m \in 1..n |-> [v \in V |-> v \o ss[m]]]
           F(g) == [i \in 0..n |-> IF i = 0 THEN <<>> ELSE g[i - 1] \o ss[i]]
           u == CHOOSE g : g = F(g)
<1>1. n \in Nat /\ none \in V /\ \A i \in 1..n : \A v \in V : v \o ss[i] \in V
  OBVIOUS
<1>2. turn \in Turns(V, n)
  <2> HIDE DEF V, n
  <2> QED BY <1>1 DEF Turns
<1>3. \A m \in 1..n : \A v \in V : turn[m][v] = v \o ss[m]
  <2> HIDE DEF V, n
  <2> QED OBVIOUS
<1>4. PICK f \in Made(V, none, turn, n) : TRUE
  <2> HIDE DEF V, n, none, turn, F, u
  <2>1. n \in Nat /\ none \in V
    BY <1>1
  <2> QED BY <1>2, <2>1, Recursion
<1>41. f \in [0..n -> V] /\ f[0] = none /\ \A m \in 1..n : f[m] = turn[m][f[m - 1]]
  <2> HIDE DEF V, n, none, turn, F, u
  <2> QED BY <1>4 DEF Made
<1>5. \A m \in 1..n : m - 1 \in 0..n /\ f[m - 1] \in V
  <2> HIDE DEF V, n
  <2> QED BY <1>1, <1>41
<1>6. \A m \in 1..n : f[m] = f[m - 1] \o ss[m]
  BY <1>3, <1>41, <1>5, Zenon
<1>7. f = F(f)
  <2>1. f = [i \in 0..n |-> f[i]]
    <3> HIDE DEF V, n
    <3> QED BY <1>41
  <2>2. \A i \in 0..n : i = 0 \/ i \in 1..n
    BY <1>1
  <2>3. \A i \in 0..n : f[i] = IF i = 0 THEN <<>> ELSE f[i - 1] \o ss[i]
    BY <1>41, <1>6, <2>2, Zenon DEF none
  <2> QED BY <2>1, <2>3, Zenon
<1>8. u = F(u)
  BY <1>7, Zenon
<1>9. Bld!Joined(ss) = u[n]
  BY DEF Bld!Joined
<1> HIDE DEF u
<1>10. \A i \in 1..n : u[i] = u[i - 1] \o ss[i]
  <2> TAKE i \in 1..n
  <2>1. i \in 0..n /\ i # 0
    BY <1>1
  <2>2. u[i] = F(u)[i]
    BY <1>8, Zenon
  <2> QED BY <2>1, <2>2, Zenon
<1>11. u[0] = <<>>
  <2>1. 0 \in 0..n
    BY <1>1
  <2>2. u[0] = F(u)[0]
    BY <1>8, Zenon
  <2> QED BY <2>1, <2>2, Zenon
<1> QED BY <1>9, <1>10, <1>11, Zenon

LEMMA JoinedType ==
    ASSUME NEW S, NEW ss \in Seq(Seq(S))
    PROVE  Bld!Joined(ss) \in Seq(S)
<1>1. PICK u : /\ Bld!Joined(ss) = u[Len(ss)] /\ u[0] = <<>>
               /\ \A i \in 1..Len(ss) : u[i] = u[i - 1] \o ss[i]
  BY JoinedSteps
<1>2. Len(ss) \in Nat /\ \A i \in 1..Len(ss) : ss[i] \in Seq(S)
  OBVIOUS
<1>3. u[0] \in Seq(S)
  BY <1>1, Concats
<1>41. \A i \in 1..Len(ss) : u[i - 1] \in Seq(S) => u[i] \in Seq(S)
  BY <1>1, <1>2, Concats, Zenon
<1>5. Len(ss) \in 0..Len(ss)
  BY <1>2
<1>6. \A i \in 0..Len(ss) : u[i] \in Seq(S)
  BY <1>2, <1>3, <1>41, Typed, Zenon
<1> QED BY <1>1, <1>5, <1>6

\* The width of a text is a number.
LEMMA WidthSteps ==
    ASSUME NEW toks \in Seq(Bld!Token)
    PROVE  \E u : /\ WidthOf(toks) = u[Len(toks)] /\ u[0] = 0
                  /\ \A i \in 1..Len(toks) : u[i] = u[i - 1] + Width[toks[i].tag]
<1> DEFINE n == Len(toks)
           w == [i \in DOMAIN toks |-> Width[toks[i].tag]]
<1>1. n \in Nat /\ \A i \in 1..n : w[i] = Width[toks[i].tag] /\ w[i] \in Nat
  BY TagsWide
<1>2. WidthOf(toks) = SumTo(w, n)
  BY DEF WidthOf
<1> HIDE DEF w, n
<1>3. PICK u : SumTo(w, n) = u[n] /\ Adds(u, w, n)
  BY <1>1, SumSteps
<1>4. \A i \in 1..n : u[i] = u[i - 1] + Width[toks[i].tag]
  BY <1>1, <1>3 DEF Adds
<1> QED BY <1>2, <1>3, <1>4 DEF Adds, n

LEMMA WidthType ==
    ASSUME NEW toks \in Seq(Bld!Token)
    PROVE  WidthOf(toks) \in Nat
<1>1. PICK u : /\ WidthOf(toks) = u[Len(toks)] /\ u[0] = 0
               /\ \A i \in 1..Len(toks) : u[i] = u[i - 1] + Width[toks[i].tag]
  BY WidthSteps
<1>2. Len(toks) \in Nat /\ \A i \in 1..Len(toks) : Width[toks[i].tag] \in Nat
  BY TagsWide
<1>3. u[0] \in Nat
  BY <1>1
<1>4. \A i \in 1..Len(toks) : u[i - 1] \in Nat => u[i] \in Nat
  BY <1>1, <1>2, SMTT(30)
<1>5. Len(toks) \in 0..Len(toks)
  BY <1>2
<1>6. \A i \in 0..Len(toks) : u[i] \in Nat
  BY <1>2, <1>3, <1>4, Typed, Zenon
<1> QED BY <1>1, <1>5, <1>6

-----------------------------------------------------------------------------
(* The compiler: what it finds in a line, and the pieces it makes of one. *)

LEMMA FirstFinds ==
    ASSUME NEW s \in Seq(Bld!Token), NEW tags
    PROVE  /\ Bld!First(s, tags) \in 0..Len(s)
           /\ Bld!First(s, tags) # 0 =>
                /\ s[Bld!First(s, tags)] \in Bld!Token
                /\ s[Bld!First(s, tags)].tag \in tags
           /\ Bld!First(s, tags) = 0 => \A i \in 1..Len(s) : s[i].tag \notin tags
<1> DEFINE I == {i \in 1..Len(s) : s[i].tag \in tags}
<1>1. Bld!First(s, tags) = IF I # {} THEN Bld!Min(I) ELSE 0
  BY DEF Bld!First, Bld!SelectInSeq
<1>2. Len(s) \in Nat /\ I \in SUBSET (1..Len(s)) /\ \A i \in 1..Len(s) : s[i] \in Bld!Token
  OBVIOUS
<1>3. \A i \in I : i \in 1..Len(s) /\ s[i].tag \in tags
  OBVIOUS
<1>4. I = {} => \A i \in 1..Len(s) : s[i].tag \notin tags
  OBVIOUS
<1> HIDE DEF I
<1>5. CASE I = {}
  BY <1>1, <1>2, <1>4, <1>5
<1>6. CASE I # {}
  <2>1. Bld!First(s, tags) \in I
    BY <1>1, <1>2, <1>6, Found
  <2>2. Bld!First(s, tags) \in 1..Len(s)
    BY <1>3, <2>1
  <2>3. Bld!First(s, tags) # 0 /\ Bld!First(s, tags) \in 0..Len(s)
    BY <1>2, <2>2
  <2> QED BY <1>2, <1>3, <2>1, <2>2, <2>3, Zenon
<1> QED BY <1>5, <1>6

LEMMA Pieces ==
    ASSUME NEW s \in Seq(Bld!Token), NEW i \in 0..Len(s)
    PROVE  Bld!UpTo(s, i) \in Seq(Bld!Token) /\ Bld!Behind(s, i) \in Seq(Bld!Token)
<1>1. Bld!UpTo(s, i) \in Seq(Bld!Token)
  <2>1. CASE i = 0
    <3>1. SubSeq(s, 1, 0 - 1) = <<>>
      OBVIOUS
    <3> QED BY <2>1, <3>1, Concats DEF Bld!UpTo
  <2>2. CASE i # 0
    <3>1. 1 \in 1..(Len(s) + 1) /\ i - 1 \in 0..Len(s)
      BY <2>2
    <3> QED BY <3>1, Part DEF Bld!UpTo
  <2> QED BY <2>1, <2>2
<1>2. i + 1 \in 1..(Len(s) + 1) /\ Len(s) \in 0..Len(s)
  OBVIOUS
<1>3. Bld!Behind(s, i) \in Seq(Bld!Token)
  BY <1>2, Part DEF Bld!Behind
<1> QED BY <1>1, <1>3

LEMMA TrimType ==
    ASSUME NEW s \in Seq(Bld!Token)
    PROVE  Bld!Trim(s) \in Seq(Bld!Token)
<1> DEFINE I == {i \in 1..Len(s) : s[i] # Bld!Break}
           from == IF I # {} THEN Bld!Min(I) ELSE 0
           last == IF I # {} THEN Bld!Max(I) ELSE 0
<1>1. Bld!Trim(s) = IF from = 0 THEN <<>> ELSE SubSeq(s, from, last)
  BY DEF Bld!Trim, Bld!SelectInSeq, Bld!SelectLastInSeq
<1>2. Len(s) \in Nat /\ I \in SUBSET (1..Len(s))
  OBVIOUS
<1> HIDE DEF I
<1>3. from # 0 => from \in 1..Len(s) /\ last \in 1..Len(s)
  BY <1>2, Found
<1> HIDE DEF from, last
<1>4. from # 0 => from \in 1..(Len(s) + 1) /\ last \in 0..Len(s)
  BY <1>2, <1>3
<1> QED BY <1>1, <1>4, Part, Concats

LEMMA BlockType ==
    ASSUME NEW s \in Seq(Bld!Token), NEW b \in Bld!BlockIn(s)
    PROVE  b.name \in Names /\ b.body \in Seq(Bld!Token) /\ b.behind \in Seq(Bld!Token)
<1> DEFINE from == Bld!First(s, {"open"})
           I == {i \in (from + 1)..Len(s) : s[i] = Bld!CloseTag}
           to == IF I # {} THEN Bld!Min(I) ELSE 0
           block == [name |-> s[from].id, body |-> Bld!Trim(SubSeq(s, from + 1, to - 1)),
                     behind |-> Bld!Behind(s, to)]
<1>1. from # 0 /\ to # 0 /\ b = block
  BY DEF Bld!BlockIn, Bld!SelectInSubSeq
<1>2. from \in 1..Len(s) /\ s[from] \in Bld!Token /\ s[from].tag = "open"
  BY <1>1, FirstFinds
<1>3. s[from].id \in Names
  BY <1>2 DEF Bld!Token
<1>4. I \in SUBSET (1..Len(s)) /\ I \in SUBSET ((from + 1)..Len(s)) /\ Len(s) \in Nat
  BY <1>2
<1> HIDE DEF I
<1>5. to \in (from + 1)..Len(s)
  BY <1>1, <1>4, Found
<1> HIDE DEF from, to
<1>6. /\ from + 1 \in 1..(Len(s) + 1) /\ to - 1 \in 0..Len(s) /\ to \in 0..Len(s)
  BY <1>2, <1>4, <1>5
<1>7. SubSeq(s, from + 1, to - 1) \in Seq(Bld!Token)
  BY <1>6, Part
<1> QED BY <1>1, <1>3, <1>6, <1>7, TrimType, Pieces

LEMMA Escapes ==
    ASSUME NEW s \in Seq(Bld!Token)
    PROVE  /\ Bld!Literal(s) \in Seq(Bld!Token) /\ Bld!Escaped(s) \in Seq(Bld!Token)
           /\ Len(Bld!Escaped(s)) = Len(s)
           /\ \A i \in 1..Len(s) : Bld!Escaped(s)[i].tag =
                                       IF s[i].tag = "quoting" THEN "broken" ELSE s[i].tag
<1>1. DOMAIN s = 1..Len(s) /\ Len(s) \in Nat /\ \A i \in 1..Len(s) : s[i] \in Bld!Token
  OBVIOUS
<1>2. ASSUME NEW t \in Bld!Token
      PROVE  /\ t.tag = "percent" => [t EXCEPT !.tag = "percents"] \in Bld!Token
             /\ t.tag = "quoting" => [t EXCEPT !.tag = "broken"] \in Bld!Token
             /\ [t EXCEPT !.tag = "broken"].tag = "broken"
  <2>1. t.tag \notin {"attr", "open"} => t \in [tag : Bld!Tags \ {"attr", "open"},
                                                id : Names \cup {""}, val : Nat]
    BY DEF Bld!Token
  <2>2. "percents" \in Bld!Tags \ {"attr", "open"} /\ "broken" \in Bld!Tags \ {"attr", "open"}
    BY DEF Bld!Tags
  <2>3. "tag" \in DOMAIN t
    BY DEF Bld!Token
  <2> QED BY <2>1, <2>2, <2>3 DEF Bld!Token
<1>3. \A i \in 1..Len(s) : (IF s[i].tag = "percent" THEN [s[i] EXCEPT !.tag = "percents"]
                            ELSE s[i]) \in Bld!Token
  BY <1>1, <1>2, Zenon
<1>4. \A i \in 1..Len(s) : (IF s[i].tag = "quoting" THEN [s[i] EXCEPT !.tag = "broken"]
                            ELSE s[i]) \in Bld!Token
  BY <1>1, <1>2, Zenon
<1>5. Bld!Literal(s) \in [1..Len(s) -> Bld!Token] /\ Bld!Escaped(s) \in [1..Len(s) -> Bld!Token]
  BY <1>1, <1>3, <1>4, Zenon DEF Bld!Literal, Bld!Escaped
<1>6. \A f \in [1..Len(s) -> Bld!Token] : f \in Seq(Bld!Token) /\ Len(f) = Len(s)
  <2>1. \A n \in Nat : \A f \in [1..n -> Bld!Token] : f \in Seq(Bld!Token) /\ Len(f) = n
    OBVIOUS
  <2> QED BY <1>1, <2>1, Zenon
<1>7. \A i \in 1..Len(s) : Bld!Escaped(s)[i] =
        IF s[i].tag = "quoting" THEN [s[i] EXCEPT !.tag = "broken"] ELSE s[i]
  BY <1>1, Zenon DEF Bld!Escaped
<1>8. \A i \in 1..Len(s) : Bld!Escaped(s)[i].tag =
        IF s[i].tag = "quoting" THEN "broken" ELSE s[i].tag
  <2> TAKE i \in 1..Len(s)
  <2>1. CASE s[i].tag = "quoting"
    <3>1. Bld!Escaped(s)[i] = [s[i] EXCEPT !.tag = "broken"]
      BY <1>7, <2>1, Zenon
    <3>2. s[i] \in Bld!Token
      BY <1>1
    <3>3. [s[i] EXCEPT !.tag = "broken"].tag = "broken"
      BY <1>2, <3>2, Zenon
    <3> QED BY <2>1, <3>1, <3>3
  <2>2. CASE s[i].tag # "quoting"
    BY <1>7, <2>2, Zenon
  <2> QED BY <2>1, <2>2
<1> QED BY <1>5, <1>6, <1>8, Zenon

\* Lines.
LEMMA LinesType ==
    ASSUME NEW e \in Bld!Element
    PROVE  Bld!LinesOf(e) \in Seq(Seq(Bld!Token))
<1>1. /\ e.pre \in Seq(Bld!Token) /\ e.suf \in Seq(Bld!Token)
      /\ e.body \in Seq(Seq(Bld!Token))
      /\ e.tag \in Bld!Token \cup [tag : {"block"}, id : Names, val : Nat]
  BY DEF Bld!Element
<1>2. CASE e.tag.tag # "block"
  <2>1. e.tag \in Bld!Token
    BY <1>1, <1>2
  <2>2. e.pre \o <<e.tag>> \o e.suf \in Seq(Bld!Token)
    BY <1>1, <2>1, Concats
  <2> HIDE DEF Bld!Token
  <2>3. <<e.pre \o <<e.tag>> \o e.suf>> \in Seq(Seq(Bld!Token))
    BY <2>2, Concats
  <2> QED BY <1>2, <2>3 DEF Bld!LinesOf
<1>3. CASE e.tag.tag = "block"
  <2> DEFINE k == Len(e.body)
             opened == Append(e.pre, Bld!OpenTag(e.tag.id))
             closed == <<Bld!CloseTag>> \o e.suf
             line(i) == (IF i = 1 THEN opened ELSE <<>>) \o e.body[i] \o (IF i = k THEN closed ELSE <<>>)
  <2>1. e.tag.id \in Names
    <3>1. e.tag \in [tag : {"block"}, id : Names, val : Nat]
      BY <1>1, <1>3 DEF Bld!Token, Bld!Tags
    <3> QED BY <3>1
  <2>2. Bld!OpenTag(e.tag.id) \in Bld!Token /\ Bld!CloseTag \in Bld!Token
    BY <2>1 DEF Bld!OpenTag, Bld!CloseTag, Bld!Tok, Bld!Token, Bld!Tags
  <2>3. opened \in Seq(Bld!Token) /\ closed \in Seq(Bld!Token)
    BY <1>1, <2>2, Concats
  <2>4. k \in Nat /\ \A i \in 1..k : e.body[i] \in Seq(Bld!Token)
    BY <1>1
  <2> HIDE DEF opened, closed
  <2>5. \A i \in 1..k : line(i) \in Seq(Bld!Token)
    BY <2>3, <2>4, Concats
  <2>6. Bld!LinesOf(e) = [i \in 1..k |-> line(i)]
    BY <1>3, Zenon DEF Bld!LinesOf, opened, closed
  <2> HIDE DEF line, k
  <2>7. [i \in 1..k |-> line(i)] \in [1..k -> Seq(Bld!Token)]
    BY <2>5
  <2>8. \A n \in Nat : \A f \in [1..n -> Seq(Bld!Token)] : f \in Seq(Seq(Bld!Token))
    OBVIOUS
  <2> QED BY <2>4, <2>6, <2>7, <2>8, Zenon
<1> QED BY <1>2, <1>3

LEMMA FileType ==
    ASSUME NEW elems \in Seq(Bld!Element)
    PROVE  Bld!File(elems) \in Seq(Seq(Bld!Token))
<1>1. DOMAIN elems = 1..Len(elems) /\ Len(elems) \in Nat
      /\ \A i \in 1..Len(elems) : elems[i] \in Bld!Element
  OBVIOUS
<1> DEFINE S == Seq(Seq(Bld!Token))
           files == [i \in DOMAIN elems |-> Bld!LinesOf(elems[i])]
<1>2. \A i \in 1..Len(elems) : Bld!LinesOf(elems[i]) \in S
  BY <1>1, LinesType
<1>3. files \in [1..Len(elems) -> S]
  <2> HIDE DEF S
  <2> QED BY <1>1, <1>2
<1>4. \A n \in Nat : \A f \in [1..n -> S] : f \in Seq(S)
  <2> HIDE DEF S
  <2> QED OBVIOUS
<1>5. files \in Seq(S)
  BY <1>1, <1>3, <1>4, Zenon
<1>6. Bld!Joined(files) \in Seq(Seq(Bld!Token))
  <2> HIDE DEF files
  <2> QED BY <1>5, JoinedType
<1> QED BY <1>6 DEF Bld!File

LEMMA FilesType ==
    ASSUME given \in Given, inc \in Bases \cup {NoFile}
    PROVE  Bld!GivenFile \in Seq(Seq(Bld!Token)) /\ Bld!BaseFile \in Seq(Seq(Bld!Token))
<1>1. given.elems \in Seq(Bld!Element)
  BY CspAssumption
<1>2. Bld!Tok("extends", "", 0) \in Bld!Token
  BY DEF Bld!Tok, Bld!Token, Bld!Tags
<1>3. <<<<Bld!Tok("extends", "", 0)>>>> \in Seq(Seq(Bld!Token))
  <2>1. <<Bld!Tok("extends", "", 0)>> \in Seq(Bld!Token)
    BY <1>2, Concats
  <2> QED BY <2>1, Concats
<1>4. Bld!GivenFile \in Seq(Seq(Bld!Token))
  BY <1>1, <1>3, FileType, Concats DEF Bld!GivenFile
<1>5. Bld!Inherits => inc \in Seq(Bld!Element)
  BY CspAssumption DEF Bld!Inherits
<1> QED BY <1>4, <1>5, FileType DEF Bld!BaseFile

-----------------------------------------------------------------------------
(* The statements the compiler makes: a value is one variable, and as wide as *)
(* one.                                                                       *)

Good == {s \in Bld!Statements : s.kind = "value" => WidthOf(s.toks) = Width["var"]}

LEMMA Single ==
    ASSUME NEW t \in Bld!Token, t.tag = "var"
    PROVE  WidthOf(<<t>>) = Width["var"]
<1>1. <<t>> \in Seq(Bld!Token)
  BY Concats
<1>2. PICK u : /\ WidthOf(<<t>>) = u[Len(<<t>>)] /\ u[0] = 0
               /\ \A i \in 1..Len(<<t>>) : u[i] = u[i - 1] + Width[<<t>>[i].tag]
  BY <1>1, WidthSteps
<1>3. Len(<<t>>) = 1 /\ <<t>>[1] = t /\ 1 \in 1..Len(<<t>>) /\ 1 - 1 = 0
  OBVIOUS
<1>4. Width[<<t>>[1].tag] \in Nat
  BY <1>1, <1>3, TagsWide
<1>5. u[1] = u[0] + Width[<<t>>[1].tag]
  BY <1>2, <1>3
<1>6. Width[<<t>>[1].tag] = Width["var"]
  BY <1>3
<1> QED BY <1>2, <1>3, <1>4, <1>5, <1>6

LEMMA StatementTypes ==
    /\ \A s \in Seq(Bld!Token) : Bld!AppendText(s) \in Good
    /\ \A t \in Bld!Token : Bld!Code(t) \in Good /\ (t.tag = "var" => Bld!Value(t) \in Good)
<1>1. ASSUME NEW s \in Seq(Bld!Token) PROVE Bld!AppendText(s) \in Good
  <2>1. "append" # "value"
    OBVIOUS
  <2> QED BY <2>1 DEF Bld!AppendText, Good, Bld!Statements
<1>2. ASSUME NEW t \in Bld!Token PROVE Bld!Code(t) \in Good
  <2>1. <<t>> \in Seq(Bld!Token)
    BY Concats
  <2> HIDE DEF Bld!Token
  <2> QED BY <2>1 DEF Bld!Code, Good, Bld!Statements
<1>3. ASSUME NEW t \in Bld!Token, t.tag = "var" PROVE Bld!Value(t) \in Good
  <2>1. <<t>> \in Seq(Bld!Token) /\ WidthOf(<<t>>) = Width["var"]
    BY <1>3, Single, Concats
  <2> QED BY <2>1 DEF Bld!Value, Good, Bld!Statements
<1> QED BY <1>1, <1>2, <1>3

LEMMA NewlineType == Bld!Newline \in Bld!Token /\ Bld!Break \in Bld!Token /\ Bld!Junk \in Bld!Token
BY DEF Bld!Newline, Bld!Break, Bld!Junk, Bld!Tok, Bld!Token, Bld!Tags

LEMMA Statemented ==
    ASSUME NEW s \in Seq(Bld!Token)
    PROVE  Bld!NonEmpty(s) \in Seq(Good) /\ Bld!WithNewline(s) \in Seq(Good)
<1>1. Bld!Literal(s) \in Seq(Bld!Token)
  BY Escapes
<1>2. Append(Bld!Literal(s), Bld!Newline) \in Seq(Bld!Token)
  BY <1>1, NewlineType, Concats
<1>3. Bld!AppendText(Bld!Literal(s)) \in Good
      /\ Bld!AppendText(Append(Bld!Literal(s), Bld!Newline)) \in Good
  BY <1>1, <1>2, StatementTypes
<1> QED BY <1>3, Concats DEF Bld!NonEmpty, Bld!WithNewline

LEMMA TextToken ==
    ASSUME NEW n \in Nat
    PROVE  <<Bld!Tok("text", "", n)>> \in Seq(Bld!Token)
<1>1. Bld!Tok("text", "", n) \in Bld!Token
  BY DEF Bld!Tok, Bld!Token, Bld!Tags
<1> QED BY <1>1, Concats

LEMMA FilledType ==
    ASSUME mp \in [Names -> Seq(Bld!Token)], NEW n \in Names, NEW default \in Seq(Bld!Token)
    PROVE  Bld!Filled(n, default) \in Seq(Good)
<1>1. mp[n] \in Seq(Bld!Token)
  OBVIOUS
<1>2. Bld!AppendText(mp[n]) \in Good /\ Bld!AppendText(default) \in Good
  BY <1>1, StatementTypes
<1> QED BY <1>2, Concats DEF Bld!Filled

-----------------------------------------------------------------------------
(* The invariant of the compiler. *)

Fixed ==
    /\ given \in Given /\ inc \in Bases \cup {NoFile}
    /\ child = Bld!GivenFile /\ base = Bld!BaseFile
Gathering == aux \in Seq(Bld!Token) /\ (stage \in {"open", "compile", "done"} => aux = <<>>)
Reading ==
    /\ stage \in {"open", "collect", "compile", "search", "done", "refused", "endless"}
    /\ pos \in 0..(IF stage \in {"open", "collect"} THEN Len(child) ELSE Len(base))
    /\ stage = "open" => pos = 0
Filling == mp \in [Names -> Seq(Bld!Token)]
Making == out \in Seq(Good)
CompilerInv == Fixed /\ Reading /\ Gathering /\ Filling /\ Making

LEMMA CompilerTyped == CompilerInv => Bld!TypeOK
<1>1. Seq(Good) \subseteq Seq(Bld!Statements)
  <2>1. Good \subseteq Bld!Statements
    BY DEF Good
  <2>2. \A S, T : S \subseteq T => Seq(S) \subseteq Seq(T)
    OBVIOUS
  <2> QED BY <2>1, <2>2, Zenon
<1> QED BY <1>1 DEF CompilerInv, Fixed, Gathering, Reading, Filling, Making, Bld!TypeOK

LEMMA FixedTypes ==
    ASSUME Fixed
    PROVE  child \in Seq(Seq(Bld!Token)) /\ base \in Seq(Seq(Bld!Token))
BY FilesType DEF Fixed

LEMMA FixedStep ==
    ASSUME Fixed, UNCHANGED <<given, inc, child, base>>
    PROVE  Fixed'
<1>1. Bld!GivenFile' = Bld!GivenFile
  BY DEF Bld!GivenFile, Bld!File
<1>2. Bld!BaseFile' = Bld!BaseFile
  BY <1>1 DEF Bld!BaseFile, Bld!Inherits, Bld!File
<1> QED BY <1>1, <1>2 DEF Fixed

\* The line at hand, as it is and with its quotes escaped.
LEMMA LineAt ==
    ASSUME CompilerInv, stage \in {"compile", "search"}, pos < Len(base)
    PROVE  /\ base[pos + 1] \in Seq(Bld!Token) /\ Bld!Line \in Seq(Bld!Token)
           /\ Bld!Line = Bld!Escaped(base[pos + 1])
           /\ pos + 1 \in 0..Len(base)
<1>1. base \in Seq(Seq(Bld!Token)) /\ pos \in 0..Len(base)
  BY FixedTypes DEF CompilerInv, Reading
<1>2. pos + 1 \in 1..Len(base) /\ pos + 1 \in 0..Len(base)
  BY <1>1
<1>3. base[pos + 1] \in Seq(Bld!Token)
  BY <1>1, <1>2
<1> QED BY <1>2, <1>3, Escapes DEF Bld!Line

\* What is found before the quotes are escaped is found after it.
LEMMA FoundAfter ==
    ASSUME NEW s \in Seq(Bld!Token), NEW tags
    PROVE  /\ "quoting" \notin tags /\ Bld!First(s, tags) # 0
                => Bld!First(Bld!Escaped(s), tags) # 0
           /\ Bld!First(s, {"code", "quoting"}) # 0
                => Bld!First(Bld!Escaped(s), {"code", "broken"}) # 0
<1> DEFINE e == Bld!Escaped(s)
<1>1. /\ e \in Seq(Bld!Token) /\ Len(e) = Len(s)
      /\ \A i \in 1..Len(s) : e[i].tag = IF s[i].tag = "quoting" THEN "broken" ELSE s[i].tag
  BY Escapes
<1> HIDE DEF e
<1>2. ASSUME "quoting" \notin tags, Bld!First(s, tags) # 0
      PROVE  Bld!First(e, tags) # 0
  <2>1. PICK i \in 1..Len(s) : s[i].tag \in tags
    <3>1. Bld!First(s, tags) \in 1..Len(s)
      BY <1>2, FirstFinds
    <3> QED BY <1>2, <3>1, FirstFinds
  <2>2. e[i].tag \in tags /\ i \in 1..Len(e)
    BY <1>1, <1>2, <2>1
  <2> QED BY <1>1, <2>2, FirstFinds
<1>3. ASSUME Bld!First(s, {"code", "quoting"}) # 0
      PROVE  Bld!First(e, {"code", "broken"}) # 0
  <2>1. PICK i \in 1..Len(s) : s[i].tag \in {"code", "quoting"}
    <3>1. Bld!First(s, {"code", "quoting"}) \in 1..Len(s)
      BY <1>3, FirstFinds
    <3> QED BY <1>3, <3>1, FirstFinds
  <2>2. e[i].tag \in {"code", "broken"} /\ i \in 1..Len(e)
    BY <1>1, <2>1
  <2> QED BY <1>1, <2>2, FirstFinds
<1> QED BY <1>2, <1>3 DEF e

-----------------------------------------------------------------------------
(* One lemma per action of the compiler. *)

LEMMA StepRefuse ==
    ASSUME CompilerInv, Bld!Refuse
    PROVE  CompilerInv'
<1>1. stage = "open" /\ stage' = "refused" /\ UNCHANGED <<given, inc, child, base, pos, aux, mp, out>>
  BY DEF Bld!Refuse
<1>2. Fixed'
  BY <1>1, FixedStep DEF CompilerInv
<1>3. pos = 0 /\ Len(base) \in Nat
  BY <1>1, FixedTypes DEF CompilerInv, Reading
<1>4. Reading'
  BY <1>1, <1>3 DEF Reading
<1> QED BY <1>1, <1>2, <1>4 DEF CompilerInv, Gathering, Filling, Making

LEMMA StepOpen ==
    ASSUME CompilerInv, Bld!Open
    PROVE  CompilerInv'
<1>1. /\ stage = "open" /\ child # <<>> /\ UNCHANGED <<given, inc, child, base, aux, mp, out>>
      /\ \/ stage' = "collect" /\ pos' = 1
         \/ stage' = "compile" /\ pos' = 0
  BY DEF Bld!Open
<1>2. Fixed'
  BY <1>1, FixedStep DEF CompilerInv
<1>3. Len(child) \in Nat /\ Len(child) >= 1 /\ Len(base) \in Nat
  BY <1>1, FixedTypes DEF CompilerInv
<1>4. Reading'
  BY <1>1, <1>3 DEF Reading
<1> QED BY <1>1, <1>2, <1>4 DEF CompilerInv, Gathering, Filling, Making

LEMMA StepCollect ==
    ASSUME CompilerInv, Bld!Collect
    PROVE  CompilerInv'
<1>1. /\ stage = "collect" /\ pos < Len(child) /\ pos' = pos + 1
      /\ UNCHANGED <<given, inc, child, base, stage, out>>
  BY DEF Bld!Collect
<1>2. Fixed'
  BY <1>1, FixedStep DEF CompilerInv
<1>3. child \in Seq(Seq(Bld!Token)) /\ pos \in 0..Len(child)
  BY <1>1, FixedTypes DEF CompilerInv, Reading
<1>4. Reading'
  BY <1>1, <1>3 DEF Reading
<1> DEFINE line == child[pos + 1]
           a == Bld!First(line, {"attr"})
<1>5. line \in Seq(Bld!Token)
  <2>1. pos + 1 \in 1..Len(child)
    BY <1>1, <1>3
  <2> QED BY <1>3, <2>1
<1>6. aux \in Seq(Bld!Token) /\ mp \in [Names -> Seq(Bld!Token)]
  BY DEF CompilerInv, Gathering, Filling
<1>7. CASE a # 0
  <2>1. /\ mp' = [mp EXCEPT ![line[a].id] = <<Bld!Tok("text", "", line[a].val)>>]
        /\ aux' = <<>>
    BY <1>7 DEF Bld!Collect
  <2> HIDE DEF line
  <2>2. line[a].val \in Nat
    BY <1>5, <1>7, FirstFinds DEF Bld!Token
  <2>3. <<Bld!Tok("text", "", line[a].val)>> \in Seq(Bld!Token)
    BY <2>2, TextToken
  <2>4. mp' \in [Names -> Seq(Bld!Token)]
    BY <1>6, <2>1, <2>3
  <2>5. aux' \in Seq(Bld!Token)
    BY <2>1, Concats
  <2> QED BY <1>1, <1>2, <1>4, <2>1, <2>4, <2>5 DEF CompilerInv, Gathering, Filling, Making
<1>8. CASE a = 0
  <2> DEFINE gathered == aux \o line
  <2>1. /\ \/ UNCHANGED mp
           \/ \E b \in Bld!BlockIn(gathered) : mp' = [mp EXCEPT ![b.name] = Bld!Literal(b.body)]
        /\ aux' = Bld!GatheredAfter(gathered)
    BY <1>8 DEF Bld!Collect
  <2>2. gathered \in Seq(Bld!Token)
    BY <1>5, <1>6, Concats
  <2> HIDE DEF gathered, line
  <2>3. \A b \in Bld!BlockIn(gathered) : Bld!Literal(b.body) \in Seq(Bld!Token)
    BY <2>2, BlockType, Escapes
  <2>4. mp' \in [Names -> Seq(Bld!Token)]
    BY <1>6, <2>1, <2>3
  <2>5. aux' \in Seq(Bld!Token)
    BY <2>1, <2>2, Concats DEF Bld!GatheredAfter
  <2> QED BY <1>1, <1>2, <1>4, <2>4, <2>5 DEF CompilerInv, Gathering, Filling, Making
<1> QED BY <1>7, <1>8

LEMMA StepCollectEnds ==
    ASSUME CompilerInv, Bld!CollectEnds
    PROVE  CompilerInv'
<1>1. /\ stage' = "compile" /\ pos' = 0 /\ aux' = <<>>
      /\ UNCHANGED <<given, inc, child, base, mp, out>>
  BY DEF Bld!CollectEnds
<1>2. Fixed'
  BY <1>1, FixedStep DEF CompilerInv
<1>3. Len(base) \in Nat
  BY FixedTypes DEF CompilerInv
<1>4. Reading'
  BY <1>1, <1>3 DEF Reading
<1>5. aux' \in Seq(Bld!Token)
  BY <1>1, Concats
<1> QED BY <1>1, <1>2, <1>4, <1>5 DEF CompilerInv, Gathering, Filling, Making

\* A line is compiled: statements are added, and the line was read.
LEMMA Compiled ==
    ASSUME CompilerInv, stage = "compile", pos < Len(base), pos' = pos + 1, out' \in Seq(Good),
           UNCHANGED <<given, inc, child, base, mp, stage, aux>>
    PROVE  CompilerInv'
<1>1. Fixed'
  BY FixedStep DEF CompilerInv
<1>2. pos + 1 \in 0..Len(base)
  BY LineAt
<1>3. Reading'
  BY <1>2 DEF Reading
<1> QED BY <1>1, <1>3 DEF CompilerInv, Gathering, Filling, Making

LEMMA StepVariable ==
    ASSUME CompilerInv, Bld!CompileVariable
    PROVE  CompilerInv'
<1> DEFINE i == Bld!First(Bld!Line, {"var"})
           before == Bld!NonEmpty(Bld!UpTo(Bld!Line, i))
           value == <<Bld!Value(Bld!Line[i])>>
           behind == Bld!WithNewline(Bld!Behind(Bld!Line, i))
<1>1. /\ stage = "compile" /\ pos < Len(base) /\ Bld!First(base[pos + 1], {"var"}) # 0
      /\ pos' = pos + 1 /\ UNCHANGED <<given, inc, child, base, mp>>
      /\ out' = out \o before \o value \o behind
      /\ UNCHANGED <<stage, aux>>
  BY DEF Bld!CompileVariable, Bld!Compiling
<1>2. /\ Bld!Line \in Seq(Bld!Token) /\ base[pos + 1] \in Seq(Bld!Token)
      /\ Bld!Line = Bld!Escaped(base[pos + 1])
  BY <1>1, LineAt
<1>3. i # 0
  BY <1>1, <1>2, FoundAfter
<1>4. i \in 0..Len(Bld!Line) /\ Bld!Line[i] \in Bld!Token /\ Bld!Line[i].tag = "var"
  BY <1>2, <1>3, FirstFinds
<1>5. Bld!UpTo(Bld!Line, i) \in Seq(Bld!Token) /\ Bld!Behind(Bld!Line, i) \in Seq(Bld!Token)
  BY <1>2, <1>4, Pieces
<1>6. Bld!Value(Bld!Line[i]) \in Good
  BY <1>4, StatementTypes
<1>7. before \in Seq(Good) /\ value \in Seq(Good) /\ behind \in Seq(Good)
  BY <1>5, <1>6, Statemented, Concats
<1> HIDE DEF before, value, behind
<1>8. out \in Seq(Good)
  BY DEF CompilerInv, Making
<1>9. out' \in Seq(Good)
  BY <1>1, <1>7, <1>8, Concats
<1> QED BY <1>1, <1>9, Compiled

LEMMA StepCode ==
    ASSUME CompilerInv, Bld!CompileCode
    PROVE  CompilerInv'
<1> DEFINE i == Bld!First(Bld!Line, {"code", "broken"})
           before == Bld!NonEmpty(Bld!UpTo(Bld!Line, i))
           code == <<Bld!Code(Bld!Line[i])>>
           rest == Bld!Behind(Bld!Line, i)
           behind == IF rest = <<>> THEN <<>> ELSE Bld!WithNewline(rest)
<1>1. /\ stage = "compile" /\ pos < Len(base)
      /\ Bld!First(base[pos + 1], {"code", "quoting"}) # 0
      /\ pos' = pos + 1 /\ UNCHANGED <<given, inc, child, base, mp>>
      /\ out' = out \o before \o code \o behind
      /\ UNCHANGED <<stage, aux>>
  BY DEF Bld!CompileCode, Bld!Compiling
<1>2. /\ Bld!Line \in Seq(Bld!Token) /\ base[pos + 1] \in Seq(Bld!Token)
      /\ Bld!Line = Bld!Escaped(base[pos + 1])
  BY <1>1, LineAt
<1>3. i # 0
  BY <1>1, <1>2, FoundAfter
<1>4. i \in 0..Len(Bld!Line) /\ Bld!Line[i] \in Bld!Token
  BY <1>2, <1>3, FirstFinds
<1>5. Bld!UpTo(Bld!Line, i) \in Seq(Bld!Token) /\ rest \in Seq(Bld!Token)
  BY <1>2, <1>4, Pieces
<1>6. Bld!Code(Bld!Line[i]) \in Good
  BY <1>4, StatementTypes
<1>7. before \in Seq(Good) /\ code \in Seq(Good) /\ behind \in Seq(Good)
  BY <1>5, <1>6, Statemented, Concats
<1> HIDE DEF before, code, behind
<1>8. out \in Seq(Good)
  BY DEF CompilerInv, Making
<1>9. out' \in Seq(Good)
  BY <1>1, <1>7, <1>8, Concats
<1> QED BY <1>1, <1>9, Compiled

LEMMA StepComment ==
    ASSUME CompilerInv, Bld!CompileComment
    PROVE  CompilerInv'
<1> DEFINE i == Bld!First(Bld!Line, {"comment"})
           rest == Bld!UpTo(Bld!Line, i) \o Bld!Behind(Bld!Line, i)
           more == IF rest = <<>> THEN <<>> ELSE Bld!WithNewline(rest)
<1>1. /\ stage = "compile" /\ pos < Len(base)
      /\ pos' = pos + 1 /\ UNCHANGED <<given, inc, child, base, mp>>
      /\ out' = (IF rest = <<>> THEN out ELSE out \o Bld!WithNewline(rest))
      /\ UNCHANGED <<stage, aux>>
  BY DEF Bld!CompileComment, Bld!Compiling
<1>2. Bld!Line \in Seq(Bld!Token)
  BY <1>1, LineAt
<1>3. i \in 0..Len(Bld!Line)
  BY <1>2, FirstFinds
<1>4. rest \in Seq(Bld!Token)
  BY <1>2, <1>3, Pieces, Concats
<1> HIDE DEF rest
<1>5. more \in Seq(Good)
  BY <1>4, Statemented, Concats
<1>6. out \in Seq(Good)
  BY DEF CompilerInv, Making
<1>7. out' \in Seq(Good)
  BY <1>1, <1>5, <1>6, Concats
<1> QED BY <1>1, <1>7, Compiled

LEMMA StepText ==
    ASSUME CompilerInv, Bld!CompileText
    PROVE  CompilerInv'
<1>1. /\ stage = "compile" /\ pos < Len(base) /\ pos' = pos + 1
      /\ out' = out \o Bld!WithNewline(Bld!Line)
      /\ UNCHANGED <<given, inc, child, base, stage, aux, mp>>
  BY DEF Bld!CompileText
<1>2. Bld!WithNewline(Bld!Line) \in Seq(Good)
  BY <1>1, LineAt, Statemented
<1>3. out' \in Seq(Good)
  BY <1>1, <1>2, Concats DEF CompilerInv, Making
<1> QED BY <1>1, <1>3, Compiled

LEMMA StepAttr ==
    ASSUME CompilerInv, Bld!CompileAttr
    PROVE  CompilerInv'
<1> DEFINE a == Bld!First(Bld!Line, {"attr"})
           t == Bld!First(Bld!Line, Bld!Substituted)
           before == <<Bld!AppendText(Bld!Literal(Bld!UpTo(Bld!Line, t)))>>
           filled == Bld!Filled(Bld!Line[a].id, <<Bld!Tok("text", "", Bld!Line[a].val)>>)
           behind == Bld!WithNewline(Bld!Behind(Bld!Line, a))
<1>1. /\ stage = "compile" /\ pos < Len(base) /\ Bld!First(base[pos + 1], {"attr"}) # 0
      /\ pos' = pos + 1 /\ UNCHANGED <<given, inc, child, base, mp>>
      /\ out' = out \o before \o filled \o behind
      /\ UNCHANGED <<stage, aux>>
  BY DEF Bld!CompileAttr, Bld!Compiling
<1>2. /\ Bld!Line \in Seq(Bld!Token) /\ base[pos + 1] \in Seq(Bld!Token)
      /\ Bld!Line = Bld!Escaped(base[pos + 1])
  BY <1>1, LineAt
<1>3. a # 0
  BY <1>1, <1>2, FoundAfter
<1>4. a \in 0..Len(Bld!Line) /\ Bld!Line[a] \in Bld!Token /\ Bld!Line[a].tag = "attr"
      /\ t \in 0..Len(Bld!Line)
  BY <1>2, <1>3, FirstFinds
<1>5. Bld!UpTo(Bld!Line, t) \in Seq(Bld!Token) /\ Bld!Behind(Bld!Line, a) \in Seq(Bld!Token)
  BY <1>2, <1>4, Pieces
<1>6. Bld!Line[a].id \in Names /\ Bld!Line[a].val \in Nat
  BY <1>4 DEF Bld!Token
<1>7. before \in Seq(Good)
  <2>1. Bld!AppendText(Bld!Literal(Bld!UpTo(Bld!Line, t))) \in Good
    BY <1>5, Escapes, StatementTypes
  <2> QED BY <2>1, Concats
<1>8. filled \in Seq(Good)
  BY <1>6, TextToken, FilledType DEF CompilerInv, Filling
<1>9. behind \in Seq(Good) /\ out \in Seq(Good)
  BY <1>5, Statemented DEF CompilerInv, Making
<1> HIDE DEF before, filled, behind
<1>10. out' \in Seq(Good)
  BY <1>1, <1>7, <1>8, <1>9, Concats
<1> QED BY <1>1, <1>10, Compiled

LEMMA StepTag ==
    ASSUME CompilerInv, Bld!CompileTag
    PROVE  CompilerInv'
<1> DEFINE t == Bld!First(Bld!Line, Bld!Substituted)
           text == Bld!AppendText(Bld!Literal(Bld!UpTo(Bld!Line, t)))
<1>1. /\ stage = "compile" /\ pos < Len(base)
      /\ pos' = pos + 1 /\ UNCHANGED <<given, inc, child, base, mp>>
      /\ out' = Append(out, text) /\ aux' = Bld!Line /\ stage' = "search"
  BY DEF Bld!CompileTag, Bld!Compiling
<1>2. Bld!Line \in Seq(Bld!Token) /\ pos + 1 \in 0..Len(base)
  BY <1>1, LineAt
<1>3. Bld!UpTo(Bld!Line, t) \in Seq(Bld!Token)
  BY <1>2, FirstFinds, Pieces
<1>4. text \in Good
  BY <1>3, Escapes, StatementTypes
<1>5. out' \in Seq(Good)
  <2> HIDE DEF text
  <2> QED BY <1>1, <1>4, Concats DEF CompilerInv, Making
<1>6. Fixed'
  BY <1>1, FixedStep DEF CompilerInv
<1>7. Reading'
  BY <1>1, <1>2 DEF Reading
<1> QED BY <1>1, <1>2, <1>5, <1>6, <1>7 DEF CompilerInv, Gathering, Filling, Making

LEMMA StepSearch ==
    ASSUME CompilerInv, Bld!SearchBlock
    PROVE  CompilerInv'
<1>1. stage = "search" /\ UNCHANGED <<given, inc, child, base, mp, out>>
  BY DEF Bld!SearchBlock
<1>2. Fixed'
  BY <1>1, FixedStep DEF CompilerInv
<1>3. aux \in Seq(Bld!Token) /\ pos \in 0..Len(base)
  BY <1>1 DEF CompilerInv, Gathering, Reading
<1>4. CASE pos < Len(base)
  <2>1. aux' = aux \o <<Bld!Break>> \o Bld!Line /\ pos' = pos + 1 /\ UNCHANGED stage
    BY <1>4 DEF Bld!SearchBlock
  <2>2. Bld!Line \in Seq(Bld!Token) /\ pos + 1 \in 0..Len(base)
    BY <1>1, <1>4, LineAt
  <2>3. aux' \in Seq(Bld!Token)
    BY <1>3, <2>1, <2>2, NewlineType, Concats
  <2>4. Reading'
    BY <1>1, <2>1, <2>2 DEF Reading
  <2> QED BY <1>1, <1>2, <2>1, <2>3, <2>4 DEF CompilerInv, Gathering, Filling, Making
<1>5. CASE ~(pos < Len(base))
  <2>1. stage' = "endless" /\ UNCHANGED <<aux, pos>>
    BY <1>5 DEF Bld!SearchBlock
  <2>2. Reading'
    BY <1>1, <1>3, <2>1 DEF Reading
  <2> QED BY <1>1, <1>2, <1>3, <2>1, <2>2 DEF CompilerInv, Gathering, Filling, Making
<1> QED BY <1>4, <1>5

LEMMA StepBlock ==
    ASSUME CompilerInv, Bld!CompileBlock
    PROVE  CompilerInv'
<1>1. /\ stage = "search" /\ stage' = "compile" /\ aux' = <<>>
      /\ UNCHANGED <<given, inc, child, base, pos, mp>>
  BY DEF Bld!CompileBlock
<1>2. PICK b \in Bld!BlockIn(aux) :
        \E s \in {b.behind} \cup (IF mp[b.name] # <<>> /\ b.behind # <<>> THEN {<<Bld!Junk>>} ELSE {}) :
            out' = out \o Bld!Filled(b.name, b.body) \o Bld!WithNewline(s)
  BY DEF Bld!CompileBlock
<1>3. PICK s : /\ s = b.behind \/ s = <<Bld!Junk>>
               /\ out' = out \o Bld!Filled(b.name, b.body) \o Bld!WithNewline(s)
  BY <1>2
<1>4. b.name \in Names /\ b.body \in Seq(Bld!Token) /\ b.behind \in Seq(Bld!Token)
  BY BlockType DEF CompilerInv, Gathering
<1>5. s \in Seq(Bld!Token)
  BY <1>3, <1>4, NewlineType, Concats
<1>6. Bld!Filled(b.name, b.body) \in Seq(Good) /\ Bld!WithNewline(s) \in Seq(Good)
  BY <1>4, <1>5, FilledType, Statemented DEF CompilerInv, Filling
<1>7. out' \in Seq(Good)
  BY <1>3, <1>6, Concats DEF CompilerInv, Making
<1>8. Fixed'
  BY <1>1, FixedStep DEF CompilerInv
<1>9. Reading'
  BY <1>1 DEF CompilerInv, Reading
<1>10. aux' \in Seq(Bld!Token)
  BY <1>1, Concats
<1> QED BY <1>1, <1>7, <1>8, <1>9, <1>10 DEF CompilerInv, Gathering, Filling, Making

LEMMA StepCompileEnds ==
    ASSUME CompilerInv, Bld!CompileEnds
    PROVE  CompilerInv'
<1>1. /\ stage = "compile" /\ stage' = "done"
      /\ UNCHANGED <<given, inc, child, base, pos, aux, mp, out>>
  BY DEF Bld!CompileEnds
<1>2. Fixed'
  BY <1>1, FixedStep DEF CompilerInv
<1>3. Reading'
  BY <1>1 DEF CompilerInv, Reading
<1> QED BY <1>1, <1>2, <1>3 DEF CompilerInv, Gathering, Filling, Making

LEMMA CompilerNext == CompilerInv /\ Bld!Next => CompilerInv'
BY StepRefuse, StepOpen, StepCollect, StepCollectEnds, StepVariable, StepCode, StepComment,
   StepText, StepAttr, StepTag, StepSearch, StepBlock, StepCompileEnds DEF Bld!Next

LEMMA CompilerInit == Bld!Init => CompilerInv
<1> SUFFICES ASSUME Bld!Init PROVE CompilerInv
  OBVIOUS
<1>1. Fixed
  BY DEF Bld!Init, Fixed
<1>2. Len(child) \in Nat
  BY <1>1, FixedTypes
<1>3. Reading
  BY <1>2 DEF Bld!Init, Reading
<1>4. <<>> \in Seq(Bld!Token) /\ <<>> \in Seq(Good)
  BY Concats
<1> QED BY <1>1, <1>3, <1>4 DEF Bld!Init, CompilerInv, Gathering, Filling, Making

LEMMA CompilerStutter == CompilerInv /\ UNCHANGED compiler => CompilerInv'
<1> SUFFICES ASSUME CompilerInv, UNCHANGED compiler PROVE CompilerInv'
  OBVIOUS
<1>1. UNCHANGED <<given, inc, child, base, stage, pos, aux, mp, out>>
  BY DEF compiler
<1>2. Fixed'
  BY <1>1, FixedStep DEF CompilerInv
<1> QED BY <1>1, <1>2 DEF CompilerInv, Reading, Gathering, Filling, Making

-----------------------------------------------------------------------------
(* The servlets. *)

\* No statement is executed before the program is there, and none of a servlet of one's own.
Serving ==
    /\ servlet \in Pages \cup {"generated", "own"}
    /\ step \in 0..Steps
    /\ servlet = "own" \/ (servlet = "generated" /\ stage # "done") => step = 0
CspInv == TypeOK /\ CompilerInv /\ Serving

LEMMA HandTyped ==
    ASSUME NEW page, NEW k
    PROVE  /\ HandStep(page, k).n \in Nat
           /\ HandStep(page, k).kind = "int" => HandStep(page, k).n <= 10
<1> DEFINE i == (k - 2) \div Len(RoundOf(page))
           number == Digits(NumberAt(page, i))
<1>1. number \in 1..10
  BY DigitsBound
<1>2. \/ HandStep(page, k) = Statement("text", 14)
      \/ HandStep(page, k) = Statement("text", 16)
      \/ HandStep(page, k) = Statement("text", 1)
      \/ HandStep(page, k) = Statement("int", number)
  BY Zenon DEF HandStep
<1> HIDE DEF number
<1>3. /\ Statement("text", 14).kind = "text" /\ Statement("text", 14).n = 14
      /\ Statement("text", 16).kind = "text" /\ Statement("text", 16).n = 16
      /\ Statement("text", 1).kind = "text" /\ Statement("text", 1).n = 1
      /\ Statement("int", number).kind = "int" /\ Statement("int", number).n = number
  BY DEF Statement
<1> QED BY <1>1, <1>2, <1>3

LEMMA StepTyped ==
    ASSUME CspInv, NEW k \in 1..Steps
    PROVE  /\ StepAt(k).n \in Nat
           /\ StepAt(k).kind = "int" => StepAt(k).n <= 10 \/ StepAt(k).n = Width["var"]
<1>1. CASE servlet \in Pages
  BY <1>1, HandTyped DEF StepAt
<1>2. CASE servlet \notin Pages
  <2>1. out \in Seq(Good)
    BY DEF CspInv, CompilerInv, Making
  <2>2. k \in 1..Len(out)
    BY <1>2 DEF Steps
  <2>3. out[k] \in Good
    BY <2>1, <2>2
  <2>4. /\ out[k].kind \in {"append", "value", "code"} /\ out[k].toks \in Seq(Bld!Token)
        /\ out[k].kind = "value" => WidthOf(out[k].toks) = Width["var"]
    BY <2>3 DEF Good, Bld!Statements
  <2>5. WidthOf(out[k].toks) \in Nat
    BY <2>4, WidthType
  <2>6. StepAt(k) = GeneratedStep(out[k])
    BY <1>2 DEF StepAt
  <2>7. CASE out[k].kind = "append"
    <3>1. StepAt(k) = Statement("text", WidthOf(out[k].toks))
      BY <2>6, <2>7 DEF GeneratedStep
    <3> QED BY <2>5, <3>1 DEF Statement
  <2>8. CASE out[k].kind = "value"
    <3>1. StepAt(k) = Statement("int", WidthOf(out[k].toks))
      BY <2>6, <2>8 DEF GeneratedStep
    <3> QED BY <2>4, <2>5, <2>8, <3>1 DEF Statement
  <2>9. CASE out[k].kind = "code"
    <3>1. StepAt(k) = Statement("code", 0)
      BY <2>6, <2>9 DEF GeneratedStep
    <3> QED BY <3>1 DEF Statement
  <2> QED BY <2>4, <2>7, <2>8, <2>9
<1> QED BY <1>1, <1>2

\* Where control goes behind a statement.
LEMMA BehindTyped ==
    ASSUME NEW k, NEW j \in Behind(k)
    PROVE  j = k \/ (j \in 0..Steps /\ ~Straight)
<1>0. \A i : IsCode(i) => ~Straight
  BY DEF IsCode, Straight
<1>1. CASE IsCode(k) \/ IsCode(k - 1)
  <2>1. Behind(k) = {i \in 0..Steps : i >= k \/ length < MaxLength}
    BY <1>1 DEF Behind
  <2> QED BY <1>0, <1>1, <2>1
<1>2. CASE ~(IsCode(k) \/ IsCode(k - 1))
  <2>1. Behind(k) = {k}
    BY <1>2 DEF Behind
  <2> QED BY <1>2, <2>1
<1> QED BY <1>1, <1>2

\* What a statement does to the buffer.
LEMMA DoGetPrints ==
    ASSUME CspInv, DoGet
    PROVE  /\ step + 1 \in 1..Steps
           /\ UNCHANGED <<compiler, servlet>> /\ step' \in 0..Steps
           /\ Straight => step' = step + 1
           /\ \/ \E n \in Nat : Printed(n, n)
              \/ \E n \in Nat : Printed(Reserves["int"], n) /\ (n <= 10 \/ n = Width["var"])
              \/ UNCHANGED vars
<1>1. step < Steps /\ step \in 0..Steps
  BY DEF DoGet, CspInv, Serving
<1>2. Steps \in Nat
  <2>1. CASE servlet \in Pages
    <3>1. Len(RoundOf(servlet)) \in Nat /\ Rounds[servlet] \in Nat
      BY <2>1, CspAssumption DEF RoundOf
    <3> QED BY <2>1, <3>1 DEF Steps, HandSteps
  <2>2. CASE servlet \notin Pages
    <3>1. Len(out) \in Nat
      BY DEF CspInv, CompilerInv, Making
    <3> QED BY <2>2, <3>1 DEF Steps
  <2> QED BY <2>1, <2>2
<1>3. step + 1 \in 1..Steps
  BY <1>1, <1>2
<1>4. /\ \/ /\ StepAt(step + 1).kind = "text"
            /\ AppendText(StepAt(step + 1).n, StepAt(step + 1).n)
         \/ StepAt(step + 1).kind = "int" /\ AppendNumber("int", StepAt(step + 1).n)
         \/ UNCHANGED vars
      /\ UNCHANGED <<compiler, servlet>> /\ step' \in Behind(step + 1)
  BY DEF DoGet
<1>6. step' \in 0..Steps /\ (Straight => step' = step + 1)
  <2>1. step' \in Behind(step + 1)
    BY <1>4
  <2>2. step' = step + 1 \/ (step' \in 0..Steps /\ ~Straight)
    BY <2>1, BehindTyped
  <2> QED BY <1>2, <1>3, <2>2
<1>5. /\ StepAt(step + 1).n \in Nat
      /\ StepAt(step + 1).kind = "int" =>
            StepAt(step + 1).n <= 10 \/ StepAt(step + 1).n = Width["var"]
  BY <1>3, StepTyped
<1> QED BY <1>3, <1>4, <1>5, <1>6, Zenon DEF AppendText, AppendNumber

LEMMA StepsKept == UNCHANGED <<servlet, out>> => Steps' = Steps
BY DEF Steps, HandSteps, RoundOf

LEMMA CspDoGet == CspInv /\ DoGet => CspInv' /\ (NothingHidden => NothingHidden')
<1> SUFFICES ASSUME CspInv, DoGet PROVE CspInv' /\ (NothingHidden => NothingHidden')
  OBVIOUS
<1>1. TypeOK' /\ (NothingHidden => NothingHidden')
  <2>1. Reserves["int"] \in Nat
    BY BufferAssumption, CspAssumption
  <2>2. CASE UNCHANGED vars
    BY <2>2 DEF CspInv, vars, TypeOK, NothingHidden
  <2> QED BY <2>1, <2>2, DoGetPrints, ShowingPrinted DEF CspInv
<1>2. CompilerInv'
  BY DoGetPrints, CompilerStutter DEF CspInv
<1>3. UNCHANGED <<servlet, out, stage>>
  BY DoGetPrints DEF compiler
<1>4. Steps' = Steps
  BY <1>3, StepsKept
<1>5. step' \in 0..Steps
  BY DoGetPrints
<1>6. ~(servlet = "own" \/ (servlet = "generated" /\ stage # "done"))
  BY DEF DoGet, Pages
<1>7. Serving'
  BY <1>3, <1>4, <1>5, <1>6 DEF CspInv, Serving
<1> QED BY <1>1, <1>2, <1>7 DEF CspInv

LEMMA CspCompile == CspInv /\ Compile => CspInv' /\ (NothingHidden => NothingHidden')
<1> SUFFICES ASSUME CspInv, Compile PROVE CspInv' /\ (NothingHidden => NothingHidden')
  OBVIOUS
<1>1. servlet = "generated" /\ Bld!Next /\ UNCHANGED <<vars, servlet, step>>
  BY DEF Compile
<1>2. CompilerInv'
  BY <1>1, CompilerNext DEF CspInv
<1>3. TypeOK' /\ (NothingHidden => NothingHidden')
  BY <1>1, SMTT(30) DEF CspInv, vars, TypeOK, NothingHidden
<1>4. stage # "done"
  BY <1>1 DEF Bld!Next, Bld!Refuse, Bld!Open, Bld!Collect, Bld!CollectEnds, Bld!CompileVariable,
              Bld!CompileCode, Bld!CompileComment, Bld!CompileText, Bld!CompileAttr,
              Bld!CompileTag, Bld!SearchBlock, Bld!CompileBlock, Bld!CompileEnds, Bld!Compiling
<1>5. step = 0
  BY <1>1, <1>4 DEF CspInv, Serving
<1>6. Steps' \in Nat
  <2>1. Steps' = Len(out')
    BY <1>1 DEF Steps, Pages
  <2>2. Len(out') \in Nat
    BY <1>2 DEF CompilerInv, Making
  <2> QED BY <2>1, <2>2
<1>7. Serving'
  BY <1>1, <1>5, <1>6 DEF Serving
<1> QED BY <1>2, <1>3, <1>7 DEF CspInv

LEMMA CspOwn == CspInv /\ AppendOwn => CspInv' /\ (NothingHidden => NothingHidden')
<1> SUFFICES ASSUME CspInv, AppendOwn PROVE CspInv' /\ (NothingHidden => NothingHidden')
  OBVIOUS
<1>1. Next /\ UNCHANGED <<compiler, servlet, step>>
  BY DEF AppendOwn
<1>2. TypeOK' /\ (NothingHidden => NothingHidden')
  BY <1>1, ShowingNext DEF CspInv
<1>3. CompilerInv' /\ UNCHANGED <<out, stage>>
  BY <1>1, CompilerStutter DEF CspInv, compiler
<1>4. Serving'
  BY <1>1, <1>3, StepsKept DEF CspInv, Serving
<1> QED BY <1>2, <1>3, <1>4 DEF CspInv

LEMMA CspStep == CspInv /\ [CspNext]_cspVars => CspInv' /\ (NothingHidden => NothingHidden')
<1>1. CspInv /\ UNCHANGED cspVars => CspInv' /\ (NothingHidden => NothingHidden')
  <2> SUFFICES ASSUME CspInv, UNCHANGED cspVars
               PROVE  CspInv' /\ (NothingHidden => NothingHidden')
    OBVIOUS
  <2>1. UNCHANGED <<size, length, nuls, touched, excess, servlet, step, compiler>>
    BY DEF cspVars, vars
  <2>2. CompilerInv' /\ UNCHANGED <<out, stage>>
    BY <2>1, CompilerStutter DEF CspInv, compiler
  <2>3. Serving'
    BY <2>1, <2>2, StepsKept DEF CspInv, Serving
  <2> QED BY <2>1, <2>2, <2>3 DEF CspInv, TypeOK, NothingHidden
<1> QED BY <1>1, CspDoGet, CspCompile, CspOwn DEF CspNext

LEMMA CspStart == CspInit => CspInv /\ (InitTexts = {} => NothingHidden)
<1> SUFFICES ASSUME CspInit PROVE CspInv /\ (InitTexts = {} => NothingHidden)
  OBVIOUS
<1>1. CompilerInv
  BY CompilerInit DEF CspInit
<1>2. TypeOK /\ (InitTexts = {} => NothingHidden)
  BY ShowingInit DEF CspInit
<1>3. 0 \in 0..Steps
  <2>1. CASE servlet \in Pages
    <3>1. Len(RoundOf(servlet)) \in Nat /\ Rounds[servlet] \in Nat
      BY <2>1, CspAssumption DEF RoundOf
    <3> QED BY <2>1, <3>1 DEF Steps, HandSteps
  <2>2. CASE servlet \notin Pages
    <3>1. Len(out) \in Nat
      BY <1>1 DEF CompilerInv, Making
    <3> QED BY <2>2, <3>1 DEF Steps
  <2> QED BY <2>1, <2>2
<1>4. Serving
  BY <1>3 DEF CspInit, Serving
<1> QED BY <1>1, <1>2, <1>4 DEF CspInv

\* The compiler reads no line that is not there and its statements are texts, values and
\* code (builder.cc:54-198); a servlet executes no more statements than there are, each
\* of a number of characters (CspServlet.cc:31-122), for templates and bases of any
\* length, any number of rounds and any width of what is printed.
THEOREM CspTyping == CspSpec => []CspTypeOK
<1>1. CspInit => CspInv
  BY CspStart
<1>2. CspInv /\ [CspNext]_cspVars => CspInv'
  BY CspStep
<1>3. CspInv => CspTypeOK
  BY CompilerTyped DEF CspInv, CspTypeOK, Serving
<1> QED BY <1>1, <1>2, <1>3, PTL DEF CspSpec

\* And none of what a servlet appends is hidden, whatever template it was made of.
THEOREM PageShows == InitTexts = {} /\ CspSpec => []NothingHidden
<1> SUFFICES ASSUME InitTexts = {} PROVE CspSpec => []NothingHidden
  OBVIOUS
<1> DEFINE Inv == CspInv /\ NothingHidden
<1>1. CspInit => Inv
  BY CspStart
<1>2. Inv /\ [CspNext]_cspVars => Inv'
  BY CspStep
<1>3. Inv => NothingHidden
  OBVIOUS
<1> QED BY <1>1, <1>2, <1>3, PTL DEF CspSpec

\* The same bound holds of every servlet, through the loops that code makes.
THEOREM PageInBounds == CspSpec => []InBounds
<1> DEFINE Inv == CspInv /\ Room
<1>1. CspInit => Inv
  BY CspStart, RoomInit DEF CspInit
<1>2. ASSUME CspInv, Room, DoGet PROVE Room'
  <2>1. Reserves["int"] \in Nat
    BY BufferAssumption, CspAssumption
  <2>2. CASE UNCHANGED vars
    BY <1>2, <2>2 DEF vars, Room, TypeOK, InBounds
  <2> QED BY <1>2, <2>1, <2>2, DoGetPrints, RoomPrinted
<1>3. ASSUME Room, Compile \/ AppendOwn \/ UNCHANGED cspVars PROVE Room'
  <2>1. [Next]_vars
    BY <1>3 DEF Compile, AppendOwn, cspVars
  <2> QED BY <1>3, <2>1, RoomStep
<1>4. Inv /\ [CspNext]_cspVars => Inv'
  BY <1>2, <1>3, CspStep DEF CspNext
<1>5. Inv => InBounds
  BY DEF Room
<1> QED BY <1>1, <1>4, <1>5, PTL DEF CspSpec

\* A servlet other than one's own never makes the buffer write past its end: a text
\* reserves its own length, no number of a page written by hand takes more than the ten
\* bytes of append(int) (Buffer.hh:37), and a variable of a template none either if it is
\* as short.
PagesFit == 10 <= Reserves["int"] /\ Width["var"] <= Reserves["int"]
Fits == servlet # "own" => touched <= size

THEOREM PageFits == PagesFit /\ CspSpec => []Fits
<1> SUFFICES ASSUME PagesFit PROVE CspSpec => []Fits
  OBVIOUS
<1> DEFINE NoExcess == servlet # "own" => excess = 0
           Inv == CspInv /\ Room /\ NoExcess
<1>1. CspInit => Inv
  <2> SUFFICES ASSUME CspInit PROVE NoExcess
    BY CspStart, RoomInit DEF CspInit
  <2>1. \/ excess = 0
        \/ servlet = "own" \/ (length = 0 /\ \E n \in InitTexts : length = n + 1)
    BY DEF CspInit, Init
  <2>2. \A n \in InitTexts : n + 1 # 0
    BY BufferAssumption
  <2> QED BY <2>1, <2>2
<1>2. ASSUME Inv, DoGet PROVE Room' /\ NoExcess'
  <2>1. Reserves["int"] \in Nat /\ Width["var"] \in Nat
    BY BufferAssumption, CspAssumption DEF Bld!Tags
  <2>2. servlet # "own"
    BY <1>2 DEF DoGet, Pages
  <2>3. CASE UNCHANGED vars
    BY <1>2, <2>2, <2>3 DEF vars, Room, TypeOK, InBounds
  <2>4. ASSUME NEW n \in Nat, Printed(n, n) PROVE Room' /\ excess' = 0
    BY <1>2, <2>4, RoomPrinted
  <2>5. ASSUME NEW n \in Nat, Printed(Reserves["int"], n), n <= 10 \/ n = Width["var"]
        PROVE  Room' /\ excess' = 0
    <3>1. n <= Reserves["int"]
      BY <2>1, <2>5 DEF PagesFit
    <3> QED BY <1>2, <2>1, <2>5, <3>1, RoomPrinted
  <2> QED BY <1>2, <2>3, <2>4, <2>5, DoGetPrints
<1>3. ASSUME Inv, Compile \/ AppendOwn \/ UNCHANGED cspVars PROVE Room' /\ NoExcess'
  <2>1. [Next]_vars
    BY <1>3 DEF Compile, AppendOwn, cspVars
  <2>2. servlet = "own" \/ excess' = excess
    BY <1>3 DEF Compile, AppendOwn, cspVars, vars
  <2>3. servlet' = servlet
    BY <1>3 DEF Compile, AppendOwn, cspVars
  <2> QED BY <1>3, <2>1, <2>2, <2>3, RoomStep
<1>4. Inv /\ [CspNext]_cspVars => Inv'
  BY <1>2, <1>3, CspStep DEF CspNext
<1>5. Inv => Fits
  BY DEF Room, InBounds, TypeOK, Fits
<1> QED BY <1>1, <1>4, <1>5, PTL DEF CspSpec

-----------------------------------------------------------------------------
(* Sequences in a row, taken one after the other. *)

JoinedTo(ss, m) == Bld!Joined(SubSeq(ss, 1, m))

LEMMA JoinedEmpty == Bld!Joined(<<>>) = <<>>
<1>1. <<>> \in Seq(Seq({}))
  OBVIOUS
<1>2. PICK u : Bld!Joined(<<>>) = u[Len(<<>>)] /\ u[0] = <<>>
  BY <1>1, JoinedSteps
<1>3. Len(<<>>) = 0
  OBVIOUS
<1> QED BY <1>2, <1>3

LEMMA JoinedNext ==
    ASSUME NEW S, NEW ss \in Seq(Seq(S)), NEW s \in Seq(S)
    PROVE  Bld!Joined(Append(ss, s)) = Bld!Joined(ss) \o s
<1> DEFINE tt == Append(ss, s)
           n == Len(ss)
<1>1. /\ n \in Nat /\ tt \in Seq(Seq(S)) /\ Len(tt) = n + 1 /\ tt[n + 1] = s
      /\ \A i \in 1..n : tt[i] = ss[i]
  OBVIOUS
<1> HIDE DEF tt, n
<1>2. PICK u : /\ Bld!Joined(ss) = u[Len(ss)] /\ u[0] = <<>>
               /\ \A i \in 1..Len(ss) : u[i] = u[i - 1] \o ss[i]
  BY JoinedSteps
<1>3. PICK v : /\ Bld!Joined(tt) = v[Len(tt)] /\ v[0] = <<>>
               /\ \A i \in 1..Len(tt) : v[i] = v[i - 1] \o tt[i]
  BY <1>1, JoinedSteps
<1> DEFINE T == {i \in Nat : i <= n => v[i] = u[i]}
<1>4. 0 \in T
  BY <1>2, <1>3
<1>5. ASSUME NEW i \in Nat, i \in T PROVE i + 1 \in T
  <2>1. SUFFICES ASSUME i + 1 <= n PROVE v[i + 1] = u[i + 1]
    OBVIOUS
  <2>2. i + 1 \in 1..n /\ i + 1 \in 1..Len(tt) /\ i + 1 \in 1..Len(ss) /\ (i + 1) - 1 = i /\ i <= n
    BY <1>1, <2>1 DEF n
  <2>3. v[i] = u[i]
    BY <1>5, <2>2
  <2>4. v[i + 1] = v[(i + 1) - 1] \o tt[i + 1] /\ u[i + 1] = u[(i + 1) - 1] \o ss[i + 1]
    BY <1>2, <1>3, <2>2, Zenon
  <2> QED BY <1>1, <2>2, <2>3, <2>4
<1>6. n \in T
  <2> HIDE DEF T
  <2> QED BY <1>1, <1>4, <1>5, Inductive
<1>7. v[n] = u[n]
  BY <1>1, <1>6
<1>8. n + 1 \in 1..Len(tt) /\ (n + 1) - 1 = n
  BY <1>1
<1>9. v[n + 1] = v[n] \o s
  BY <1>1, <1>3, <1>8
<1> QED BY <1>1, <1>2, <1>3, <1>7, <1>9 DEF tt, n

LEMMA Longer ==
    ASSUME NEW S, NEW s \in Seq(S), NEW m \in Nat, m < Len(s)
    PROVE  SubSeq(s, 1, m + 1) = Append(SubSeq(s, 1, m), s[m + 1])
<1> DEFINE a == SubSeq(s, 1, m + 1)
           b == Append(SubSeq(s, 1, m), s[m + 1])
<1>1. a \in Seq(S) /\ b \in Seq(S) /\ Len(a) = m + 1 /\ Len(b) = m + 1
  OBVIOUS
<1>2. \A i \in 1..(m + 1) : a[i] = b[i]
  OBVIOUS
<1> HIDE DEF a, b
<1>3. a = b
  BY <1>1, <1>2, SeqEqual
<1> QED BY <1>3 DEF a, b

LEMMA JoinedParts ==
    ASSUME NEW S, NEW ss \in Seq(Seq(S))
    PROVE  /\ JoinedTo(ss, 0) = <<>>
           /\ JoinedTo(ss, Len(ss)) = Bld!Joined(ss)
           /\ \A m \in 0..Len(ss) : JoinedTo(ss, m) \in Seq(S)
           /\ \A m \in 0..(Len(ss) - 1) : JoinedTo(ss, m + 1) = JoinedTo(ss, m) \o ss[m + 1]
<1>1. SubSeq(ss, 1, 0) = <<>> /\ SubSeq(ss, 1, Len(ss)) = ss
  OBVIOUS
<1>2. \A m \in 0..Len(ss) : SubSeq(ss, 1, m) \in Seq(Seq(S))
  OBVIOUS
<1>3. ASSUME NEW m \in 0..(Len(ss) - 1) PROVE JoinedTo(ss, m + 1) = JoinedTo(ss, m) \o ss[m + 1]
  <2>1. m \in Nat /\ m < Len(ss) /\ ss[m + 1] \in Seq(S) /\ SubSeq(ss, 1, m) \in Seq(Seq(S))
    OBVIOUS
  <2>2. SubSeq(ss, 1, m + 1) = Append(SubSeq(ss, 1, m), ss[m + 1])
    BY <2>1, Longer
  <2> QED BY <2>1, <2>2, JoinedNext DEF JoinedTo
<1> QED BY <1>1, <1>2, <1>3, JoinedEmpty, JoinedType DEF JoinedTo

LEMMA JoinedOne ==
    ASSUME NEW S, NEW s \in Seq(S)
    PROVE  Bld!Joined(<<s>>) = s
<1>1. <<>> \in Seq(Seq(S)) /\ Append(<<>>, s) = <<s>> /\ <<>> \o s = s
  OBVIOUS
<1> QED BY <1>1, JoinedNext, JoinedEmpty

LEMMA JoinedRow ==
    ASSUME NEW S, NEW a \in Seq(Seq(S)), NEW b \in Seq(Seq(S))
    PROVE  Bld!Joined(a \o b) = Bld!Joined(a) \o Bld!Joined(b)
<1> DEFINE T == {m \in Nat : m <= Len(b) => Bld!Joined(a \o SubSeq(b, 1, m)) = Bld!Joined(a) \o JoinedTo(b, m)}
<1>1. 0 \in T
  <2>1. a \o SubSeq(b, 1, 0) = a
    OBVIOUS
  <2>2. Bld!Joined(a) \o <<>> = Bld!Joined(a)
    <3>1. Bld!Joined(a) \in Seq(S)
      BY JoinedType
    <3> QED BY <3>1
  <2> QED BY <2>1, <2>2, JoinedParts
<1>2. ASSUME NEW m \in Nat, m \in T PROVE m + 1 \in T
  <2>1. SUFFICES ASSUME m + 1 <= Len(b)
                 PROVE  Bld!Joined(a \o SubSeq(b, 1, m + 1)) = Bld!Joined(a) \o JoinedTo(b, m + 1)
    OBVIOUS
  <2>2. m <= Len(b) /\ m < Len(b) /\ m \in 0..(Len(b) - 1) /\ m \in 0..Len(b) /\ b[m + 1] \in Seq(S)
    BY <2>1
  <2> DEFINE p == SubSeq(b, 1, m)
  <2>3. p \in Seq(Seq(S)) /\ a \o p \in Seq(Seq(S))
    BY <2>2
  <2>4. SubSeq(b, 1, m + 1) = Append(p, b[m + 1])
    BY <2>2, Longer
  <2>5. Bld!Joined(a \o p) = Bld!Joined(a) \o JoinedTo(b, m)
    BY <1>2, <2>2
  <2> HIDE DEF p, T
  <2>6. a \o Append(p, b[m + 1]) = Append(a \o p, b[m + 1])
    <3> DEFINE x == b[m + 1]
               U == Seq(S)
    <3>1. x \in U /\ a \in Seq(U) /\ p \in Seq(U)
      BY <2>2, <2>3
    <3> HIDE DEF x, U
    <3>2. a \o Append(p, x) = Append(a \o p, x)
      BY <3>1
    <3> QED BY <3>2 DEF x
  <2>7. Bld!Joined(Append(a \o p, b[m + 1])) = Bld!Joined(a \o p) \o b[m + 1]
    BY <2>2, <2>3, JoinedNext
  <2>8. Bld!Joined(a) \in Seq(S) /\ JoinedTo(b, m) \in Seq(S)
    BY <2>2, JoinedType, JoinedParts
  <2>9. JoinedTo(b, m + 1) = JoinedTo(b, m) \o b[m + 1]
    BY <2>2, JoinedParts
  <2>10. (Bld!Joined(a) \o JoinedTo(b, m)) \o b[m + 1] = Bld!Joined(a) \o (JoinedTo(b, m) \o b[m + 1])
    <3> DEFINE x == Bld!Joined(a)
               y == JoinedTo(b, m)
               z == b[m + 1]
    <3>1. x \in Seq(S) /\ y \in Seq(S) /\ z \in Seq(S)
      BY <2>2, <2>8
    <3> HIDE DEF x, y, z
    <3>2. (x \o y) \o z = x \o (y \o z)
      BY <3>1, ConcatAssociative
    <3> QED BY <3>2 DEF x, y, z
  <2> QED BY <2>4, <2>5, <2>6, <2>7, <2>9, <2>10
<1>3. Len(b) \in T
  <2> HIDE DEF T
  <2>1. Len(b) \in Nat
    OBVIOUS
  <2> QED BY <1>1, <1>2, <2>1, Inductive
<1>4. SubSeq(b, 1, Len(b)) = b /\ Len(b) <= Len(b)
  OBVIOUS
<1> QED BY <1>3, <1>4, JoinedParts

\* Where each of them is.
LEMMA JoinedAt ==
    ASSUME NEW S, NEW ss \in Seq(Seq(S)), NEW m \in 0..(Len(ss) - 1)
    PROVE  /\ Len(JoinedTo(ss, m + 1)) = Len(JoinedTo(ss, m)) + Len(ss[m + 1])
           /\ Len(JoinedTo(ss, m)) \in Nat /\ Len(ss[m + 1]) \in Nat
           /\ Len(JoinedTo(ss, m + 1)) <= Len(Bld!Joined(ss))
           /\ \A j \in 1..Len(ss[m + 1]) :
                Bld!Joined(ss)[Len(JoinedTo(ss, m)) + j] = ss[m + 1][j]
<1> DEFINE a == SubSeq(ss, 1, m + 1)
           b == SubSeq(ss, m + 2, Len(ss))
<1>1. a \in Seq(Seq(S)) /\ b \in Seq(Seq(S)) /\ a \o b = ss
  <2>1. a \in Seq(Seq(S)) /\ b \in Seq(Seq(S))
    OBVIOUS
  <2>2. SubSeq(ss, 1, m + 1) \o SubSeq(ss, (m + 1) + 1, Len(ss)) = SubSeq(ss, 1, Len(ss))
    <3>1. /\ 1 \in 1..(Len(ss) + 1) /\ m + 1 \in (1 - 1)..Len(ss)
          /\ Len(ss) \in (m + 1)..Len(ss)
      OBVIOUS
    <3> QED BY <3>1, ConcatAdjacentSubSeq
  <2>3. (m + 1) + 1 = m + 2
    OBVIOUS
  <2> QED BY <2>1, <2>2, <2>3, SubSeqFull
<1>2. Bld!Joined(ss) = JoinedTo(ss, m + 1) \o Bld!Joined(b)
  <2> HIDE DEF b
  <2> QED BY <1>1, JoinedRow DEF JoinedTo
<1>3. ss[m + 1] \in Seq(S) /\ m \in 0..Len(ss) /\ m + 1 \in 0..Len(ss)
  OBVIOUS
<1> DEFINE p == JoinedTo(ss, m)
           q == ss[m + 1]
           r == Bld!Joined(b)
<1>4. p \in Seq(S) /\ q \in Seq(S) /\ r \in Seq(S)
  <2> HIDE DEF b
  <2> QED BY <1>1, <1>3, JoinedType, JoinedParts
<1>5. JoinedTo(ss, m + 1) = p \o q
  BY JoinedParts
<1> HIDE DEF p, q, r
<1>6. /\ Len(p \o q) = Len(p) + Len(q) /\ Len(p) \in Nat /\ Len(q) \in Nat
      /\ Len(p \o q) <= Len((p \o q) \o r)
      /\ \A j \in 1..Len(q) : ((p \o q) \o r)[Len(p) + j] = q[j]
  BY <1>4
<1> QED BY <1>2, <1>5, <1>6 DEF p, q, r

-----------------------------------------------------------------------------
(* Lines that are plain around one tag: what is found in them. *)

Clean(tags) == {t \in Bld!Token : t.tag \notin tags}
PlainTokens == {t \in Bld!Token : t.tag \in {"text", "percent"}}
Around(pre, t, suf) == pre \o <<t>> \o suf

LEMMA PlainSeq ==
    ASSUME NEW s \in Seq(Bld!Token), Bld!Plain(s)
    PROVE  s \in Seq(PlainTokens)
<1>1. DOMAIN s = 1..Len(s) /\ Len(s) \in Nat /\ s \in [1..Len(s) -> Bld!Token]
  OBVIOUS
<1>2. \A i \in 1..Len(s) : s[i] \in PlainTokens
  BY <1>1 DEF Bld!Plain, PlainTokens
<1>3. s \in [1..Len(s) -> PlainTokens]
  BY <1>1, <1>2
<1> QED BY <1>1, <1>3

LEMMA PlainClean ==
    ASSUME NEW tags, "text" \notin tags, "percent" \notin tags
    PROVE  Seq(PlainTokens) \subseteq Seq(Clean(tags))
<1>1. PlainTokens \subseteq Clean(tags)
  BY DEF PlainTokens, Clean
<1>2. \A S, T : S \subseteq T => Seq(S) \subseteq Seq(T)
  OBVIOUS
<1> QED BY <1>1, <1>2, Zenon

LEMMA CleanTokens ==
    ASSUME NEW tags
    PROVE  Seq(Clean(tags)) \subseteq Seq(Bld!Token) /\ Seq(PlainTokens) \subseteq Seq(Bld!Token)
<1>1. PlainTokens \subseteq Bld!Token /\ Clean(tags) \subseteq Bld!Token
  BY DEF PlainTokens, Clean
<1>2. \A S, T : S \subseteq T => Seq(S) \subseteq Seq(T)
  OBVIOUS
<1> QED BY <1>1, <1>2, Zenon

LEMMA CleanAt ==
    ASSUME NEW tags, NEW s \in Seq(Clean(tags)), NEW i \in 1..Len(s)
    PROVE  s[i] \in Bld!Token /\ s[i].tag \notin tags
<1>1. s[i] \in Clean(tags)
  OBVIOUS
<1> QED BY <1>1 DEF Clean

LEMMA FirstNone ==
    ASSUME NEW tags, NEW s \in Seq(Clean(tags))
    PROVE  Bld!First(s, tags) = 0
<1>1. s \in Seq(Bld!Token)
  BY CleanTokens
<1>2. ASSUME Bld!First(s, tags) # 0 PROVE FALSE
  <2>1. Bld!First(s, tags) \in 1..Len(s) /\ s[Bld!First(s, tags)].tag \in tags
    BY <1>1, <1>2, FirstFinds
  <2> QED BY <2>1, CleanAt
<1> QED BY <1>2

LEMMA FirstIs ==
    ASSUME NEW s \in Seq(Bld!Token), NEW tags, NEW i \in 1..Len(s), s[i].tag \in tags,
           \A j \in 1..(i - 1) : s[j].tag \notin tags
    PROVE  Bld!First(s, tags) = i
<1> DEFINE I == {j \in 1..Len(s) : s[j].tag \in tags}
<1>1. Bld!First(s, tags) = IF I # {} THEN Bld!Min(I) ELSE 0
  BY DEF Bld!First, Bld!SelectInSeq
<1>2. i \in I /\ I \in SUBSET (1..Len(s)) /\ Len(s) \in Nat
  OBVIOUS
<1>3. \A x \in I : i <= x /\ x \in Int
  OBVIOUS
<1> HIDE DEF I
<1>4. Bld!Min(I) = i
  <2>1. \E x \in I : \A y \in I : x <= y
    BY <1>2, <1>3
  <2>2. Bld!Min(I) \in I /\ \A y \in I : Bld!Min(I) <= y
    BY <2>1 DEF Bld!Min
  <2>3. Bld!Min(I) <= i /\ i <= Bld!Min(I) /\ Bld!Min(I) \in Int /\ i \in Int
    BY <1>2, <1>3, <2>2
  <2> QED BY <2>3
<1> QED BY <1>1, <1>2, <1>4

\* Cutting a line at a token.
LEMMA AroundParts ==
    ASSUME NEW S, NEW pre \in Seq(S), NEW t \in S, NEW suf \in Seq(S)
    PROVE  /\ Around(pre, t, suf) \in Seq(S)
           /\ Len(Around(pre, t, suf)) = Len(pre) + 1 + Len(suf)
           /\ Len(pre) + 1 \in 1..Len(Around(pre, t, suf))
           /\ Around(pre, t, suf)[Len(pre) + 1] = t
           /\ \A i \in 1..Len(pre) : Around(pre, t, suf)[i] = pre[i]
           /\ \A i \in 1..Len(suf) : Around(pre, t, suf)[Len(pre) + 1 + i] = suf[i]
<1>1. pre \o <<t>> \o suf = (pre \o <<t>>) \o suf
  OBVIOUS
<1>2. pre \o <<t>> \in Seq(S) /\ Len(pre \o <<t>>) = Len(pre) + 1
      /\ (pre \o <<t>>)[Len(pre) + 1] = t /\ \A i \in 1..Len(pre) : (pre \o <<t>>)[i] = pre[i]
  OBVIOUS
<1> DEFINE p == pre \o <<t>>
<1> HIDE DEF p
<1>3. /\ p \o suf \in Seq(S) /\ Len(p \o suf) = Len(p) + Len(suf)
      /\ \A i \in 1..Len(p) : (p \o suf)[i] = p[i]
      /\ \A i \in 1..Len(suf) : (p \o suf)[Len(p) + i] = suf[i]
  BY <1>2 DEF p
<1>4. Len(pre) \in Nat /\ Len(suf) \in Nat
  OBVIOUS
<1>5. Len(p) = Len(pre) + 1 /\ p[Len(pre) + 1] = t /\ \A i \in 1..Len(pre) : p[i] = pre[i]
  BY <1>2 DEF p
<1>6. Around(pre, t, suf) = p \o suf
  BY DEF Around, p
<1> QED BY <1>3, <1>4, <1>5, <1>6

LEMMA AroundCut ==
    ASSUME NEW S, NEW pre \in Seq(S), NEW t \in S, NEW suf \in Seq(S)
    PROVE  /\ Bld!UpTo(Around(pre, t, suf), Len(pre) + 1) = pre
           /\ Bld!Behind(Around(pre, t, suf), Len(pre) + 1) = suf
<1> DEFINE s == Around(pre, t, suf)
           n == Len(pre)
<1>1. /\ s \in Seq(S) /\ Len(s) = n + 1 + Len(suf) /\ n \in Nat /\ Len(suf) \in Nat
      /\ \A i \in 1..n : s[i] = pre[i]
      /\ \A i \in 1..Len(suf) : s[n + 1 + i] = suf[i]
  BY AroundParts
<1> HIDE DEF s
<1>2. SubSeq(s, 1, (n + 1) - 1) = pre
  <2> DEFINE a == SubSeq(s, 1, n)
  <2>1. a \in Seq(S) /\ Len(a) = n /\ \A i \in 1..n : a[i] = s[i]
    BY <1>1
  <2> HIDE DEF a
  <2>2. a = pre
    BY <1>1, <2>1, SeqEqual
  <2>3. (n + 1) - 1 = n
    BY <1>1
  <2> QED BY <2>2, <2>3 DEF a
<1>3. SubSeq(s, (n + 1) + 1, Len(s)) = suf
  <2> DEFINE a == SubSeq(s, n + 2, Len(s))
             k == Len(suf)
  <2>1. a \in Seq(S) /\ Len(a) = k /\ \A i \in 1..k : a[i] = s[n + 1 + i]
    <3>1. n + 2 \in 1..(Len(s) + 1) /\ Len(s) \in Nat
      BY <1>1
    <3>2. a \in Seq(S)
      BY <1>1, <3>1, Part
    <3>3. Len(a) = IF n + 2 <= Len(s) THEN Len(s) - (n + 2) + 1 ELSE 0
      BY <1>1, <3>1
    <3>4. Len(a) = k
      BY <1>1, <3>3
    <3>5. \A i \in 1..k : a[i] = s[n + 1 + i]
      BY <1>1, <3>1
    <3> QED BY <3>2, <3>4, <3>5
  <2> HIDE DEF a
  <2>2. a = suf
    BY <1>1, <2>1, SeqEqual
  <2>3. (n + 1) + 1 = n + 2
    BY <1>1
  <2> QED BY <2>2, <2>3 DEF a
<1> QED BY <1>2, <1>3 DEF Bld!UpTo, Bld!Behind, s

\* What is looked for is the tag or is not there.
LEMMA AroundFirst ==
    ASSUME NEW tags, NEW pre \in Seq(Clean(tags)), NEW suf \in Seq(Clean(tags)),
           NEW t \in Bld!Token
    PROVE  Bld!First(Around(pre, t, suf), tags) = IF t.tag \in tags THEN Len(pre) + 1 ELSE 0
<1>1. CASE t.tag \in tags
  <2>1. pre \in Seq(Bld!Token) /\ suf \in Seq(Bld!Token)
    BY CleanTokens
  <2>2. /\ Around(pre, t, suf) \in Seq(Bld!Token)
        /\ Len(pre) + 1 \in 1..Len(Around(pre, t, suf))
        /\ Around(pre, t, suf)[Len(pre) + 1] = t
        /\ \A i \in 1..Len(pre) : Around(pre, t, suf)[i] = pre[i]
    BY <2>1, AroundParts
  <2>3. \A j \in 1..((Len(pre) + 1) - 1) : Around(pre, t, suf)[j].tag \notin tags
    <3>1. (Len(pre) + 1) - 1 = Len(pre)
      BY <2>1
    <3> QED BY <2>2, <3>1, CleanAt
  <2>4. Bld!First(Around(pre, t, suf), tags) = Len(pre) + 1
    BY <1>1, <2>2, <2>3, FirstIs
  <2> QED BY <1>1, <2>4
<1>2. CASE t.tag \notin tags
  <2>1. t \in Clean(tags)
    BY <1>2 DEF Clean
  <2>2. Around(pre, t, suf) \in Seq(Clean(tags))
    BY <2>1, AroundParts
  <2> QED BY <1>2, <2>2, FirstNone
<1> QED BY <1>1, <1>2

LEMMA EscapedSame ==
    ASSUME NEW s \in Seq(Clean({"quoting"}))
    PROVE  Bld!Escaped(s) = s
<1>1. \A i \in 1..Len(s) : s[i].tag \notin {"quoting"}
  BY CleanAt
<1>2. DOMAIN s = 1..Len(s) /\ s = [i \in DOMAIN s |-> s[i]]
  OBVIOUS
<1>3. \A i \in DOMAIN s : (IF s[i].tag = "quoting" THEN [s[i] EXCEPT !.tag = "broken"] ELSE s[i]) = s[i]
  BY <1>1, <1>2
<1> QED BY <1>2, <1>3, Zenon DEF Bld!Escaped

LEMMA LiteralRow ==
    ASSUME NEW s \in Seq(Bld!Token), NEW t \in Seq(Bld!Token)
    PROVE  Bld!Literal(s \o t) = Bld!Literal(s) \o Bld!Literal(t)
<1> DEFINE lit(x) == IF x.tag = "percent" THEN [x EXCEPT !.tag = "percents"] ELSE x
           a == Bld!Literal(s \o t)
           b == Bld!Literal(s) \o Bld!Literal(t)
<1>1. \A x \in Seq(Bld!Token) : /\ Bld!Literal(x) \in Seq(Bld!Token) /\ Len(Bld!Literal(x)) = Len(x)
                                /\ \A i \in 1..Len(x) : Bld!Literal(x)[i] = lit(x[i])
  <2> SUFFICES ASSUME NEW x \in Seq(Bld!Token)
               PROVE  /\ Bld!Literal(x) \in Seq(Bld!Token) /\ Len(Bld!Literal(x)) = Len(x)
                      /\ \A i \in 1..Len(x) : Bld!Literal(x)[i] = lit(x[i])
    OBVIOUS
  <2>1. DOMAIN x = 1..Len(x) /\ Len(x) \in Nat
    OBVIOUS
  <2>2. Bld!Literal(x) = [i \in 1..Len(x) |-> lit(x[i])]
    BY <2>1, Zenon DEF Bld!Literal
  <2>3. Bld!Literal(x) \in Seq(Bld!Token)
    BY Escapes
  <2> HIDE DEF lit
  <2>4. DOMAIN Bld!Literal(x) = 1..Len(x) /\ \A i \in 1..Len(x) : Bld!Literal(x)[i] = lit(x[i])
    BY <2>2
  <2>5. Len(Bld!Literal(x)) = Len(x)
    BY <2>1, <2>3, <2>4
  <2> QED BY <2>3, <2>4, <2>5
<1> HIDE DEF lit
<1>2. s \o t \in Seq(Bld!Token) /\ Len(s \o t) = Len(s) + Len(t) /\ Len(s) \in Nat /\ Len(t) \in Nat
      /\ (\A i \in 1..Len(s) : (s \o t)[i] = s[i])
      /\ (\A i \in (Len(s) + 1)..(Len(s) + Len(t)) : (s \o t)[i] = t[i - Len(s)])
  OBVIOUS
<1>3. a \in Seq(Bld!Token) /\ Len(a) = Len(s) + Len(t)
      /\ \A i \in 1..(Len(s) + Len(t)) : a[i] = lit((s \o t)[i])
  BY <1>1, <1>2
<1> DEFINE p == Bld!Literal(s)
           q == Bld!Literal(t)
<1>4. p \in Seq(Bld!Token) /\ q \in Seq(Bld!Token) /\ Len(p) = Len(s) /\ Len(q) = Len(t)
      /\ (\A i \in 1..Len(s) : p[i] = lit(s[i])) /\ (\A i \in 1..Len(t) : q[i] = lit(t[i]))
  BY <1>1
<1> HIDE DEF a, p, q
<1>5. /\ p \o q \in Seq(Bld!Token) /\ Len(p \o q) = Len(s) + Len(t)
      /\ (\A i \in 1..Len(s) : (p \o q)[i] = p[i])
      /\ (\A i \in (Len(s) + 1)..(Len(s) + Len(t)) : (p \o q)[i] = q[i - Len(s)])
  <2>1. /\ p \o q \in Seq(Bld!Token) /\ Len(p \o q) = Len(p) + Len(q)
        /\ \A i \in 1..(Len(p) + Len(q)) : (p \o q)[i] = IF i <= Len(p) THEN p[i] ELSE q[i - Len(p)]
    <3>1. p \in Seq(Bld!Token) /\ q \in Seq(Bld!Token)
      BY <1>4
    <3> QED BY <3>1, ConcatProperties, Zenon
  <2>2. \A i \in 1..Len(s) : i \in 1..(Len(p) + Len(q)) /\ i <= Len(p)
    BY <1>2, <1>4
  <2>3. \A i \in (Len(s) + 1)..(Len(s) + Len(t)) : i \in 1..(Len(p) + Len(q)) /\ ~(i <= Len(p))
    BY <1>2, <1>4
  <2> QED BY <1>4, <2>1, <2>2, <2>3
<1>6. ASSUME NEW i \in 1..(Len(s) + Len(t)) PROVE a[i] = (p \o q)[i]
  <2>1. CASE i \in 1..Len(s)
    BY <1>2, <1>3, <1>4, <1>5, <2>1
  <2>2. CASE i \in (Len(s) + 1)..(Len(s) + Len(t))
    <3>1. i - Len(s) \in 1..Len(t)
      BY <1>2, <2>2
    <3> QED BY <1>2, <1>3, <1>4, <1>5, <2>2, <3>1
  <2>3. i \in 1..Len(s) \/ i \in (Len(s) + 1)..(Len(s) + Len(t))
    <3> DEFINE k == Len(s)
               l == Len(t)
    <3>1. k \in Nat /\ l \in Nat /\ i \in 1..(k + l)
      BY <1>2
    <3> HIDE DEF k, l
    <3>2. i \in 1..k \/ i \in (k + 1)..(k + l)
      BY <3>1
    <3> QED BY <3>2 DEF k, l
  <2> QED BY <2>1, <2>2, <2>3
<1>7. a = p \o q
  BY <1>3, <1>5, <1>6, SeqEqual
<1> QED BY <1>7 DEF a, p, q

-----------------------------------------------------------------------------
(* Blocks: what is found in the lines gathered. *)

LEMMA MinIs ==
    ASSUME NEW I \in SUBSET Int, NEW i \in I, \A x \in I : i <= x
    PROVE  Bld!Min(I) = i
<1>1. \E x \in I : \A y \in I : x <= y
  OBVIOUS
<1>2. Bld!Min(I) \in I /\ \A y \in I : Bld!Min(I) <= y
  BY <1>1 DEF Bld!Min
<1>3. Bld!Min(I) <= i /\ i <= Bld!Min(I) /\ Bld!Min(I) \in Int /\ i \in Int
  BY <1>2
<1> QED BY <1>3

LEMMA MaxIs ==
    ASSUME NEW I \in SUBSET Int, NEW i \in I, \A x \in I : x <= i
    PROVE  Bld!Max(I) = i
<1>1. \E x \in I : \A y \in I : x >= y
  <2>1. \A y \in I : i >= y
    OBVIOUS
  <2> QED BY <2>1
<1>2. Bld!Max(I) \in I /\ \A y \in I : Bld!Max(I) >= y
  BY <1>1 DEF Bld!Max
<1>3. Bld!Max(I) <= i /\ i <= Bld!Max(I) /\ Bld!Max(I) \in Int /\ i \in Int
  BY <1>2
<1> QED BY <1>3

LEMMA TrimSame ==
    ASSUME NEW s \in Seq(Clean({"break"}))
    PROVE  Bld!Trim(s) = s
<1> DEFINE I == {i \in 1..Len(s) : s[i] # Bld!Break}
           from == IF I # {} THEN Bld!Min(I) ELSE 0
           last == IF I # {} THEN Bld!Max(I) ELSE 0
<1>1. Bld!Trim(s) = IF from = 0 THEN <<>> ELSE SubSeq(s, from, last)
  BY DEF Bld!Trim, Bld!SelectInSeq, Bld!SelectLastInSeq
<1>2. \A i \in 1..Len(s) : s[i] # Bld!Break
  <2>1. Bld!Break.tag = "break"
    BY DEF Bld!Break, Bld!Tok
  <2> QED BY <2>1, CleanAt
<1>3. I = 1..Len(s)
  BY <1>2
<1>4. Len(s) \in Nat
  OBVIOUS
<1> HIDE DEF I
<1>5. CASE Len(s) = 0
  <2>1. I = {} /\ s = <<>>
    BY <1>3, <1>5
  <2> QED BY <1>1, <2>1
<1>6. CASE Len(s) # 0
  <2>1. I # {} /\ 1 \in I /\ Len(s) \in I /\ I \in SUBSET Int
        /\ (\A x \in I : 1 <= x) /\ (\A x \in I : x <= Len(s))
    BY <1>3, <1>4, <1>6
  <2>2. from = 1 /\ last = Len(s)
    BY <2>1, MinIs, MaxIs
  <2>3. SubSeq(s, 1, Len(s)) = s
    OBVIOUS
  <2> HIDE DEF from, last
  <2> QED BY <1>1, <2>2, <2>3
<1> QED BY <1>5, <1>6

\* No block ends where nothing closes one.
LEMMA BlockNone ==
    ASSUME NEW s \in Seq(Clean({"close"}))
    PROVE  Bld!BlockIn(s) = {}
<1> DEFINE from == Bld!First(s, {"open"})
           I == {i \in (from + 1)..Len(s) : s[i] = Bld!CloseTag}
           to == IF I # {} THEN Bld!Min(I) ELSE 0
<1>1. to = 0 => Bld!BlockIn(s) = {}
  BY DEF Bld!BlockIn, Bld!SelectInSubSeq
<1>2. from \in 0..Len(s)
  <2>1. s \in Seq(Bld!Token)
    BY CleanTokens
  <2> QED BY <2>1, FirstFinds
<1>3. I = {}
  <2> HIDE DEF from
  <2>1. \A i \in (from + 1)..Len(s) : i \in 1..Len(s)
    BY <1>2
  <2>2. Bld!CloseTag.tag = "close"
    BY DEF Bld!CloseTag, Bld!Tok
  <2> QED BY <2>1, <2>2, CleanAt
<1>4. to = 0
  <2> HIDE DEF I
  <2> QED BY <1>3
<1> QED BY <1>1, <1>4

\* The block that is opened first ends where it is closed first.
Block(q, n, mid, suf) == Around(q, Bld!OpenTag(n), Around(mid, Bld!CloseTag, suf))

LEMMA TagTokens ==
    ASSUME NEW n \in Names
    PROVE  /\ Bld!OpenTag(n) \in Bld!Token /\ Bld!OpenTag(n).tag = "open" /\ Bld!OpenTag(n).id = n
           /\ Bld!CloseTag \in Bld!Token /\ Bld!CloseTag.tag = "close"
BY DEF Bld!OpenTag, Bld!CloseTag, Bld!Tok, Bld!Token, Bld!Tags

LEMMA BlockFound ==
    ASSUME NEW q \in Seq(Clean({"open"})), NEW n \in Names, NEW mid \in Seq(Clean({"close"})),
           NEW suf \in Seq(Bld!Token)
    PROVE  Bld!BlockIn(Block(q, n, mid, suf)) =
             {[name |-> n, body |-> Bld!Trim(mid), behind |-> suf]}
<1> DEFINE inner == Around(mid, Bld!CloseTag, suf)
           s == Around(q, Bld!OpenTag(n), inner)
           a == Len(q) + 1
           c == a + Len(mid) + 1
<1>1. /\ Bld!OpenTag(n) \in Bld!Token /\ Bld!OpenTag(n).tag = "open" /\ Bld!OpenTag(n).id = n
      /\ Bld!CloseTag \in Bld!Token /\ Bld!CloseTag.tag = "close"
  BY TagTokens
<1>2. q \in Seq(Bld!Token) /\ mid \in Seq(Bld!Token) /\ Len(q) \in Nat /\ Len(mid) \in Nat /\ Len(suf) \in Nat
  BY CleanTokens
<1>3. /\ inner \in Seq(Bld!Token) /\ Len(inner) = Len(mid) + 1 + Len(suf)
      /\ inner[Len(mid) + 1] = Bld!CloseTag
      /\ \A i \in 1..Len(mid) : inner[i] = mid[i]
      /\ \A i \in 1..Len(suf) : inner[Len(mid) + 1 + i] = suf[i]
  BY <1>1, <1>2, AroundParts
<1> HIDE DEF inner
<1>4. /\ s \in Seq(Bld!Token) /\ Len(s) = Len(q) + 1 + Len(inner)
      /\ a \in 1..Len(s) /\ s[a] = Bld!OpenTag(n)
      /\ \A i \in 1..Len(q) : s[i] = q[i]
      /\ \A i \in 1..Len(inner) : s[Len(q) + 1 + i] = inner[i]
  <2>1. q \in Seq(Bld!Token) /\ inner \in Seq(Bld!Token) /\ Bld!OpenTag(n) \in Bld!Token
    BY <1>1, <1>2, <1>3
  <2> QED BY <2>1, AroundParts
<1> HIDE DEF s
<1>5. Bld!First(s, {"open"}) = a
  <2>1. \A j \in 1..(a - 1) : s[j].tag \notin {"open"}
    <3>1. a - 1 = Len(q)
      BY <1>2
    <3> QED BY <1>4, <3>1, CleanAt
  <2> HIDE DEF a
  <2> QED BY <1>1, <1>4, <2>1, FirstIs
<1>6. /\ c \in (a + 1)..Len(s) /\ c \in Nat /\ a \in Nat /\ c # 0 /\ a # 0 /\ Len(s) = c + Len(suf)
      /\ s[c] = Bld!CloseTag
  <2>1. c = Len(q) + 1 + (Len(mid) + 1) /\ Len(mid) + 1 \in 1..Len(inner)
    BY <1>2, <1>3
  <2>2. s[c] = Bld!CloseTag
    BY <1>3, <1>4, <2>1
  <2> QED BY <1>2, <1>3, <1>4, <2>2
<1>7. \A i \in 1..Len(mid) : s[a + i] = mid[i]
  <2> TAKE i \in 1..Len(mid)
  <2>1. i \in 1..Len(inner) /\ Len(q) + 1 + i = a + i
    BY <1>2, <1>3
  <2> QED BY <1>3, <1>4, <2>1
<1>8. \A i \in 1..Len(suf) : s[c + i] = suf[i]
  <2> TAKE i \in 1..Len(suf)
  <2>1. Len(mid) + 1 + i \in 1..Len(inner) /\ Len(q) + 1 + (Len(mid) + 1 + i) = c + i
    BY <1>2, <1>3
  <2> QED BY <1>3, <1>4, <2>1
<1> DEFINE I == {i \in (a + 1)..Len(s) : s[i] = Bld!CloseTag}
           to == IF I # {} THEN Bld!Min(I) ELSE 0
<1>9. to = c
  <2>1. c \in I /\ I \in SUBSET Int
    BY <1>6
  <2>2. ASSUME NEW x \in I PROVE c <= x
    <3>1. SUFFICES ASSUME x < c PROVE FALSE
      BY <1>6
    <3> DEFINE i == x - a
    <3>2. i \in 1..Len(mid) /\ a + i = x
      BY <1>2, <1>6, <3>1
    <3>3. s[x] = mid[i] /\ s[x] = Bld!CloseTag
      BY <1>7, <3>2
    <3> HIDE DEF i, I
    <3>4. mid[i].tag \notin {"close"}
      BY <3>2, CleanAt
    <3> QED BY <1>1, <3>3, <3>4
  <2> HIDE DEF I, c
  <2>3. Bld!Min(I) = c
    BY <2>1, <2>2, MinIs
  <2> QED BY <2>1, <2>3
<1>10. Bld!BlockIn(s) = {[name |-> s[a].id, body |-> Bld!Trim(SubSeq(s, a + 1, c - 1)),
                          behind |-> Bld!Behind(s, c)]}
  <2> DEFINE from == Bld!First(s, {"open"})
             J == {i \in (from + 1)..Len(s) : s[i] = Bld!CloseTag}
             t == IF J # {} THEN Bld!Min(J) ELSE 0
  <2>1. Bld!BlockIn(s) = IF from = 0 \/ t = 0 THEN {}
                         ELSE {[name |-> s[from].id, body |-> Bld!Trim(SubSeq(s, from + 1, t - 1)),
                                behind |-> Bld!Behind(s, t)]}
    BY DEF Bld!BlockIn, Bld!SelectInSubSeq
  <2>2. from = a
    BY <1>5
  <2>3. t = c
    <3> HIDE DEF from, a, c
    <3>1. J = I
      BY <2>2
    <3> QED BY <1>9, <3>1
  <2>4. from # 0 /\ t # 0
    BY <1>6, <2>2, <2>3
  <2> HIDE DEF from, t, a, c
  <2> QED BY <2>1, <2>2, <2>3, <2>4
<1>11. SubSeq(s, a + 1, c - 1) = mid
  <2> DEFINE m == SubSeq(s, a + 1, c - 1)
  <2>1. m \in Seq(Bld!Token) /\ Len(m) = Len(mid) /\ \A i \in 1..Len(mid) : m[i] = s[a + i]
    <3>1. a + 1 \in 1..(Len(s) + 1) /\ c - 1 \in 0..Len(s) /\ c - 1 = a + Len(mid) /\ a \in Nat
      BY <1>2, <1>6
    <3> HIDE DEF a, c
    <3>2. m \in Seq(Bld!Token)
      BY <1>4, <3>1, Part
    <3>3. Len(m) = IF a + 1 <= c - 1 THEN (c - 1) - (a + 1) + 1 ELSE 0
      BY <1>4, <3>1
    <3>4. Len(m) = Len(mid)
      BY <1>2, <3>1, <3>3
    <3>5. \A i \in 1..Len(mid) : m[i] = s[a + i]
      BY <1>2, <1>4, <3>1
    <3> QED BY <3>2, <3>4, <3>5
  <2> HIDE DEF m, a, c
  <2>2. \A i \in 1..Len(m) : m[i] = mid[i]
    BY <1>7, <2>1
  <2>3. m = mid
    BY <1>2, <2>1, <2>2, SeqEqual
  <2> QED BY <2>3 DEF m
<1>12. Bld!Behind(s, c) = suf
  <2> DEFINE m == SubSeq(s, c + 1, Len(s))
  <2>1. m \in Seq(Bld!Token) /\ Len(m) = Len(suf) /\ \A i \in 1..Len(suf) : m[i] = s[c + i]
    <3>1. c + 1 \in 1..(Len(s) + 1) /\ Len(s) \in 0..Len(s) /\ Len(s) = c + Len(suf) /\ c \in Nat
      BY <1>2, <1>6
    <3> HIDE DEF a, c
    <3>2. m \in Seq(Bld!Token)
      BY <1>4, <3>1, Part
    <3>3. Len(m) = IF c + 1 <= Len(s) THEN Len(s) - (c + 1) + 1 ELSE 0
      BY <1>4, <3>1
    <3>4. Len(m) = Len(suf)
      BY <1>2, <3>1, <3>3
    <3>5. \A i \in 1..Len(suf) : m[i] = s[c + i]
      BY <1>2, <1>4, <3>1
    <3> QED BY <3>2, <3>4, <3>5
  <2> HIDE DEF m, a, c
  <2>2. \A i \in 1..Len(m) : m[i] = suf[i]
    BY <1>8, <2>1
  <2>3. m = suf
    BY <1>2, <2>1, <2>2, SeqEqual
  <2> QED BY <2>3 DEF m, Bld!Behind
<1> HIDE DEF a, c
<1>13. s[a].id = n
  BY <1>1, <1>4
<1>14. Block(q, n, mid, suf) = s
  BY DEF Block, s, inner
<1> QED BY <1>10, <1>11, <1>12, <1>13, <1>14

-----------------------------------------------------------------------------
(* The tokens of statements in a row. *)

TextsIn(o) == [i \in DOMAIN o |-> o[i].toks]
Toks(o) == Bld!Joined(TextsIn(o))

LEMMA TextsType ==
    ASSUME NEW o \in Seq(Good)
    PROVE  /\ TextsIn(o) \in Seq(Seq(Bld!Token)) /\ Len(TextsIn(o)) = Len(o)
           /\ \A i \in 1..Len(o) : TextsIn(o)[i] = o[i].toks
<1>1. DOMAIN o = 1..Len(o) /\ Len(o) \in Nat /\ \A i \in 1..Len(o) : o[i] \in Good
  OBVIOUS
<1>2. \A i \in 1..Len(o) : o[i].toks \in Seq(Bld!Token)
  BY <1>1 DEF Good, Bld!Statements
<1>3. TextsIn(o) = [i \in 1..Len(o) |-> o[i].toks]
  BY <1>1, Zenon DEF TextsIn
<1> DEFINE V == Seq(Bld!Token)
<1> HIDE DEF V
<1>4. TextsIn(o) \in [1..Len(o) -> V] /\ \A i \in 1..Len(o) : TextsIn(o)[i] = o[i].toks
  BY <1>2, <1>3 DEF V
<1>5. \A n \in Nat : \A f \in [1..n -> V] : f \in Seq(V) /\ Len(f) = n
  OBVIOUS
<1>6. TextsIn(o) \in Seq(V) /\ Len(TextsIn(o)) = Len(o)
  BY <1>1, <1>4, <1>5, Zenon
<1> QED BY <1>4, <1>6 DEF V

LEMMA ToksType == ASSUME NEW o \in Seq(Good) PROVE Toks(o) \in Seq(Bld!Token)
<1>1. TextsIn(o) \in Seq(Seq(Bld!Token))
  BY TextsType
<1> QED BY <1>1, JoinedType DEF Toks

LEMMA ToksRow ==
    ASSUME NEW a \in Seq(Good), NEW b \in Seq(Good)
    PROVE  Toks(a \o b) = Toks(a) \o Toks(b)
<1> DEFINE V == Seq(Bld!Token)
           c == a \o b
           s == TextsIn(c)
           p == TextsIn(a)
           q == TextsIn(b)
<1>1. /\ c \in Seq(Good) /\ Len(c) = Len(a) + Len(b) /\ Len(a) \in Nat /\ Len(b) \in Nat
      /\ \A i \in 1..(Len(a) + Len(b)) : c[i] = IF i <= Len(a) THEN a[i] ELSE b[i - Len(a)]
  <2>1. Len(a) \in Nat /\ Len(b) \in Nat
    OBVIOUS
  <2> QED BY <2>1, ConcatProperties, Zenon
<1> HIDE DEF c
<1>2. s \in Seq(V) /\ Len(s) = Len(c) /\ \A i \in 1..Len(c) : s[i] = c[i].toks
  BY <1>1, TextsType
<1>3. p \in Seq(V) /\ Len(p) = Len(a) /\ \A i \in 1..Len(a) : p[i] = a[i].toks
  BY TextsType
<1>4. q \in Seq(V) /\ Len(q) = Len(b) /\ \A i \in 1..Len(b) : q[i] = b[i].toks
  BY TextsType
<1> HIDE DEF s, p, q, V
<1>5. /\ p \o q \in Seq(V) /\ Len(p \o q) = Len(p) + Len(q)
      /\ \A i \in 1..(Len(p) + Len(q)) : (p \o q)[i] = IF i <= Len(p) THEN p[i] ELSE q[i - Len(p)]
  <2>1. p \in Seq(V) /\ q \in Seq(V)
    BY <1>3, <1>4
  <2> QED BY <2>1, ConcatProperties, Zenon
<1>6. ASSUME NEW i \in 1..Len(s) PROVE s[i] = (p \o q)[i]
  <2>1. i \in 1..(Len(a) + Len(b)) /\ s[i] = c[i].toks
    BY <1>1, <1>2
  <2>2. CASE i <= Len(a)
    <3>1. i \in 1..Len(a)
      BY <1>1, <2>1, <2>2
    <3> QED BY <1>1, <1>3, <1>4, <1>5, <2>1, <2>2, <3>1
  <2>3. CASE ~(i <= Len(a))
    <3>1. i - Len(a) \in 1..Len(b)
      BY <1>1, <2>1, <2>3
    <3> QED BY <1>1, <1>3, <1>4, <1>5, <2>1, <2>3, <3>1
  <2> QED BY <2>2, <2>3
<1>7. s = p \o q
  BY <1>1, <1>2, <1>3, <1>4, <1>5, <1>6, SeqEqual
<1>8. Bld!Joined(p \o q) = Bld!Joined(p) \o Bld!Joined(q)
  BY <1>3, <1>4, JoinedRow DEF V
<1> QED BY <1>7, <1>8 DEF Toks, s, p, q, c

LEMMA ToksOne ==
    ASSUME NEW g \in Good
    PROVE  Toks(<<g>>) = g.toks /\ g.toks \in Seq(Bld!Token) /\ <<g>> \in Seq(Good)
<1>1. g.toks \in Seq(Bld!Token)
  BY DEF Good, Bld!Statements
<1>2. DOMAIN <<g>> = 1..1 /\ <<g>>[1] = g
  OBVIOUS
<1> DEFINE x == <<g>>
<1>3. TextsIn(x) = [i \in 1..1 |-> g.toks]
  <2>1. \A i \in 1..1 : x[i].toks = g.toks
    BY <1>2
  <2>2. DOMAIN x = 1..1
    BY <1>2
  <2> HIDE DEF x
  <2> QED BY <2>1, <2>2 DEF TextsIn
<1>4. [i \in 1..1 |-> g.toks] = <<g.toks>>
  OBVIOUS
<1>5. Bld!Joined(<<g.toks>>) = g.toks
  BY <1>1, JoinedOne
<1> QED BY <1>1, <1>3, <1>4, <1>5, Concats DEF Toks

LEMMA LiteralEmpty == Bld!Literal(<<>>) = <<>>
BY DEF Bld!Literal

LEMMA ToksEmpty == Toks(<<>>) = <<>>
<1>1. TextsIn(<<>>) = <<>>
  BY DEF TextsIn
<1> QED BY <1>1, JoinedEmpty DEF Toks

LEMMA ToksMade ==
    ASSUME NEW s \in Seq(Bld!Token)
    PROVE  /\ Toks(<<Bld!AppendText(s)>>) = s
           /\ <<Bld!AppendText(s)>> \in Seq(Good)
           /\ Toks(Bld!NonEmpty(s)) = Bld!Literal(s)
           /\ Toks(Bld!WithNewline(s)) = Append(Bld!Literal(s), Bld!Newline)
<1>1. ASSUME NEW x \in Seq(Bld!Token)
      PROVE  Toks(<<Bld!AppendText(x)>>) = x /\ <<Bld!AppendText(x)>> \in Seq(Good)
  <2>1. Bld!AppendText(x) \in Good /\ Bld!AppendText(x).toks = x
    <3>1. Bld!AppendText(x).toks = x
      BY DEF Bld!AppendText
    <3> QED BY <3>1, StatementTypes
  <2> QED BY <2>1, ToksOne
<1>2. Bld!Literal(s) \in Seq(Bld!Token)
  BY Escapes
<1>3. Append(Bld!Literal(s), Bld!Newline) \in Seq(Bld!Token)
  BY <1>2, NewlineType, Concats
<1>4. Toks(Bld!NonEmpty(s)) = Bld!Literal(s)
  BY <1>1, <1>2, LiteralEmpty, ToksEmpty DEF Bld!NonEmpty
<1> QED BY <1>1, <1>3, <1>4 DEF Bld!WithNewline

LEMMA ToksTag ==
    ASSUME NEW t \in Bld!Token
    PROVE  /\ t.tag = "var" => Toks(<<Bld!Value(t)>>) = <<t>> /\ <<Bld!Value(t)>> \in Seq(Good)
           /\ Toks(<<Bld!Code(t)>>) = <<t>> /\ <<Bld!Code(t)>> \in Seq(Good)
<1>1. Bld!Value(t).toks = <<t>> /\ Bld!Code(t).toks = <<t>>
  BY DEF Bld!Value, Bld!Code
<1>2. Bld!Code(t) \in Good /\ (t.tag = "var" => Bld!Value(t) \in Good)
  BY StatementTypes
<1> QED BY <1>1, <1>2, ToksOne

LEMMA ToksFilled ==
    ASSUME mp \in [Names -> Seq(Bld!Token)], NEW n \in Names, NEW default \in Seq(Bld!Token)
    PROVE  Toks(Bld!Filled(n, default)) = IF mp[n] # <<>> THEN mp[n] ELSE default
<1>1. mp[n] \in Seq(Bld!Token)
  OBVIOUS
<1>2. Toks(<<Bld!AppendText(mp[n])>>) = mp[n] /\ Toks(<<Bld!AppendText(default)>>) = default
  BY <1>1, ToksMade
<1> QED BY <1>2, ToksEmpty DEF Bld!Filled

Regroups(a, b, c) == (a \o b) \o c = a \o (b \o c)

LEMMA InRow ==
    ASSUME NEW a \in Seq(Bld!Token), NEW b \in Seq(Bld!Token), NEW c \in Seq(Bld!Token)
    PROVE  Regroups(a, b, c)
BY ConcatAssociative DEF Regroups

InTurn(o, x, y, z) ==
    /\ Toks(o \o x \o y \o z) = Toks(o) \o (Toks(x) \o Toks(y) \o Toks(z))
    /\ Toks(o \o x \o y) = Toks(o) \o (Toks(x) \o Toks(y))

LEMMA ToksThree ==
    ASSUME NEW o \in Seq(Good), NEW x \in Seq(Good), NEW y \in Seq(Good), NEW z \in Seq(Good)
    PROVE  InTurn(o, x, y, z)
<1>1. o \o x \in Seq(Good) /\ o \o x \o y \in Seq(Good)
  BY Concats
<1>2. /\ Toks(o) \in Seq(Bld!Token) /\ Toks(x) \in Seq(Bld!Token)
      /\ Toks(y) \in Seq(Bld!Token) /\ Toks(z) \in Seq(Bld!Token)
  BY ToksType
<1>3. /\ Toks((o \o x) \o y) = Toks(o \o x) \o Toks(y)
      /\ Toks(o \o x) = Toks(o) \o Toks(x)
      /\ Toks((o \o x \o y) \o z) = Toks(o \o x \o y) \o Toks(z)
  BY <1>1, ToksRow
<1>4. (Toks(o) \o Toks(x)) \o Toks(y) = Toks(o) \o (Toks(x) \o Toks(y))
  <2>1. Regroups(Toks(o), Toks(x), Toks(y))
    BY <1>2, InRow, Zenon
  <2> QED BY <2>1, Zenon DEF Regroups
<1>5. Toks(x) \o Toks(y) \in Seq(Bld!Token)
  BY <1>2, Concats
<1>6. (Toks(o) \o (Toks(x) \o Toks(y))) \o Toks(z) = Toks(o) \o ((Toks(x) \o Toks(y)) \o Toks(z))
  <2>1. Regroups(Toks(o), Toks(x) \o Toks(y), Toks(z))
    BY <1>2, <1>5, InRow, Zenon
  <2> QED BY <2>1, Zenon DEF Regroups
<1> QED BY <1>3, <1>4, <1>6, Zenon DEF InTurn

-----------------------------------------------------------------------------
(* The lines of elements that are what they seem. *)

LEMMA SoundParts ==
    ASSUME NEW e \in Bld!Element, Bld!Sound(e)
    PROVE  /\ e.pre \in Seq(PlainTokens) /\ e.suf \in Seq(PlainTokens)
           /\ e.pre \in Seq(Bld!Token) /\ e.suf \in Seq(Bld!Token)
           /\ e.body \in Seq(Seq(Bld!Token))
           /\ e.tag.tag \in {"text", "percent", "var", "code", "comment", "attr", "block"}
           /\ e.tag.tag # "block" => e.tag \in Bld!Token
           /\ e.tag.tag \in {"attr", "block"} => e.tag.id \in Names /\ e.tag.val \in Nat
           /\ e.tag.tag = "block" => e.body \in Seq(Seq(PlainTokens)) /\ Len(e.body) \in Nat \ {0}
<1>1. /\ e.pre \in Seq(Bld!Token) /\ e.suf \in Seq(Bld!Token)
      /\ e.body \in Seq(Seq(Bld!Token))
      /\ e.tag \in Bld!Token \cup [tag : {"block"}, id : Names, val : Nat]
  BY DEF Bld!Element
<1>2. /\ Bld!Plain(e.pre) /\ Bld!Plain(e.suf)
      /\ e.tag.tag \in {"text", "percent", "var", "code", "comment", "attr", "block"}
      /\ e.tag.tag = "block" => e.body # <<>> /\ \A i \in DOMAIN e.body : Bld!Plain(e.body[i])
  BY DEF Bld!Sound
<1>3. e.pre \in Seq(PlainTokens) /\ e.suf \in Seq(PlainTokens)
  BY <1>1, <1>2, PlainSeq
<1>4. e.tag.tag # "block" => e.tag \in Bld!Token
  BY <1>1
<1>5. e.tag.tag \in {"attr", "block"} => e.tag.id \in Names /\ e.tag.val \in Nat
  <2>1. e.tag \in Bld!Token /\ e.tag.tag = "attr" => e.tag.id \in Names /\ e.tag.val \in Nat
    BY DEF Bld!Token
  <2>2. e.tag \in Bld!Token => e.tag.tag # "block"
    BY DEF Bld!Token, Bld!Tags
  <2>3. e.tag \in [tag : {"block"}, id : Names, val : Nat]
          => e.tag.id \in Names /\ e.tag.val \in Nat /\ e.tag.tag = "block"
    OBVIOUS
  <2> QED BY <1>1, <2>1, <2>2, <2>3
<1>6. ASSUME e.tag.tag = "block"
      PROVE  e.body \in Seq(Seq(PlainTokens)) /\ Len(e.body) \in Nat \ {0}
  <2> DEFINE V == Seq(PlainTokens)
  <2>1. DOMAIN e.body = 1..Len(e.body) /\ Len(e.body) \in Nat
        /\ e.body \in [1..Len(e.body) -> Seq(Bld!Token)]
    BY <1>1
  <2>2. \A i \in 1..Len(e.body) : e.body[i] \in V
    BY <1>2, <1>6, <2>1, PlainSeq
  <2> HIDE DEF V
  <2>3. e.body \in [1..Len(e.body) -> V]
    BY <2>1, <2>2
  <2>4. e.body \in Seq(V)
    BY <2>1, <2>3
  <2>5. Len(e.body) # 0
    BY <1>1, <1>2, <1>6
  <2> QED BY <2>1, <2>4, <2>5 DEF V
<1> QED BY <1>1, <1>2, <1>3, <1>4, <1>5, <1>6

\* What the lines of a block have behind its opening tag, from what was gathered so far.
Rest(e, k, mid) == IF k = Len(e.body) THEN Around(mid, Bld!CloseTag, e.suf) ELSE mid

LEMMA RestType ==
    ASSUME NEW e \in Bld!Element, NEW k, NEW mid \in Seq(Bld!Token)
    PROVE  Rest(e, k, mid) \in Seq(Bld!Token)
<1>1. Bld!CloseTag \in Bld!Token
  BY DEF Bld!CloseTag, Bld!Tok, Bld!Token, Bld!Tags
<1>2. e.suf \in Seq(Bld!Token)
  BY DEF Bld!Element
<1> QED BY <1>1, <1>2, Concats DEF Rest, Around

RestGrows(e, k, a, b) == a \o Rest(e, k, b) = Rest(e, k, a \o b)

LEMMA RestRow ==
    ASSUME NEW e \in Bld!Element, NEW k, NEW a \in Seq(Bld!Token), NEW b \in Seq(Bld!Token)
    PROVE  RestGrows(e, k, a, b)
<1>1. Bld!CloseTag \in Bld!Token
  BY DEF Bld!CloseTag, Bld!Tok, Bld!Token, Bld!Tags
<1>2. e.suf \in Seq(Bld!Token)
  BY DEF Bld!Element
<1> DEFINE c == <<Bld!CloseTag>>
           d == e.suf
<1>3. c \in Seq(Bld!Token) /\ d \in Seq(Bld!Token)
  BY <1>1, <1>2, Concats
<1> HIDE DEF c, d
<1>4. a \o (b \o c) = (a \o b) \o c
  <2>1. Regroups(a, b, c)
    BY <1>3, InRow, Zenon
  <2> QED BY <2>1, Zenon DEF Regroups
<1>5. b \o c \in Seq(Bld!Token)
  BY <1>3, Concats
<1>6. a \o ((b \o c) \o d) = (a \o (b \o c)) \o d
  <2>1. Regroups(a, b \o c, d)
    BY <1>3, <1>5, InRow, Zenon
  <2> QED BY <2>1, Zenon DEF Regroups
<1>7. a \o ((b \o c) \o d) = ((a \o b) \o c) \o d
  BY <1>4, <1>6, Zenon
<1>8. a \o Around(b, Bld!CloseTag, e.suf) = Around(a \o b, Bld!CloseTag, e.suf)
  BY <1>7, Zenon DEF Around, c, d
<1> QED BY <1>8 DEF Rest, RestGrows

\* The line an element begins with, and those a block goes on with.
LEMMA LineOne ==
    ASSUME NEW e \in Bld!Element, Bld!Sound(e), e.tag.tag # "block"
    PROVE  /\ Bld!LinesOf(e) \in Seq(Seq(Bld!Token)) /\ Len(Bld!LinesOf(e)) = 1
           /\ Bld!LinesOf(e)[1] = Around(e.pre, e.tag, e.suf)
<1>1. Bld!LinesOf(e) = <<Around(e.pre, e.tag, e.suf)>>
  BY DEF Bld!LinesOf, Around
<1>2. Bld!LinesOf(e) \in Seq(Seq(Bld!Token))
  BY LinesType
<1> QED BY <1>1, <1>2

LEMMA LineBlock ==
    ASSUME NEW e \in Bld!Element, Bld!Sound(e), e.tag.tag = "block"
    PROVE  /\ Bld!LinesOf(e) \in Seq(Seq(Bld!Token)) /\ Len(Bld!LinesOf(e)) = Len(e.body)
           /\ Bld!LinesOf(e)[1] = Around(e.pre, Bld!OpenTag(e.tag.id), Rest(e, 1, e.body[1]))
           /\ \A k \in 1..Len(e.body) : k # 1 => Bld!LinesOf(e)[k] = Rest(e, k, e.body[k])
<1> DEFINE n == Len(e.body)
           open == Bld!OpenTag(e.tag.id)
           end(i) == IF i = n THEN <<Bld!CloseTag>> \o e.suf ELSE <<>>
           begin(i) == IF i = 1 THEN Append(e.pre, open) ELSE <<>>
           line(i) == begin(i) \o e.body[i] \o end(i)
<1>1. /\ e.pre \in Seq(Bld!Token) /\ e.suf \in Seq(Bld!Token) /\ n \in Nat \ {0}
      /\ e.body \in Seq(Seq(Bld!Token)) /\ open \in Bld!Token /\ Bld!CloseTag \in Bld!Token
  BY SoundParts, TagTokens
<1>2. Bld!LinesOf(e) = [i \in 1..n |-> line(i)]
  BY Zenon DEF Bld!LinesOf
<1>3. Bld!LinesOf(e) \in Seq(Seq(Bld!Token))
  BY LinesType
<1>4. Len(Bld!LinesOf(e)) = n /\ \A i \in 1..n : Bld!LinesOf(e)[i] = line(i)
  <2> HIDE DEF line, n
  <2> QED BY <1>1, <1>2, <1>3
<1>5. ASSUME NEW i \in 1..n
      PROVE  e.body[i] \in Seq(Bld!Token) /\ e.body[i] \o end(i) = Rest(e, i, e.body[i])
  <2>1. e.body[i] \in Seq(Bld!Token)
    BY <1>1
  <2> DEFINE b == e.body[i]
             c == <<Bld!CloseTag>>
  <2>2. b \in Seq(Bld!Token) /\ c \in Seq(Bld!Token)
    BY <1>1, <2>1, Concats
  <2>3. b \o (c \o e.suf) = (b \o c) \o e.suf
    <3> HIDE DEF b, c
    <3>1. e.suf \in Seq(Bld!Token)
      BY <1>1
    <3>2. Regroups(b, c, e.suf)
      BY <2>2, <3>1, InRow, Zenon
    <3> QED BY <3>2, Zenon DEF Regroups
  <2>4. b \o <<>> = b
    <3> HIDE DEF b
    <3> QED BY <2>2
  <2> QED BY <2>1, <2>3, <2>4, Zenon DEF Rest, Around
<1>6. ASSUME NEW i \in 1..n PROVE Rest(e, i, e.body[i]) \in Seq(Bld!Token) /\ end(i) \in Seq(Bld!Token)
  BY <1>1, <1>5, RestType, Concats
<1> HIDE DEF end
<1>7. ASSUME NEW i \in 1..n, i # 1 PROVE line(i) = Rest(e, i, e.body[i])
  <2>1. <<>> \o e.body[i] = e.body[i]
    BY <1>5
  <2> QED BY <1>5, <1>7, <2>1
<1>8. line(1) = Around(e.pre, open, Rest(e, 1, e.body[1]))
  <2> DEFINE p == Append(e.pre, open)
             b == e.body[1]
             z == end(1)
  <2>1. 1 \in 1..n
    BY <1>1
  <2>2. p \in Seq(Bld!Token) /\ b \in Seq(Bld!Token) /\ z \in Seq(Bld!Token)
        /\ p = e.pre \o <<open>> /\ b \o z = Rest(e, 1, e.body[1])
    <3> HIDE DEF open
    <3> QED BY <1>1, <1>5, <1>6, <2>1, Concats, AppendIsConcat
  <2>3. line(1) = (p \o b) \o z
    OBVIOUS
  <2> HIDE DEF p, b, z, line
  <2>4. (p \o b) \o z = p \o (b \o z)
    <3>1. Regroups(p, b, z)
      BY <2>2, InRow, Zenon
    <3> QED BY <3>1, Zenon DEF Regroups
  <2> QED BY <2>2, <2>3, <2>4, Zenon DEF Around
<1> HIDE DEF line
<1>9. 1 \in 1..n
  BY <1>1
<1> QED BY <1>3, <1>4, <1>7, <1>8, <1>9

LEMMA SomeLines ==
    ASSUME NEW e \in Bld!Element, Bld!Sound(e)
    PROVE  Bld!LinesOf(e) \in Seq(Seq(Bld!Token)) /\ Len(Bld!LinesOf(e)) \in Nat \ {0}
BY LineOne, LineBlock, SoundParts

-----------------------------------------------------------------------------
(* The lines of a file. *)

Lines(elems) == [i \in DOMAIN elems |-> Bld!LinesOf(elems[i])]
Reached(elems, m) == Len(JoinedTo(Lines(elems), m))

LEMMA LinesInFile ==
    ASSUME NEW elems \in Seq(Bld!Element)
    PROVE  /\ Lines(elems) \in Seq(Seq(Seq(Bld!Token))) /\ Len(Lines(elems)) = Len(elems)
           /\ \A i \in 1..Len(elems) : Lines(elems)[i] = Bld!LinesOf(elems[i])
           /\ Bld!File(elems) = Bld!Joined(Lines(elems))
<1>1. DOMAIN elems = 1..Len(elems) /\ Len(elems) \in Nat
      /\ \A i \in 1..Len(elems) : elems[i] \in Bld!Element
  OBVIOUS
<1> DEFINE S == Seq(Seq(Bld!Token))
<1>2. \A i \in 1..Len(elems) : Bld!LinesOf(elems[i]) \in S
  BY <1>1, LinesType
<1>3. Lines(elems) = [i \in 1..Len(elems) |-> Bld!LinesOf(elems[i])]
  BY <1>1, Zenon DEF Lines
<1> HIDE DEF S
<1>4. /\ Lines(elems) \in [1..Len(elems) -> S]
      /\ \A i \in 1..Len(elems) : Lines(elems)[i] = Bld!LinesOf(elems[i])
  BY <1>2, <1>3
<1>5. \A n \in Nat : \A f \in [1..n -> S] : f \in Seq(S) /\ Len(f) = n
  OBVIOUS
<1>6. Lines(elems) \in Seq(S) /\ Len(Lines(elems)) = Len(elems)
  BY <1>1, <1>4, <1>5, Zenon
<1>7. Bld!File(elems) = Bld!Joined(Lines(elems))
  BY DEF Bld!File, Lines
<1> QED BY <1>4, <1>6, <1>7 DEF S

LEMMA ReachedEnds ==
    ASSUME NEW elems \in Seq(Bld!Element)
    PROVE  Reached(elems, 0) = 0 /\ Reached(elems, Len(elems)) = Len(Bld!File(elems))
<1> DEFINE ss == Lines(elems)
<1>1. ss \in Seq(Seq(Seq(Bld!Token))) /\ Len(ss) = Len(elems) /\ Bld!File(elems) = Bld!Joined(ss)
  BY LinesInFile
<1> HIDE DEF ss
<1>2. JoinedTo(ss, 0) = <<>> /\ JoinedTo(ss, Len(ss)) = Bld!Joined(ss)
  BY <1>1, JoinedParts
<1>3. Len(<<>>) = 0
  OBVIOUS
<1> QED BY <1>1, <1>2, <1>3 DEF Reached, ss

LEMMA FileAt ==
    ASSUME NEW elems \in Seq(Bld!Element), NEW m \in 0..(Len(elems) - 1)
    PROVE  /\ Reached(elems, m) \in Nat
           /\ Len(Bld!LinesOf(elems[m + 1])) \in Nat
           /\ Reached(elems, m + 1) = Reached(elems, m) + Len(Bld!LinesOf(elems[m + 1]))
           /\ Reached(elems, m + 1) <= Len(Bld!File(elems))
           /\ \A j \in 1..Len(Bld!LinesOf(elems[m + 1])) :
                Bld!File(elems)[Reached(elems, m) + j] = Bld!LinesOf(elems[m + 1])[j]
<1> DEFINE ss == Lines(elems)
<1>1. /\ ss \in Seq(Seq(Seq(Bld!Token))) /\ Len(ss) = Len(elems)
      /\ \A i \in 1..Len(elems) : ss[i] = Bld!LinesOf(elems[i])
      /\ Bld!File(elems) = Bld!Joined(ss)
  BY LinesInFile
<1> HIDE DEF ss
<1>2. m + 1 \in 1..Len(elems) /\ m \in 0..(Len(ss) - 1)
  BY <1>1
<1>3. ss[m + 1] = Bld!LinesOf(elems[m + 1])
  BY <1>1, <1>2
<1>4. /\ Len(JoinedTo(ss, m + 1)) = Len(JoinedTo(ss, m)) + Len(ss[m + 1])
      /\ Len(JoinedTo(ss, m)) \in Nat /\ Len(ss[m + 1]) \in Nat
      /\ Len(JoinedTo(ss, m + 1)) <= Len(Bld!Joined(ss))
      /\ \A j \in 1..Len(ss[m + 1]) :
           Bld!Joined(ss)[Len(JoinedTo(ss, m)) + j] = ss[m + 1][j]
  BY <1>1, <1>2, JoinedAt
<1> QED BY <1>1, <1>3, <1>4, Zenon DEF Reached, ss

-----------------------------------------------------------------------------
(* What the template gives, and the page its base becomes. *)

Naming(n, m) == {i \in 1..m : /\ given.elems[i].tag.tag \in {"block", "attr"}
                              /\ given.elems[i].tag.id = n}
Gives(e) == IF e.tag.tag = "attr" THEN <<Bld!Tok("text", "", e.tag.val)>>
            ELSE Bld!Literal(Bld!Joined(e.body))
OverrideAt(n, m) ==
    IF Naming(n, m) = {} THEN <<>> ELSE Gives(given.elems[Bld!Max(Naming(n, m))])

Renderings == [i \in DOMAIN Bld!BaseElems |-> Bld!Rendered(Bld!BaseElems[i])]
PageTo(m) == JoinedTo(Renderings, m)

LEMMA ElemsTyped ==
    ASSUME Fixed
    PROVE  given.elems \in Seq(Bld!Element) /\ Bld!BaseElems \in Seq(Bld!Element)
           /\ given.extends \in BOOLEAN
<1>1. given \in [extends : BOOLEAN, elems : Seq(Bld!Element)]
  BY CspAssumption DEF Fixed
<1>2. Bld!Inherits => inc \in Seq(Bld!Element)
  BY CspAssumption DEF Bld!Inherits, Fixed
<1>3. given.elems \in Seq(Bld!Element) /\ given.extends \in BOOLEAN
  BY <1>1
<1> QED BY <1>2, <1>3 DEF Bld!BaseElems

LEMMA GivesType ==
    ASSUME NEW e \in Bld!Element
    PROVE  Gives(e) \in Seq(Bld!Token)
<1>1. e.body \in Seq(Seq(Bld!Token)) /\ e.tag \in Bld!Token \cup [tag : {"block"}, id : Names, val : Nat]
  BY DEF Bld!Element
<1>2. Bld!Literal(Bld!Joined(e.body)) \in Seq(Bld!Token)
  BY <1>1, JoinedType, Escapes
<1>3. e.tag.val \in Nat
  BY <1>1 DEF Bld!Token
<1> QED BY <1>2, <1>3, TextToken DEF Gives

LEMMA OverrideIs ==
    ASSUME Fixed, NEW n
    PROVE  /\ Bld!Override(n) = IF Bld!Inherits THEN OverrideAt(n, Len(given.elems)) ELSE <<>>
           /\ OverrideAt(n, 0) = <<>>
<1> DEFINE I == Naming(n, Len(given.elems))
           i == IF I # {} THEN Bld!Max(I) ELSE 0
           e == given.elems[i]
<1>1. Bld!Override(n) = IF ~Bld!Inherits \/ i = 0 THEN <<>>
                        ELSE IF e.tag.tag = "attr" THEN <<Bld!Tok("text", "", e.tag.val)>>
                        ELSE Bld!Literal(Bld!Joined(e.body))
  BY DEF Bld!Override, Bld!SelectLastInSeq, Naming
<1>2. Len(given.elems) \in Nat
  BY ElemsTyped
<1>3. I \in SUBSET (1..Len(given.elems))
  BY DEF Naming
<1>4. I # {} => i # 0 /\ i = Bld!Max(I)
  <2> HIDE DEF I
  <2>1. I # {} => Bld!Max(I) \in 1..Len(given.elems)
    BY <1>2, <1>3, Found
  <2> QED BY <1>2, <2>1
<1>5. I = {} => i = 0
  OBVIOUS
<1>6. Naming(n, 0) = {}
  BY DEF Naming
<1>7. OverrideAt(n, Len(given.elems)) = IF I = {} THEN <<>> ELSE Gives(given.elems[Bld!Max(I)])
  BY Zenon DEF OverrideAt
<1>8. CASE I = {}
  <2> HIDE DEF e, i, I
  <2> QED BY <1>1, <1>5, <1>6, <1>7, <1>8 DEF OverrideAt
<1>9. CASE I # {}
  <2>1. Gives(e) = IF e.tag.tag = "attr" THEN <<Bld!Tok("text", "", e.tag.val)>>
                   ELSE Bld!Literal(Bld!Joined(e.body))
    BY Zenon DEF Gives
  <2>2. e = given.elems[Bld!Max(I)]
    BY <1>4, <1>9
  <2> HIDE DEF e, i, I
  <2> QED BY <1>1, <1>4, <1>6, <1>7, <1>9, <2>1, <2>2 DEF OverrideAt
<1> QED BY <1>8, <1>9

LEMMA OverrideNext ==
    ASSUME NEW n, NEW m \in Nat
    PROVE  OverrideAt(n, m + 1) =
             IF /\ given.elems[m + 1].tag.tag \in {"block", "attr"}
                /\ given.elems[m + 1].tag.id = n
             THEN Gives(given.elems[m + 1]) ELSE OverrideAt(n, m)
<1> DEFINE I == Naming(n, m)
           J == Naming(n, m + 1)
           here == /\ given.elems[m + 1].tag.tag \in {"block", "attr"}
                   /\ given.elems[m + 1].tag.id = n
<1>1. \A i : i \in 1..(m + 1) <=> i \in 1..m \/ i = m + 1
  OBVIOUS
<1>2. CASE here
  <2>1. m + 1 \in J /\ J \in SUBSET Int /\ \A x \in J : x <= m + 1
    BY <1>2 DEF Naming
  <2> HIDE DEF J, here
  <2>2. J # {} /\ Bld!Max(J) = m + 1
    BY <2>1, MaxIs
  <2> QED BY <1>2, <2>2 DEF OverrideAt, J, here
<1>3. CASE ~here
  <2>1. I = J
    BY <1>1, <1>3, Zenon DEF Naming
  <2> QED BY <1>3, <2>1 DEF OverrideAt
<1> QED BY <1>2, <1>3

LEMMA OverrideType ==
    ASSUME Fixed, NEW n, NEW m \in 0..Len(given.elems)
    PROVE  OverrideAt(n, m) \in Seq(Bld!Token) /\ Bld!Override(n) \in Seq(Bld!Token)
<1>1. given.elems \in Seq(Bld!Element) /\ Len(given.elems) \in Nat
  BY ElemsTyped
<1>2. ASSUME NEW k \in 0..Len(given.elems) PROVE OverrideAt(n, k) \in Seq(Bld!Token)
  <2> DEFINE I == Naming(n, k)
  <2>1. I \in SUBSET (1..k) /\ k \in Nat
    BY DEF Naming
  <2>2. CASE I # {}
    <3>1. Bld!Max(I) \in I
      <4> HIDE DEF I
      <4> QED BY <2>1, <2>2, Found
    <3>2. Bld!Max(I) \in 1..Len(given.elems)
      <4>1. \A i \in 1..k : i \in 1..Len(given.elems)
        BY <1>1
      <4> HIDE DEF I
      <4> QED BY <2>1, <3>1, <4>1
    <3>3. given.elems[Bld!Max(I)] \in Bld!Element
      <4> HIDE DEF I
      <4> QED BY <1>1, <3>2
    <3> QED BY <2>2, <3>3, GivesType DEF OverrideAt
  <2>3. CASE I = {}
    BY <2>3, Concats DEF OverrideAt
  <2> QED BY <2>2, <2>3
<1>3. Len(given.elems) \in 0..Len(given.elems)
  BY <1>1
<1> QED BY <1>2, <1>3, OverrideIs, Concats

\* The lines of a block with the newlines between them.
Broken(body) == [i \in DOMAIN body |-> IF i = 1 THEN body[i] ELSE <<Bld!Break>> \o body[i]]
BreaksTo(body, k) == JoinedTo(Broken(body), k)

LEMMA BreakClean ==
    Bld!Break \in Bld!Token /\ Bld!Break \in Clean({"close"})
BY DEF Bld!Break, Bld!Tok, Bld!Token, Bld!Tags, Clean

LEMMA BrokenType ==
    ASSUME NEW S, Bld!Break \in S, NEW body \in Seq(Seq(S))
    PROVE  /\ Broken(body) \in Seq(Seq(S)) /\ Len(Broken(body)) = Len(body)
           /\ \A i \in 1..Len(body) : Broken(body)[i] = IF i = 1 THEN body[i]
                                                        ELSE <<Bld!Break>> \o body[i]
<1>1. DOMAIN body = 1..Len(body) /\ Len(body) \in Nat /\ \A i \in 1..Len(body) : body[i] \in Seq(S)
  OBVIOUS
<1> DEFINE V == Seq(S)
           line(i) == IF i = 1 THEN body[i] ELSE <<Bld!Break>> \o body[i]
<1>2. \A i \in 1..Len(body) : line(i) \in V
  BY <1>1, Concats
<1>3. Broken(body) = [i \in 1..Len(body) |-> line(i)]
  BY <1>1, Zenon DEF Broken
<1> HIDE DEF V, line
<1>4. Broken(body) \in [1..Len(body) -> V] /\ \A i \in 1..Len(body) : Broken(body)[i] = line(i)
  BY <1>2, <1>3
<1>5. \A n \in Nat : \A f \in [1..n -> V] : f \in Seq(V) /\ Len(f) = n
  OBVIOUS
<1>6. Broken(body) \in Seq(V) /\ Len(Broken(body)) = Len(body)
  BY <1>1, <1>4, <1>5, Zenon
<1> QED BY <1>4, <1>6 DEF V, line

LEMMA BreaksNext ==
    ASSUME NEW S, Bld!Break \in S, NEW body \in Seq(Seq(S)), Len(body) # 0
    PROVE  /\ BreaksTo(body, 1) = body[1]
           /\ \A k \in 1..Len(body) : BreaksTo(body, k) \in Seq(S)
           /\ \A k \in 1..(Len(body) - 1) :
                BreaksTo(body, k + 1) = BreaksTo(body, k) \o (<<Bld!Break>> \o body[k + 1])
           /\ Bld!WithBreaks(body) = Bld!Trim(BreaksTo(body, Len(body)))
<1> DEFINE ss == Broken(body)
<1>1. /\ ss \in Seq(Seq(S)) /\ Len(ss) = Len(body)
      /\ \A i \in 1..Len(body) : ss[i] = IF i = 1 THEN body[i] ELSE <<Bld!Break>> \o body[i]
  BY BrokenType
<1>2. Bld!WithBreaks(body) = Bld!Trim(Bld!Joined(ss))
  BY DEF Bld!WithBreaks, Broken
<1> HIDE DEF ss
<1>3. /\ JoinedTo(ss, 0) = <<>>
      /\ JoinedTo(ss, Len(ss)) = Bld!Joined(ss)
      /\ \A m \in 0..Len(ss) : JoinedTo(ss, m) \in Seq(S)
      /\ \A m \in 0..(Len(ss) - 1) : JoinedTo(ss, m + 1) = JoinedTo(ss, m) \o ss[m + 1]
  BY <1>1, JoinedParts
<1>4. Len(body) \in Nat /\ body[1] \in Seq(S)
  OBVIOUS
<1>5. JoinedTo(ss, 1) = body[1]
  <2>1. 0 \in 0..(Len(ss) - 1) /\ 0 + 1 = 1 /\ 1 \in 1..Len(body)
    BY <1>1, <1>4
  <2>2. JoinedTo(ss, 0 + 1) = JoinedTo(ss, 0) \o ss[0 + 1]
    BY <1>3, <2>1, Zenon
  <2>3. JoinedTo(ss, 1) = <<>> \o body[1]
    BY <1>1, <1>3, <2>1, <2>2
  <2> QED BY <1>4, <2>3
<1>6. ASSUME NEW k \in 1..(Len(body) - 1)
      PROVE  JoinedTo(ss, k + 1) = JoinedTo(ss, k) \o (<<Bld!Break>> \o body[k + 1])
  <2>1. k \in 0..(Len(ss) - 1) /\ k + 1 \in 1..Len(body) /\ k + 1 # 1
    BY <1>1, <1>4
  <2> QED BY <1>1, <1>3, <2>1
<1>7. \A k \in 1..Len(body) : JoinedTo(ss, k) \in Seq(S)
  BY <1>1, <1>3, <1>4
<1> QED BY <1>1, <1>2, <1>3, <1>5, <1>6, <1>7 DEF BreaksTo, ss

LEMMA OneInterval ==
    ASSUME NEW m \in Nat, NEW n \in Nat, 1..m = 1..n
    PROVE  m = n
<1>1. CASE m < n
  <2>1. n \in 1..n /\ n \notin 1..m
    BY <1>1
  <2> QED BY <2>1, Zenon
<1>2. CASE n < m
  <2>1. m \in 1..m /\ m \notin 1..n
    BY <1>2
  <2> QED BY <2>1, Zenon
<1> QED BY <1>1, <1>2

LEMMA LiteralNone ==
    ASSUME NEW s \in Seq(Bld!Token)
    PROVE  Bld!Literal(s) = <<>> <=> s = <<>>
<1>1. DOMAIN Bld!Literal(s) = DOMAIN s
  BY DEF Bld!Literal
<1>2. Bld!Literal(s) \in Seq(Bld!Token)
  BY Escapes
<1>3. \A x \in Seq(Bld!Token) : DOMAIN x = 1..Len(x) /\ Len(x) \in Nat /\ (x = <<>> <=> Len(x) = 0)
  OBVIOUS
<1> DEFINE w == Bld!Literal(s)
           m == Len(w)
           n == Len(s)
<1>4. m \in Nat /\ n \in Nat /\ 1..m = 1..n /\ (w = <<>> <=> m = 0) /\ (s = <<>> <=> n = 0)
  BY <1>1, <1>2, <1>3, Zenon
<1> HIDE DEF m, n
<1>5. m = n
  BY <1>4, OneInterval, Zenon
<1> QED BY <1>4, <1>5, Zenon

\* What stands for an attribute or a block.
Default(e) == IF e.tag.tag = "attr" THEN <<Bld!Tok("text", "", e.tag.val)>>
              ELSE Bld!WithBreaks(e.body)
Own(e) == IF Bld!Override(e.tag.id) # <<>> THEN Bld!Override(e.tag.id) ELSE Default(e)
Lined(s) == Append(Bld!Literal(s), Bld!Newline)

LEMMA RenderedIs ==
    ASSUME NEW e
    PROVE  /\ e.tag.tag \in {"attr", "block"}
                => Bld!Rendered(e) = Bld!Literal(e.pre) \o Own(e) \o Lined(e.suf)
           /\ e.tag.tag = "comment"
                => Bld!Rendered(e) = IF Bld!Literal(e.pre) \o Bld!Literal(e.suf) = <<>> THEN <<>>
                                     ELSE Bld!Literal(e.pre) \o Lined(e.suf)
           /\ e.tag.tag = "code"
                => Bld!Rendered(e) = Bld!Literal(e.pre) \o <<e.tag>>
                                     \o (IF Bld!Literal(e.suf) = <<>> THEN <<>> ELSE Lined(e.suf))
           /\ e.tag.tag \in {"text", "percent", "var"}
                => Bld!Rendered(e) = Bld!Literal(e.pre) \o Bld!Literal(<<e.tag>>) \o Lined(e.suf)
BY DEF Bld!Rendered, Own, Default, Lined

LEMMA LinedType ==
    ASSUME NEW s \in Seq(Bld!Token)
    PROVE  Bld!Literal(s) \in Seq(Bld!Token) /\ Lined(s) \in Seq(Bld!Token)
BY Escapes, NewlineType, Concats DEF Lined

LEMMA OwnType ==
    ASSUME Fixed, NEW e \in Bld!Element, Bld!Sound(e), e.tag.tag \in {"attr", "block"}
    PROVE  Own(e) \in Seq(Bld!Token) /\ Default(e) \in Seq(Bld!Token)
<1>1. Bld!Override(e.tag.id) \in Seq(Bld!Token)
  <2>1. 0 \in 0..Len(given.elems)
    BY ElemsTyped
  <2> QED BY <2>1, OverrideType
<1>2. CASE e.tag.tag = "attr"
  BY <1>1, <1>2, SoundParts, TextToken DEF Own, Default
<1>3. CASE e.tag.tag = "block"
  <2>1. e.body \in Seq(Seq(Bld!Token)) /\ Len(e.body) \in Nat \ {0}
    BY <1>3, SoundParts
  <2>2. Bld!Break \in Bld!Token
    BY BreakClean
  <2>3. Bld!WithBreaks(e.body) = Bld!Trim(BreaksTo(e.body, Len(e.body)))
        /\ BreaksTo(e.body, Len(e.body)) \in Seq(Bld!Token)
    <3>1. Len(e.body) \in 1..Len(e.body) /\ Len(e.body) # 0
      BY <2>1
    <3> QED BY <2>1, <2>2, <3>1, BreaksNext
  <2>4. Bld!WithBreaks(e.body) \in Seq(Bld!Token)
    BY <2>3, TrimType
  <2> QED BY <1>1, <1>3, <2>4 DEF Own, Default
<1> QED BY <1>2, <1>3

LEMMA RenderedType ==
    ASSUME Fixed, NEW e \in Bld!Element, Bld!Sound(e)
    PROVE  Bld!Rendered(e) \in Seq(Bld!Token)
<1>1. e.pre \in Seq(Bld!Token) /\ e.suf \in Seq(Bld!Token)
      /\ e.tag.tag \in {"text", "percent", "var", "code", "comment", "attr", "block"}
      /\ (e.tag.tag # "block" => <<e.tag>> \in Seq(Bld!Token))
  BY SoundParts, Concats
<1>2. /\ Bld!Literal(e.pre) \in Seq(Bld!Token) /\ Bld!Literal(e.suf) \in Seq(Bld!Token)
      /\ Lined(e.suf) \in Seq(Bld!Token) /\ <<>> \in Seq(Bld!Token)
  BY <1>1, LinedType, Concats
<1>3. CASE e.tag.tag \in {"attr", "block"}
  <2>1. Own(e) \in Seq(Bld!Token)
    BY <1>3, OwnType
  <2>2. Bld!Rendered(e) = Bld!Literal(e.pre) \o Own(e) \o Lined(e.suf)
    BY <1>3, RenderedIs
  <2> QED BY <1>2, <2>1, <2>2, Concats
<1>4. CASE e.tag.tag = "comment"
  BY <1>2, <1>4, RenderedIs, Concats
<1>5. CASE e.tag.tag = "code"
  <2>1. <<e.tag>> \in Seq(Bld!Token)
    BY <1>1, <1>5
  <2> DEFINE z == IF Bld!Literal(e.suf) = <<>> THEN <<>> ELSE Lined(e.suf)
  <2>2. z \in Seq(Bld!Token)
    BY <1>2
  <2>3. Bld!Rendered(e) = Bld!Literal(e.pre) \o <<e.tag>> \o z
    BY <1>5, RenderedIs
  <2> HIDE DEF z
  <2> QED BY <1>2, <2>1, <2>2, <2>3, Concats
<1>6. CASE e.tag.tag \in {"text", "percent", "var"}
  <2>1. Bld!Literal(<<e.tag>>) \in Seq(Bld!Token)
    BY <1>1, <1>6, Escapes
  <2>2. Bld!Rendered(e) = Bld!Literal(e.pre) \o Bld!Literal(<<e.tag>>) \o Lined(e.suf)
    BY <1>6, RenderedIs
  <2> QED BY <1>2, <2>1, <2>2, Concats
<1> QED BY <1>1, <1>3, <1>4, <1>5, <1>6

\* A page, one element after the other.
Sounding ==
    /\ given.extends => inc # NoFile
    /\ \A i \in 1..Len(given.elems) : given.elems[i] \in Bld!Element /\ Bld!Sound(given.elems[i])
    /\ \A i \in 1..Len(Bld!BaseElems) :
        /\ Bld!BaseElems[i] \in Bld!Element /\ Bld!Sound(Bld!BaseElems[i])
        /\ Bld!BaseElems[i].tag.tag = "block" /\ Bld!Override(Bld!BaseElems[i].tag.id) # <<>>
            => Bld!BaseElems[i].suf = <<>>

LEMMA SoundIs ==
    ASSUME Fixed, Bld!SoundPage
    PROVE  Sounding
<1>1. \A x \in Seq(Bld!Element) : DOMAIN x = 1..Len(x) /\ \A i \in 1..Len(x) : x[i] \in Bld!Element
  OBVIOUS
<1>2. given.elems \in Seq(Bld!Element) /\ Bld!BaseElems \in Seq(Bld!Element)
  BY ElemsTyped
<1> QED BY <1>1, <1>2, Zenon DEF Bld!SoundPage, Sounding

LEMMA PageNext ==
    ASSUME Fixed, Bld!SoundPage
    PROVE  /\ PageTo(0) = <<>>
           /\ PageTo(Len(Bld!BaseElems)) = Bld!Page
           /\ \A m \in 0..Len(Bld!BaseElems) : PageTo(m) \in Seq(Bld!Token)
           /\ \A m \in 0..(Len(Bld!BaseElems) - 1) :
                PageTo(m + 1) = PageTo(m) \o Bld!Rendered(Bld!BaseElems[m + 1])
<1> DEFINE be == Bld!BaseElems
           ss == Renderings
           V == Seq(Bld!Token)
<1>1. DOMAIN be = 1..Len(be) /\ Len(be) \in Nat
  BY ElemsTyped
<1>2. \A i \in 1..Len(be) : Bld!Rendered(be[i]) \in V
  BY SoundIs, RenderedType DEF Sounding
<1>3. ss = [i \in 1..Len(be) |-> Bld!Rendered(be[i])]
  BY <1>1, Zenon DEF Renderings
<1> HIDE DEF V, be
<1>4. ss \in [1..Len(be) -> V] /\ \A i \in 1..Len(be) : ss[i] = Bld!Rendered(be[i])
  BY <1>2, <1>3
<1>5. \A n \in Nat : \A f \in [1..n -> V] : f \in Seq(V) /\ Len(f) = n
  OBVIOUS
<1>6. ss \in Seq(V) /\ Len(ss) = Len(be)
  BY <1>1, <1>4, <1>5, Zenon
<1>7. Bld!Page = Bld!Joined(ss)
  BY DEF Bld!Page, Renderings
<1> HIDE DEF ss
<1>8. /\ JoinedTo(ss, 0) = <<>>
      /\ JoinedTo(ss, Len(ss)) = Bld!Joined(ss)
      /\ \A m \in 0..Len(ss) : JoinedTo(ss, m) \in Seq(Bld!Token)
      /\ \A m \in 0..(Len(ss) - 1) : JoinedTo(ss, m + 1) = JoinedTo(ss, m) \o ss[m + 1]
  BY <1>6, JoinedParts DEF V
<1>9. \A m \in 0..(Len(be) - 1) : m + 1 \in 1..Len(be)
  BY <1>1
<1> QED BY <1>4, <1>6, <1>7, <1>8, <1>9 DEF PageTo, ss, be

LEMMA PageKept ==
    ASSUME UNCHANGED <<given, inc>>
    PROVE  /\ Bld!SoundPage' = Bld!SoundPage
           /\ Bld!BaseElems' = Bld!BaseElems
           /\ Bld!Inherits' = Bld!Inherits
           /\ Bld!Page' = Bld!Page
           /\ \A m : PageTo(m)' = PageTo(m)
           /\ \A n : Bld!Override(n)' = Bld!Override(n)
           /\ \A n, m : OverrideAt(n, m)' = OverrideAt(n, m)
<1>1. Bld!BaseElems' = Bld!BaseElems /\ Bld!Inherits' = Bld!Inherits
  BY DEF Bld!BaseElems, Bld!Inherits
<1>2. \A n : Bld!Override(n)' = Bld!Override(n)
  BY <1>1 DEF Bld!Override, Bld!SelectLastInSeq
<1>3. \A e : Bld!Rendered(e)' = Bld!Rendered(e)
  BY <1>2 DEF Bld!Rendered
<1>4. Bld!Page' = Bld!Page /\ \A m : PageTo(m)' = PageTo(m)
  BY <1>1, <1>3 DEF Bld!Page, PageTo, JoinedTo, Renderings
<1>5. \A n, m : OverrideAt(n, m)' = OverrideAt(n, m)
  BY DEF OverrideAt, Naming
<1>6. Bld!SoundPage' = Bld!SoundPage
  BY <1>1, <1>2 DEF Bld!SoundPage
<1> QED BY <1>1, <1>2, <1>4, <1>5, <1>6, Zenon

-----------------------------------------------------------------------------
(* What a statement prints is what its tokens show. *)

\* The sum over what comes first and what comes behind.
InOrder(w, x, m, y, n) ==
    /\ \A i \in 1..m : w[i] = x[i] /\ x[i] \in Nat
    /\ \A i \in 1..n : w[m + i] = y[i] /\ y[i] \in Nat

LEMMA SumRow ==
    ASSUME NEW w, NEW x, NEW m \in Nat, NEW y, NEW n \in Nat, InOrder(w, x, m, y, n)
    PROVE  SumTo(w, m + n) = SumTo(x, m) + SumTo(y, n)
<1> USE DEF InOrder
<1> DEFINE T == {k \in Nat : k <= n => SumTo(w, m + k) = SumTo(x, m) + SumTo(y, k)}
<1>1. \A i \in 1..(m + n) : w[i] \in Nat
  <2> TAKE i \in 1..(m + n)
  <2>1. CASE i \in 1..m
    BY <2>1
  <2>2. CASE i \notin 1..m
    <3>1. i - m \in 1..n /\ m + (i - m) = i
      BY <2>2
    <3> QED BY <3>1
  <2> QED BY <2>1, <2>2
<1>2. SumTo(w, m) = SumTo(x, m) /\ SumTo(x, m) \in Nat
  BY SumSame, SumType
<1>3. 0 \in T
  <2>1. SumTo(w, m + 0) = SumTo(x, m) + SumTo(y, 0)
    BY <1>2, SumFirst
  <2> QED BY <2>1
<1>4. ASSUME NEW k \in Nat, k \in T PROVE k + 1 \in T
  <2>1. SUFFICES ASSUME k + 1 <= n PROVE SumTo(w, m + (k + 1)) = SumTo(x, m) + SumTo(y, k + 1)
    OBVIOUS
  <2>2. SumTo(w, m + k) = SumTo(x, m) + SumTo(y, k)
    BY <1>4, <2>1
  <2>3. /\ \A i \in 1..((m + k) + 1) : i \in 1..(m + n)
        /\ \A i \in 1..(k + 1) : i \in 1..n
        /\ m + k \in Nat /\ k + 1 \in 1..n /\ (m + k) + 1 = m + (k + 1)
    BY <2>1
  <2>4. SumTo(w, (m + k) + 1) = SumTo(w, m + k) + w[(m + k) + 1]
    BY <1>1, <2>3, SumNext
  <2>5. SumTo(y, k + 1) = SumTo(y, k) + y[k + 1] /\ SumTo(y, k) \in Nat
    BY <2>1, <2>3, SumNext, SumType
  <2>6. w[m + (k + 1)] = y[k + 1] /\ y[k + 1] \in Nat
    BY <2>3
  <2> QED BY <1>2, <2>2, <2>3, <2>4, <2>5, <2>6
<1>5. n \in T
  <2> HIDE DEF T
  <2> QED BY <1>3, <1>4, Inductive
<1> QED BY <1>5

Shows(toks) == [i \in DOMAIN toks |-> IF toks[i].tag = "code" THEN 0 ELSE Width[toks[i].tag]]

LEMMA ShowsType ==
    ASSUME NEW toks \in Seq(Bld!Token)
    PROVE  /\ Len(toks) \in Nat /\ ShownWidth(toks) = SumTo(Shows(toks), Len(toks))
           /\ \A i \in 1..Len(toks) :
                /\ Shows(toks)[i] = IF toks[i].tag = "code" THEN 0 ELSE Width[toks[i].tag]
                /\ Shows(toks)[i] \in Nat
           /\ ShownWidth(toks) \in Nat
<1>1. /\ Len(toks) \in Nat /\ ShownWidth(toks) = SumTo(Shows(toks), Len(toks))
      /\ \A i \in 1..Len(toks) :
            Shows(toks)[i] = IF toks[i].tag = "code" THEN 0 ELSE Width[toks[i].tag]
  BY DEF ShownWidth, Shows
<1>2. \A i \in 1..Len(toks) : Shows(toks)[i] \in Nat
  BY <1>1, TagsWide
<1> HIDE DEF ShownWidth
<1>3. ShownWidth(toks) \in Nat
  BY <1>1, <1>2, SumType
<1> QED BY <1>1, <1>2, <1>3

LEMMA ShownRow ==
    ASSUME NEW a \in Seq(Bld!Token), NEW b \in Seq(Bld!Token)
    PROVE  ShownWidth(a \o b) = ShownWidth(a) + ShownWidth(b)
<1> DEFINE c == a \o b
           m == Len(a)
           n == Len(b)
<1>1. /\ c \in Seq(Bld!Token) /\ m \in Nat /\ n \in Nat /\ Len(c) = m + n
      /\ \A i \in 1..m : c[i] = a[i] /\ i \in 1..Len(c)
      /\ \A i \in 1..n : c[m + i] = b[i] /\ m + i \in 1..Len(c)
  OBVIOUS
<1> HIDE DEF c, m, n
<1>2. \A s \in Seq(Bld!Token) :
        /\ ShownWidth(s) = SumTo(Shows(s), Len(s))
        /\ \A i \in 1..Len(s) :
              /\ Shows(s)[i] = IF s[i].tag = "code" THEN 0 ELSE Width[s[i].tag]
              /\ Shows(s)[i] \in Nat
  BY ShowsType, Zenon
<1> DEFINE W(s) == Shows(s)
<1> HIDE DEF W
<1>3. /\ ShownWidth(c) = SumTo(W(c), m + n) /\ ShownWidth(a) = SumTo(W(a), m)
      /\ ShownWidth(b) = SumTo(W(b), n)
  BY <1>1, <1>2 DEF W, m, n
<1>4. \A i \in 1..m : W(c)[i] = W(a)[i] /\ W(a)[i] \in Nat
  <2> TAKE i \in 1..m
  <2>1. i \in 1..Len(a) /\ i \in 1..Len(c) /\ c[i] = a[i]
    BY <1>1 DEF m
  <2>2. /\ Shows(c)[i] = IF c[i].tag = "code" THEN 0 ELSE Width[c[i].tag]
        /\ Shows(a)[i] = IF a[i].tag = "code" THEN 0 ELSE Width[a[i].tag]
        /\ Shows(a)[i] \in Nat
    BY <1>1, <1>2, <2>1, Zenon
  <2> QED BY <2>1, <2>2 DEF W
<1>5. \A i \in 1..n : W(c)[m + i] = W(b)[i] /\ W(b)[i] \in Nat
  <2> TAKE i \in 1..n
  <2>1. i \in 1..Len(b) /\ m + i \in 1..Len(c) /\ c[m + i] = b[i]
    BY <1>1 DEF n
  <2> DEFINE j == m + i
  <2>2. /\ Shows(c)[j] = IF c[j].tag = "code" THEN 0 ELSE Width[c[j].tag]
        /\ Shows(b)[i] = IF b[i].tag = "code" THEN 0 ELSE Width[b[i].tag]
        /\ Shows(b)[i] \in Nat
    BY <1>1, <1>2, <2>1, Zenon
  <2> QED BY <2>1, <2>2 DEF W
<1>6. m \in Nat /\ n \in Nat
  BY <1>1
<1>7. InOrder(W(c), W(a), m, W(b), n)
  BY <1>4, <1>5, Zenon DEF InOrder
<1>8. SumTo(W(c), m + n) = SumTo(W(a), m) + SumTo(W(b), n)
  BY <1>6, <1>7, SumRow
<1> QED BY <1>3, <1>8, Zenon DEF c

\* Code apart, a text shows all of itself.
Apart == Seq(Clean({"code"}))

LEMMA ApartShown ==
    ASSUME NEW s \in Apart
    PROVE  s \in Seq(Bld!Token) /\ ShownWidth(s) = WidthOf(s)
<1> DEFINE w == [i \in DOMAIN s |-> Width[s[i].tag]]
<1>1. s \in Seq(Bld!Token) /\ Len(s) \in Nat
  BY CleanTokens DEF Apart
<1>2. \A i \in 1..Len(s) : s[i].tag # "code"
  BY CleanAt DEF Apart
<1>3. \A i \in 1..Len(s) : w[i] = Width[s[i].tag]
  BY <1>1
<1>4. WidthOf(s) = SumTo(w, Len(s))
  BY DEF WidthOf
<1> HIDE DEF w
<1>5. \A i \in 1..Len(s) : Shows(s)[i] \in Nat /\ w[i] = Shows(s)[i]
  BY <1>1, <1>2, <1>3, ShowsType
<1>6. SumTo(w, Len(s)) = SumTo(Shows(s), Len(s))
  BY <1>1, <1>5, SumSame
<1> QED BY <1>1, <1>4, <1>6, ShowsType

Plainly == {s \in Good : GeneratedStep(s).n = ShownWidth(s.toks)}

LEMMA PlainlyGood == Plainly \subseteq Good /\ Seq(Plainly) \subseteq Seq(Good)
<1>1. Plainly \subseteq Good
  BY DEF Plainly
<1>2. \A S, T : S \subseteq T => Seq(S) \subseteq Seq(T)
  OBVIOUS
<1> QED BY <1>1, <1>2, Zenon

LEMMA LiteralApart ==
    ASSUME NEW s \in Apart
    PROVE  Bld!Literal(s) \in Apart /\ Lined(s) \in Apart
<1> DEFINE S == Clean({"code"})
           l == Bld!Literal(s)
<1>1. s \in Seq(Bld!Token) /\ \A i \in 1..Len(s) : s[i].tag # "code"
  BY CleanTokens, CleanAt DEF Apart
<1>2. DOMAIN s = 1..Len(s) /\ Len(s) \in Nat
  BY <1>1
<1>3. \A i \in 1..Len(s) :
        l[i] = IF s[i].tag = "percent" THEN [s[i] EXCEPT !.tag = "percents"] ELSE s[i]
  BY <1>2, Zenon DEF Bld!Literal
<1>4. l \in [1..Len(s) -> Bld!Token]
  <2>1. \A i \in 1..Len(s) : l[i] \in Bld!Token
    <3> TAKE i \in 1..Len(s)
    <3>1. s[i] \in Bld!Token
      BY <1>1
    <3>2. [s[i] EXCEPT !.tag = "percents"] \in Bld!Token
      BY <3>1 DEF Bld!Token, Bld!Tags
    <3> QED BY <1>3, <3>1, <3>2, Zenon
  <2>2. l = [i \in 1..Len(s) |-> l[i]]
    BY <1>2, Zenon DEF Bld!Literal
  <2> HIDE DEF l
  <2> QED BY <2>1, <2>2
<1> HIDE DEF l
<1>5. \A n \in Nat : \A f \in [1..n -> Bld!Token] : f \in Seq(Bld!Token) /\ Len(f) = n
  OBVIOUS
<1>6. l \in Seq(Bld!Token) /\ Len(l) = Len(s)
  BY <1>2, <1>4, <1>5, Zenon
<1>7. \A i \in 1..Len(l) : l[i] \in S
  <2> TAKE i \in 1..Len(l)
  <2>1. i \in 1..Len(s) /\ s[i] \in Bld!Token /\ l[i] \in Bld!Token
    BY <1>1, <1>6, <1>3
  <2>2. "tag" \in DOMAIN s[i]
    BY <2>1 DEF Bld!Token
  <2>3. l[i].tag # "code"
    BY <1>1, <1>6, <1>3, <2>1, <2>2
  <2> QED BY <2>1, <2>3 DEF Clean
<1>8. l \in Seq(S)
  <2> HIDE DEF S
  <2> QED BY <1>6, <1>7
<1>9. Bld!Newline \in S
  BY NewlineType DEF Bld!Newline, Bld!Tok, Clean
<1>10. Append(l, Bld!Newline) \in Seq(S)
  <2> HIDE DEF S
  <2> QED BY <1>8, <1>9, Concats
<1> QED BY <1>8, <1>10 DEF Lined, Apart, l

LEMMA AppendApart ==
    ASSUME NEW s \in Apart
    PROVE  Bld!AppendText(s) \in Plainly /\ <<Bld!AppendText(s)>> \in Seq(Plainly)
<1>1. Bld!AppendText(s) \in Good /\ Bld!AppendText(s).toks = s /\ Bld!AppendText(s).kind = "append"
  BY ApartShown, StatementTypes DEF Bld!AppendText
<1>2. GeneratedStep(Bld!AppendText(s)).n = WidthOf(s)
  <2>1. GeneratedStep(Bld!AppendText(s)) = Statement("text", WidthOf(s))
    BY <1>1 DEF GeneratedStep
  <2> QED BY <2>1 DEF Statement
<1>3. Bld!AppendText(s) \in Plainly
  BY <1>1, <1>2, ApartShown DEF Plainly
<1> QED BY <1>3, Concats

LEMMA PlainlyMade ==
    ASSUME NEW s \in Apart
    PROVE  Bld!NonEmpty(s) \in Seq(Plainly) /\ Bld!WithNewline(s) \in Seq(Plainly)
BY LiteralApart, AppendApart, Concats DEF Bld!NonEmpty, Bld!WithNewline, Lined

LEMMA PlainlyTag ==
    ASSUME NEW t \in Bld!Token
    PROVE  /\ t.tag = "var" => <<Bld!Value(t)>> \in Seq(Plainly)
           /\ t.tag = "code" => <<Bld!Code(t)>> \in Seq(Plainly)
<1>1. <<t>> \in Seq(Bld!Token)
  BY Concats
<1>2. ASSUME t.tag = "var" PROVE Bld!Value(t) \in Plainly
  <2>1. t \in Clean({"code"})
    BY <1>2 DEF Clean
  <2>2. <<t>> \in Apart
    BY <2>1, Concats DEF Apart
  <2>3. Bld!Value(t) \in Good /\ Bld!Value(t).toks = <<t>> /\ Bld!Value(t).kind = "value"
    BY <1>2, StatementTypes DEF Bld!Value
  <2>4. GeneratedStep(Bld!Value(t)).n = WidthOf(<<t>>)
    <3>1. GeneratedStep(Bld!Value(t)) = Statement("int", WidthOf(<<t>>))
      BY <2>3 DEF GeneratedStep
    <3> QED BY <3>1 DEF Statement
  <2> QED BY <2>2, <2>3, <2>4, ApartShown DEF Plainly
<1>3. ASSUME t.tag = "code" PROVE Bld!Code(t) \in Plainly
  <2>1. Bld!Code(t) \in Good /\ Bld!Code(t).toks = <<t>> /\ Bld!Code(t).kind = "code"
    BY StatementTypes DEF Bld!Code
  <2>2. GeneratedStep(Bld!Code(t)).n = 0
    <3>1. GeneratedStep(Bld!Code(t)) = Statement("code", 0)
      BY <2>1 DEF GeneratedStep
    <3> QED BY <3>1 DEF Statement
  <2>3. ShownWidth(<<t>>) = 0
    <3> DEFINE s == <<t>>
    <3>1. s \in Seq(Bld!Token) /\ Len(s) = 1 /\ s[1].tag = "code" /\ 1 \in 1..1
      BY <1>1, <1>3
    <3> HIDE DEF s
    <3>2. Shows(s)[1] = 0 /\ ShownWidth(s) = SumTo(Shows(s), 1)
      BY <3>1, ShowsType
    <3>3. \A i \in 1..(0 + 1) : Shows(s)[i] \in Nat
      BY <3>2
    <3>4. SumTo(Shows(s), 0 + 1) = SumTo(Shows(s), 0) + Shows(s)[0 + 1]
      BY <3>3, SumNext
    <3>5. SumTo(Shows(s), 0) = 0
      BY SumFirst
    <3> QED BY <3>2, <3>4, <3>5 DEF s
  <2> QED BY <2>1, <2>2, <2>3 DEF Plainly
<1> QED BY <1>2, <1>3, Concats

\* All of a sound page is text, but for its variables and its code.
LEMMA TrimWithin ==
    ASSUME NEW S, NEW s \in Seq(S)
    PROVE  Bld!Trim(s) \in Seq(S)
<1> DEFINE I == {i \in 1..Len(s) : s[i] # Bld!Break}
           from == IF I # {} THEN Bld!Min(I) ELSE 0
           last == IF I # {} THEN Bld!Max(I) ELSE 0
<1>1. Bld!Trim(s) = IF from = 0 THEN <<>> ELSE SubSeq(s, from, last)
  BY DEF Bld!Trim, Bld!SelectInSeq, Bld!SelectLastInSeq
<1>2. Len(s) \in Nat /\ I \in SUBSET (1..Len(s))
  OBVIOUS
<1> HIDE DEF I
<1>3. from # 0 => from \in 1..Len(s) /\ last \in 1..Len(s)
  BY <1>2, Found
<1> HIDE DEF from, last
<1>4. from # 0 => from \in 1..(Len(s) + 1) /\ last \in 0..Len(s)
  BY <1>2, <1>3
<1> QED BY <1>1, <1>4, Part, Concats

LEMMA PlainApart ==
    /\ Seq(PlainTokens) \subseteq Apart /\ Seq(Seq(PlainTokens)) \subseteq Seq(Apart)
    /\ \A n \in Nat : <<Bld!Tok("text", "", n)>> \in Apart
    /\ Bld!Break \in Clean({"code"}) /\ <<>> \in Apart
<1>1. Seq(PlainTokens) \subseteq Apart
  BY PlainClean DEF Apart
<1>2. \A S, T : S \subseteq T => Seq(S) \subseteq Seq(T)
  OBVIOUS
<1>3. Seq(Seq(PlainTokens)) \subseteq Seq(Apart)
  BY <1>1, <1>2, Zenon
<1>4. ASSUME NEW n \in Nat PROVE <<Bld!Tok("text", "", n)>> \in Apart
  <2>1. Bld!Tok("text", "", n) \in Clean({"code"})
    BY DEF Bld!Tok, Bld!Token, Bld!Tags, Clean
  <2> QED BY <2>1, Concats DEF Apart
<1>5. Bld!Break \in Clean({"code"})
  BY DEF Bld!Break, Bld!Tok, Bld!Token, Bld!Tags, Clean
<1> QED BY <1>1, <1>3, <1>4, <1>5, Concats DEF Apart

LEMMA GivesApart ==
    ASSUME NEW e \in Bld!Element, Bld!Sound(e), e.tag.tag \in {"attr", "block"}
    PROVE  Gives(e) \in Apart /\ Default(e) \in Apart
<1>1. CASE e.tag.tag = "attr"
  BY <1>1, SoundParts, PlainApart DEF Gives, Default
<1>2. CASE e.tag.tag = "block"
  <2>1. e.body \in Seq(Seq(PlainTokens)) /\ Len(e.body) \in Nat \ {0}
    BY <1>2, SoundParts
  <2>2. e.body \in Seq(Apart)
    BY <2>1, PlainApart
  <2>3. Bld!Joined(e.body) \in Apart
    BY <2>2, JoinedType DEF Apart
  <2>4. Default(e) \in Apart
    <3> DEFINE S == Clean({"code"})
    <3>1. Bld!Break \in S /\ e.body \in Seq(Seq(S))
      BY <2>2, PlainApart DEF Apart
    <3> HIDE DEF S
    <3>2. Len(e.body) \in 1..Len(e.body) /\ Len(e.body) # 0
      BY <2>1
    <3>3. /\ Bld!WithBreaks(e.body) = Bld!Trim(BreaksTo(e.body, Len(e.body)))
          /\ BreaksTo(e.body, Len(e.body)) \in Seq(S)
      BY <3>1, <3>2, BreaksNext
    <3>4. Bld!WithBreaks(e.body) \in Seq(S)
      BY <3>3, TrimWithin
    <3> QED BY <1>2, <3>4 DEF Default, Apart, S
  <2> QED BY <1>2, <2>3, <2>4, LiteralApart DEF Gives
<1> QED BY <1>1, <1>2

LEMMA OverrideApart ==
    ASSUME Fixed, Bld!SoundPage, NEW n
    PROVE  Bld!Override(n) \in Apart
<1> DEFINE I == Naming(n, Len(given.elems))
<1>1. given.elems \in Seq(Bld!Element) /\ Len(given.elems) \in Nat
  BY ElemsTyped
<1>2. CASE I # {}
  <2>1. I \in SUBSET (1..Len(given.elems))
    BY DEF Naming
  <2>2. Bld!Max(I) \in I
    <3> HIDE DEF I
    <3> QED BY <1>1, <1>2, <2>1, Found
  <2> DEFINE e == given.elems[Bld!Max(I)]
  <2>3. e \in Bld!Element /\ Bld!Sound(e)
    BY <2>1, <2>2, SoundIs DEF Sounding
  <2>4. e.tag.tag \in {"attr", "block"}
    BY <2>2, Zenon DEF Naming
  <2>5. OverrideAt(n, Len(given.elems)) = Gives(e)
    BY <1>2 DEF OverrideAt
  <2> HIDE DEF e
  <2>6. OverrideAt(n, Len(given.elems)) \in Apart
    BY <2>3, <2>4, <2>5, GivesApart
  <2> QED BY <2>6, OverrideIs, PlainApart
<1>3. CASE I = {}
  BY <1>3, OverrideIs, PlainApart DEF OverrideAt
<1> QED BY <1>2, <1>3

LEMMA PlainlyFilled ==
    ASSUME Fixed, Bld!SoundPage, NEW e \in Bld!Element, Bld!Sound(e),
           e.tag.tag \in {"attr", "block"}, NEW n, mp[n] = Bld!Override(n)
    PROVE  Bld!Filled(n, Default(e)) \in Seq(Plainly)
BY OverrideApart, GivesApart, AppendApart, Concats DEF Bld!Filled

Widens(p, t, x, y) ==
    /\ Around(p, t, x) \o y = Around(p, t, x \o y)
    /\ y \o Around(p, t, x) = Around(y \o p, t, x)

LEMMA AroundRow ==
    ASSUME NEW p \in Seq(Bld!Token), NEW t \in Bld!Token, NEW x \in Seq(Bld!Token),
           NEW y \in Seq(Bld!Token)
    PROVE  Widens(p, t, x, y)
<1> DEFINE c == <<t>>
<1>1. c \in Seq(Bld!Token)
  BY Concats
<1> HIDE DEF c
<1>2. p \o c \in Seq(Bld!Token)
  BY <1>1, Concats
<1>3. ((p \o c) \o x) \o y = (p \o c) \o (x \o y)
  <2>1. Regroups(p \o c, x, y)
    BY <1>2, InRow, Zenon
  <2> QED BY <2>1, Zenon DEF Regroups
<1>4. y \o ((p \o c) \o x) = (y \o (p \o c)) \o x
  <2>1. Regroups(y, p \o c, x)
    BY <1>2, InRow, Zenon
  <2> QED BY <2>1, Zenon DEF Regroups
<1>5. (y \o p) \o c = y \o (p \o c)
  <2>1. Regroups(y, p, c)
    BY <1>1, InRow, Zenon
  <2> QED BY <2>1, Zenon DEF Regroups
<1> QED BY <1>3, <1>4, <1>5, Zenon DEF Widens, Around, c

\* A block is found when its last line is there, and not before.
LEMMA BlockGathered ==
    ASSUME NEW e \in Bld!Element, Bld!Sound(e), e.tag.tag = "block",
           NEW q \in Seq(Clean({"open", "close"})), NEW mid \in Seq(Clean({"close"})), NEW k
    PROVE  Bld!BlockIn(Around(q, Bld!OpenTag(e.tag.id), Rest(e, k, mid))) =
             IF k = Len(e.body)
             THEN {[name |-> e.tag.id, body |-> Bld!Trim(mid), behind |-> e.suf]} ELSE {}
<1>1. e.tag.id \in Names /\ e.suf \in Seq(Bld!Token)
  BY SoundParts
<1>2. /\ Bld!OpenTag(e.tag.id) \in Bld!Token /\ Bld!OpenTag(e.tag.id).tag = "open"
  BY <1>1, TagTokens
<1>3. q \in Seq(Clean({"open"})) /\ q \in Seq(Clean({"close"}))
  <2>1. Clean({"open", "close"}) \subseteq Clean({"open"}) /\ Clean({"open", "close"}) \subseteq Clean({"close"})
    BY DEF Clean
  <2> QED BY <2>1, SeqMonotonic
<1>4. CASE k = Len(e.body)
  <2>1. Rest(e, k, mid) = Around(mid, Bld!CloseTag, e.suf)
    BY <1>4 DEF Rest
  <2>2. Bld!BlockIn(Block(q, e.tag.id, mid, e.suf)) =
          {[name |-> e.tag.id, body |-> Bld!Trim(mid), behind |-> e.suf]}
    BY <1>1, <1>3, BlockFound
  <2> QED BY <1>4, <2>1, <2>2, Zenon DEF Block
<1>5. CASE k # Len(e.body)
  <2>1. Rest(e, k, mid) = mid
    BY <1>5 DEF Rest
  <2>2. Bld!OpenTag(e.tag.id) \in Clean({"close"})
    BY <1>2 DEF Clean
  <2>3. Around(q, Bld!OpenTag(e.tag.id), mid) \in Seq(Clean({"close"}))
    BY <1>3, <2>2, AroundParts
  <2> QED BY <1>5, <2>1, <2>3, BlockNone
<1> QED BY <1>4, <1>5

\* The line at hand, element by element.
LEMMA BaseIsFile ==
    ASSUME Fixed, Bld!SoundPage
    PROVE  base = Bld!File(Bld!BaseElems)
<1>1. CASE Bld!Inherits
  BY <1>1 DEF Fixed, Bld!BaseFile, Bld!BaseElems
<1>2. CASE ~Bld!Inherits
  <2>1. ~given.extends
    BY <1>2, SoundIs DEF Sounding, Bld!Inherits
  <2>2. Bld!File(given.elems) \in Seq(Seq(Bld!Token))
    BY ElemsTyped, FileType
  <2>3. <<>> \o Bld!File(given.elems) = Bld!File(given.elems)
    BY <2>2
  <2> QED BY <1>2, <2>1, <2>3 DEF Fixed, Bld!BaseFile, Bld!BaseElems, Bld!GivenFile
<1> QED BY <1>1, <1>2

LEMMA ChildIsFile ==
    ASSUME Fixed, given.extends
    PROVE  /\ Bld!File(given.elems) \in Seq(Seq(Bld!Token))
           /\ Len(child) = 1 + Len(Bld!File(given.elems))
           /\ \A i \in 1..Len(Bld!File(given.elems)) : child[i + 1] = Bld!File(given.elems)[i]
<1> DEFINE f == Bld!File(given.elems)
           h == <<Bld!Tok("extends", "", 0)>>
<1>1. f \in Seq(Seq(Bld!Token))
  BY ElemsTyped, FileType
<1>2. h \in Seq(Bld!Token)
  <2>1. Bld!Tok("extends", "", 0) \in Bld!Token
    BY DEF Bld!Tok, Bld!Token, Bld!Tags
  <2> QED BY <2>1, Concats
<1>3. child = <<h>> \o f
  BY DEF Fixed, Bld!GivenFile
<1> HIDE DEF f, h
<1>4. Len(<<h>> \o f) = 1 + Len(f) /\ \A i \in 1..Len(f) : (<<h>> \o f)[i + 1] = f[i]
  BY <1>1, <1>2
<1> QED BY <1>1, <1>3, <1>4 DEF f

LEMMA NotAll ==
    ASSUME NEW elems \in Seq(Bld!Element), NEW m \in 0..Len(elems),
           \A i \in 1..Len(elems) : Bld!Sound(elems[i])
    PROVE  /\ Reached(elems, m) \in Nat
           /\ Reached(elems, m) = Len(Bld!File(elems)) <=> m = Len(elems)
           /\ Reached(elems, m) <= Len(Bld!File(elems))
<1>1. /\ Reached(elems, 0) = 0 /\ Reached(elems, Len(elems)) = Len(Bld!File(elems))
  BY ReachedEnds
<1>2. Bld!File(elems) \in Seq(Seq(Bld!Token))
  BY FileType
<1>3. CASE m = Len(elems)
  BY <1>1, <1>2, <1>3
<1>4. CASE m # Len(elems)
  <2>1. m \in 0..(Len(elems) - 1) /\ m + 1 \in 1..Len(elems)
    BY <1>4
  <2>2. elems[m + 1] \in Bld!Element /\ Bld!Sound(elems[m + 1])
    BY <2>1
  <2>3. Len(Bld!LinesOf(elems[m + 1])) \in Nat \ {0}
    BY <2>2, SomeLines
  <2>4. /\ Reached(elems, m) \in Nat
        /\ Reached(elems, m + 1) = Reached(elems, m) + Len(Bld!LinesOf(elems[m + 1]))
        /\ Reached(elems, m + 1) <= Len(Bld!File(elems))
    BY <2>1, FileAt
  <2>5. Len(Bld!File(elems)) \in Nat
    BY <1>2
  <2> QED BY <1>4, <2>3, <2>4, <2>5
<1> QED BY <1>3, <1>4

-----------------------------------------------------------------------------
(* How far the compiler is. *)

\* Of the template: m elements, and k lines of the block behind them.
Aside == Seq(Clean({"open", "close"}))
Beside(m) == pos = 1 + Reached(given.elems, m) /\ aux \in Aside
Inside(m, k, q) ==
    /\ given.elems[m + 1].tag.tag = "block"
    /\ pos = 1 + Reached(given.elems, m) + k
    /\ aux = Around(q, Bld!OpenTag(given.elems[m + 1].tag.id), JoinedTo(given.elems[m + 1].body, k))
Collected(m) ==
    \/ Beside(m)
    \/ /\ m < Len(given.elems)
       /\ \E k \in 1..(Len(given.elems[m + 1].body) - 1), q \in Aside : Inside(m, k, q)
Gave(m) == \A n \in Names : mp[n] = OverrideAt(n, m)

\* Of the base: m elements, and k lines of the block behind them.
CompiledTo(m) == pos = Reached(Bld!BaseElems, m) /\ Toks(out) = PageTo(m)
SearchedTo(m, k) ==
    LET e == Bld!BaseElems[m + 1] IN
    /\ e.tag.tag = "block"
    /\ pos = Reached(Bld!BaseElems, m) + k
    /\ aux = Around(e.pre, Bld!OpenTag(e.tag.id), Rest(e, k, BreaksTo(e.body, k)))
    /\ Toks(out) = PageTo(m) \o Bld!Literal(e.pre)

Begun == stage \in {"open", "collect"} => out = <<>> /\ (stage = "open" => mp = [n \in Names |-> <<>>])
Collecting ==
    stage = "collect" => Bld!Inherits /\ \E m \in 0..Len(given.elems) : Gave(m) /\ Collected(m)
MapFilled == stage \in {"compile", "search", "done"} => \A n \in Names : mp[n] = Bld!Override(n)
PageBegun == stage = "compile" => \E m \in 0..Len(Bld!BaseElems) : CompiledTo(m)
Searching ==
    stage = "search" => \E m \in 0..(Len(Bld!BaseElems) - 1) :
                            \E k \in 1..Len(Bld!BaseElems[m + 1].body) : SearchedTo(m, k)
Finished == stage = "done" => Toks(out) = Bld!Page
Right ==
    Bld!SoundPage =>
        /\ out \in Seq(Plainly)
        /\ Begun /\ Collecting /\ MapFilled /\ PageBegun /\ Searching /\ Finished

LEMMA AsideClean ==
    /\ Aside \subseteq Seq(Clean({"close"})) /\ Aside \subseteq Seq(Bld!Token)
    /\ Seq(PlainTokens) \subseteq Aside /\ <<>> \in Aside
<1>1. Clean({"open", "close"}) \subseteq Clean({"close"})
  BY DEF Clean
<1>2. \A S, T : S \subseteq T => Seq(S) \subseteq Seq(T)
  OBVIOUS
<1>3. Seq(PlainTokens) \subseteq Aside
  BY PlainClean DEF Aside
<1>4. Aside \subseteq Seq(Clean({"close"}))
  BY <1>1, <1>2, Zenon DEF Aside
<1> QED BY <1>3, <1>4, CleanTokens, Concats DEF Aside

LEMMA BodyParts ==
    ASSUME NEW e \in Bld!Element, Bld!Sound(e), e.tag.tag = "block"
    PROVE  /\ JoinedTo(e.body, 1) = e.body[1]
           /\ JoinedTo(e.body, Len(e.body)) = Bld!Joined(e.body)
           /\ \A k \in 1..Len(e.body) : /\ JoinedTo(e.body, k) \in Seq(PlainTokens)
                                        /\ e.body[k] \in Seq(PlainTokens)
                                        /\ e.body[k] \in Seq(Bld!Token)
           /\ \A k \in 1..(Len(e.body) - 1) :
                JoinedTo(e.body, k + 1) = JoinedTo(e.body, k) \o e.body[k + 1]
<1> DEFINE b == e.body
           P == PlainTokens
<1>1. b \in Seq(Seq(P)) /\ Len(b) \in Nat \ {0}
  BY SoundParts
<1> HIDE DEF b, P
<1>2. /\ JoinedTo(b, 0) = <<>> /\ JoinedTo(b, Len(b)) = Bld!Joined(b)
      /\ \A m \in 0..Len(b) : JoinedTo(b, m) \in Seq(P)
      /\ \A m \in 0..(Len(b) - 1) : JoinedTo(b, m + 1) = JoinedTo(b, m) \o b[m + 1]
  BY <1>1, JoinedParts
<1>3. \A k \in 1..Len(b) : b[k] \in Seq(P)
  BY <1>1
<1>4. JoinedTo(b, 1) = b[1]
  <2>1. 0 \in 0..(Len(b) - 1) /\ 0 + 1 = 1 /\ 1 \in 1..Len(b)
    BY <1>1
  <2>2. JoinedTo(b, 0 + 1) = JoinedTo(b, 0) \o b[0 + 1]
    BY <1>2, <2>1, Zenon
  <2>3. b[1] \in Seq(P)
    BY <1>3, <2>1
  <2>4. <<>> \o b[1] = b[1]
    BY <2>3
  <2> QED BY <1>2, <2>1, <2>2, <2>4
<1>5. /\ \A k \in 1..Len(b) : k \in 0..Len(b)
      /\ \A k \in 1..(Len(b) - 1) : k \in 0..(Len(b) - 1)
  BY <1>1
<1>6. Seq(P) \subseteq Seq(Bld!Token)
  BY CleanTokens DEF P
<1> QED BY <1>2, <1>3, <1>4, <1>5, <1>6 DEF b, P

\* An element of the template that is the next.
LEMMA ChildAt ==
    ASSUME CompilerInv, Bld!SoundPage, Bld!Inherits, stage = "collect", pos < Len(child),
           NEW m \in 0..Len(given.elems), Collected(m)
    PROVE  /\ m < Len(given.elems) /\ m \in 0..(Len(given.elems) - 1) /\ m \in Nat
           /\ given.elems[m + 1] \in Bld!Element /\ Bld!Sound(given.elems[m + 1])
           /\ Reached(given.elems, m) \in Nat
           /\ Reached(given.elems, m + 1) =
                Reached(given.elems, m) + Len(Bld!LinesOf(given.elems[m + 1]))
           /\ \A k \in 1..Len(Bld!LinesOf(given.elems[m + 1])) :
                child[1 + Reached(given.elems, m) + k] = Bld!LinesOf(given.elems[m + 1])[k]
<1> DEFINE ge == given.elems
<1>1. ge \in Seq(Bld!Element) /\ Len(ge) \in Nat
  BY ElemsTyped DEF CompilerInv
<1>2. given.extends
  BY DEF Bld!Inherits
<1>3. /\ Bld!File(ge) \in Seq(Seq(Bld!Token)) /\ Len(child) = 1 + Len(Bld!File(ge))
      /\ \A i \in 1..Len(Bld!File(ge)) : child[i + 1] = Bld!File(ge)[i]
  BY <1>2, ChildIsFile DEF CompilerInv
<1>4. \A i \in 1..Len(ge) : ge[i] \in Bld!Element /\ Bld!Sound(ge[i])
  BY SoundIs DEF CompilerInv, Sounding
<1>5. Reached(ge, m) \in Nat /\ (Reached(ge, m) = Len(Bld!File(ge)) <=> m = Len(ge))
  BY <1>1, <1>4, NotAll
<1>6. m < Len(ge)
  <2>1. CASE Beside(m)
    BY <1>1, <1>3, <1>5, <2>1 DEF Beside
  <2> QED BY <2>1 DEF Collected
<1>7. m \in 0..(Len(ge) - 1) /\ m + 1 \in 1..Len(ge) /\ m \in Nat
  BY <1>1, <1>6
<1>8. /\ Len(Bld!LinesOf(ge[m + 1])) \in Nat
      /\ Reached(ge, m + 1) = Reached(ge, m) + Len(Bld!LinesOf(ge[m + 1]))
      /\ Reached(ge, m + 1) <= Len(Bld!File(ge))
      /\ \A j \in 1..Len(Bld!LinesOf(ge[m + 1])) :
           Bld!File(ge)[Reached(ge, m) + j] = Bld!LinesOf(ge[m + 1])[j]
  BY <1>1, <1>7, FileAt
<1>9. ASSUME NEW k \in 1..Len(Bld!LinesOf(ge[m + 1]))
      PROVE  child[1 + Reached(ge, m) + k] = Bld!LinesOf(ge[m + 1])[k]
  <2>1. Reached(ge, m) + k \in 1..Len(Bld!File(ge))
    <3> DEFINE r == Reached(ge, m)
               l == Len(Bld!LinesOf(ge[m + 1]))
               f == Len(Bld!File(ge))
    <3>1. r \in Nat /\ l \in Nat /\ f \in Nat /\ r + l <= f /\ k \in 1..l
      BY <1>3, <1>5, <1>8
    <3> HIDE DEF r, l, f
    <3>2. r + k \in 1..f
      BY <3>1
    <3> QED BY <3>2 DEF r, f
  <2>2. 1 + Reached(ge, m) + k = (Reached(ge, m) + k) + 1
    BY <1>5, <1>8
  <2> QED BY <1>3, <1>8, <2>1, <2>2
<1> QED BY <1>4, <1>5, <1>6, <1>7, <1>8, <1>9

\* What a line of the template leaves: an attribute, a block, or more lines.
LEMMA CollectLine ==
    ASSUME CompilerInv, Bld!Collect,
           NEW line, line = child[pos + 1], NEW a, a = Bld!First(line, {"attr"})
    PROVE  /\ a # 0 => /\ mp' = [mp EXCEPT ![line[a].id] = <<Bld!Tok("text", "", line[a].val)>>]
                       /\ aux' = <<>>
           /\ a = 0 /\ Bld!BlockIn(aux \o line) = {} => mp' = mp /\ aux' = aux \o line
           /\ a = 0 => \A b : Bld!BlockIn(aux \o line) = {b} =>
                         mp' = [mp EXCEPT ![b.name] = Bld!Literal(b.body)] /\ aux' = <<>>
<1> DEFINE g == aux \o line
<1>1. CASE a # 0
  BY <1>1 DEF Bld!Collect
<1>2. CASE a = 0
  <2>1. /\ \/ Bld!BlockIn(g) = {} /\ UNCHANGED mp
           \/ \E b \in Bld!BlockIn(g) : mp' = [mp EXCEPT ![b.name] = Bld!Literal(b.body)]
        /\ aux' = Bld!GatheredAfter(g)
    BY <1>2 DEF Bld!Collect
  <2> HIDE DEF g
  <2>2. Bld!BlockIn(g) = {} => mp' = mp /\ aux' = g
    BY <2>1 DEF Bld!GatheredAfter
  <2>3. ASSUME NEW b, Bld!BlockIn(g) = {b}
        PROVE  mp' = [mp EXCEPT ![b.name] = Bld!Literal(b.body)] /\ aux' = <<>>
    BY <2>1, <2>3 DEF Bld!GatheredAfter
  <2> QED BY <1>2, <2>2, <2>3 DEF g
<1> QED BY <1>1, <1>2

LEMMA MapSet ==
    ASSUME Fixed, mp \in [Names -> Seq(Bld!Token)], NEW m \in Nat, Gave(m), NEW v, NEW id \in Names,
           mp' = [mp EXCEPT ![id] = v],
           given.elems[m + 1].tag.tag \in {"block", "attr"}, given.elems[m + 1].tag.id = id,
           Gives(given.elems[m + 1]) = v, UNCHANGED <<given, inc>>
    PROVE  Gave(m + 1)'
<1>1. \A n \in Names : mp'[n] = IF n = id THEN v ELSE mp[n]
  OBVIOUS
<1>2. \A n \in Names : OverrideAt(n, m + 1) = IF n = id THEN v ELSE OverrideAt(n, m)
  BY OverrideNext
<1>3. \A n : OverrideAt(n, m + 1)' = OverrideAt(n, m + 1)
  BY PageKept, Zenon
<1>4. \A n \in Names : mp'[n] = OverrideAt(n, m + 1)
  BY <1>1, <1>2 DEF Gave
<1> QED BY <1>3, <1>4 DEF Gave

LEMMA MapSame ==
    ASSUME NEW m \in Nat, Gave(m), UNCHANGED <<given, inc, mp>>
    PROVE  /\ given.elems[m + 1].tag.tag \notin {"block", "attr"} => Gave(m + 1)'
           /\ Gave(m)'
<1>1. \A n, k : OverrideAt(n, k)' = OverrideAt(n, k)
  BY PageKept, Zenon
<1>2. given.elems[m + 1].tag.tag \notin {"block", "attr"}
        => \A n : OverrideAt(n, m + 1) = OverrideAt(n, m)
  BY OverrideNext
<1> QED BY <1>1, <1>2 DEF Gave

\* One line more of a block of the template.
LEMMA CollectInside ==
    ASSUME CompilerInv, Bld!SoundPage, Bld!Inherits, stage = "collect", Bld!Collect,
           NEW m \in 0..(Len(given.elems) - 1), Gave(m),
           given.elems[m + 1].tag.tag = "block",
           NEW q \in Aside, NEW k \in 1..Len(given.elems[m + 1].body),
           pos' = 1 + Reached(given.elems, m) + k,
           Bld!First(child[pos + 1], {"attr"}) = 0,
           aux \o child[pos + 1] =
             Around(q, Bld!OpenTag(given.elems[m + 1].tag.id),
                    Rest(given.elems[m + 1], k, JoinedTo(given.elems[m + 1].body, k)))
    PROVE  \E n \in 0..Len(given.elems) : Gave(n)' /\ Collected(n)'
<1> DEFINE e == given.elems[m + 1]
           mid == JoinedTo(e.body, k)
           line == child[pos + 1]
<1>1. UNCHANGED <<given, inc, child, base, stage, out>>
  BY DEF Bld!Collect
<1>2. Fixed /\ mp \in [Names -> Seq(Bld!Token)] /\ given.elems \in Seq(Bld!Element) /\ Len(given.elems) \in Nat
  BY ElemsTyped DEF CompilerInv, Filling
<1>3. m + 1 \in 1..Len(given.elems) /\ m \in Nat /\ m \in 0..Len(given.elems) /\ m + 1 \in 0..Len(given.elems)
      /\ m < Len(given.elems)
  BY <1>2
<1>4. e \in Bld!Element /\ Bld!Sound(e)
  BY <1>2, <1>3, SoundIs DEF Sounding
<1>5. /\ mid \in Seq(PlainTokens) /\ Len(e.body) \in Nat \ {0}
      /\ JoinedTo(e.body, Len(e.body)) = Bld!Joined(e.body)
  BY <1>4, BodyParts, SoundParts
<1>6. mid \in Seq(Clean({"close"})) /\ mid \in Seq(Clean({"break"}))
  BY <1>5, PlainClean
<1>7. Bld!BlockIn(aux \o line) = IF k = Len(e.body)
        THEN {[name |-> e.tag.id, body |-> Bld!Trim(mid), behind |-> e.suf]} ELSE {}
  <2> HIDE DEF mid, e
  <2>1. Bld!BlockIn(Around(q, Bld!OpenTag(e.tag.id), Rest(e, k, mid))) = IF k = Len(e.body)
        THEN {[name |-> e.tag.id, body |-> Bld!Trim(mid), behind |-> e.suf]} ELSE {}
    BY <1>4, <1>6, BlockGathered DEF Aside, e
  <2> QED BY <2>1, Zenon DEF e, mid
<1>8. CASE k = Len(e.body)
  <2> DEFINE b == [name |-> e.tag.id, body |-> Bld!Trim(mid), behind |-> e.suf]
  <2>1. Bld!BlockIn(aux \o line) = {b}
    BY <1>7, <1>8, Zenon
  <2>2. mp' = [mp EXCEPT ![b.name] = Bld!Literal(b.body)] /\ aux' = <<>>
    <3> HIDE DEF b, line
    <3> QED BY <2>1, CollectLine DEF line
  <2>3. b.name = e.tag.id /\ b.body = mid
    <3>1. Bld!Trim(mid) = mid
      <4> HIDE DEF mid
      <4> QED BY <1>6, TrimSame
    <3> QED BY <3>1
  <2>4. Gives(e) = Bld!Literal(mid)
    BY <1>5, <1>8 DEF Gives
  <2>5. e.tag.id \in Names
    BY <1>4, SoundParts
  <2>6. mp' = [mp EXCEPT ![e.tag.id] = Bld!Literal(mid)]
    BY <2>2, <2>3
  <2>7. Gave(m + 1)'
    <3> HIDE DEF mid
    <3> QED BY <1>1, <1>2, <1>3, <2>4, <2>5, <2>6, MapSet
  <2>8. Beside(m + 1)'
    <3>1. Len(Bld!LinesOf(e)) = Len(e.body)
      BY <1>4, LineBlock
    <3>2. Reached(given.elems, m + 1) = Reached(given.elems, m) + Len(Bld!LinesOf(e))
          /\ Reached(given.elems, m) \in Nat
      BY <1>2, FileAt
    <3>3. pos' = 1 + Reached(given.elems, m + 1)
      <4> DEFINE r == Reached(given.elems, m)
      <4>1. Reached(given.elems, m + 1) = r + k /\ r \in Nat /\ k \in Nat /\ pos' = 1 + r + k
        BY <1>5, <1>8, <3>1, <3>2
      <4> HIDE DEF r, e
      <4>2. 1 + r + k = 1 + (r + k)
        BY <4>1
      <4> QED BY <4>1, <4>2
    <3> QED BY <1>1, <2>2, <3>3, AsideClean DEF Beside, Reached
  <2> QED BY <1>3, <2>7, <2>8 DEF Collected
<1>9. CASE k # Len(e.body)
  <2>1. Bld!BlockIn(aux \o line) = {}
    BY <1>7, <1>9, Zenon
  <2>2. mp' = mp /\ aux' = aux \o line
    <3> HIDE DEF line
    <3> QED BY <2>1, CollectLine DEF line
  <2>3. Rest(e, k, mid) = mid
    BY <1>9 DEF Rest
  <2>4. aux' = Around(q, Bld!OpenTag(e.tag.id), mid)
    BY <2>2, <2>3
  <2>5. Gave(m)'
    BY <1>1, <1>3, <2>2, MapSame
  <2>6. k \in 1..(Len(e.body) - 1)
    BY <1>5, <1>9
  <2>7. Inside(m, k, q)'
    BY <1>1, <2>4 DEF Inside, Reached, JoinedTo
  <2>8. Collected(m)'
    BY <1>1, <1>3, <2>6, <2>7 DEF Collected
  <2> QED BY <1>3, <2>5, <2>8
<1> QED BY <1>8, <1>9

\* A line of the template that is an element of its own.
LEMMA CollectSingle ==
    ASSUME CompilerInv, Bld!SoundPage, Bld!Inherits, stage = "collect", Bld!Collect,
           NEW m \in 0..Len(given.elems), Gave(m), Beside(m), pos < Len(child),
           given.elems[m + 1].tag.tag # "block"
    PROVE  \E n \in 0..Len(given.elems) : Gave(n)' /\ Collected(n)'
<1> DEFINE e == given.elems[m + 1]
           line == child[pos + 1]
           a == Bld!First(line, {"attr"})
<1>1. UNCHANGED <<given, inc, child, base, stage, out>> /\ pos' = pos + 1
  BY DEF Bld!Collect
<1>2. /\ m < Len(given.elems) /\ m \in 0..(Len(given.elems) - 1) /\ m \in Nat
      /\ e \in Bld!Element /\ Bld!Sound(e)
      /\ Reached(given.elems, m) \in Nat
      /\ Reached(given.elems, m + 1) = Reached(given.elems, m) + Len(Bld!LinesOf(e))
      /\ \A k \in 1..Len(Bld!LinesOf(e)) :
           child[1 + Reached(given.elems, m) + k] = Bld!LinesOf(e)[k]
  <2>1. Collected(m)
    BY DEF Collected
  <2> QED BY <2>1, ChildAt
<1>3. Len(Bld!LinesOf(e)) = 1 /\ Bld!LinesOf(e)[1] = Around(e.pre, e.tag, e.suf)
  BY <1>2, LineOne
<1>4. line = Around(e.pre, e.tag, e.suf)
  <2>1. pos + 1 = 1 + Reached(given.elems, m) + 1 /\ 1 \in 1..1
    BY <1>2 DEF Beside
  <2> QED BY <1>2, <1>3, <2>1
<1>5. pos' = 1 + Reached(given.elems, m + 1) /\ pos' = 1 + Reached(given.elems, m + 1)'
  <2>1. Reached(given.elems, m + 1)' = Reached(given.elems, m + 1)
    BY <1>1 DEF Reached, JoinedTo
  <2> DEFINE r == Reached(given.elems, m)
  <2>2. Reached(given.elems, m + 1) = r + 1 /\ pos = 1 + r /\ r \in Nat
    BY <1>2, <1>3 DEF Beside
  <2> HIDE DEF r
  <2>3. pos + 1 = 1 + (r + 1)
    BY <2>2
  <2> QED BY <1>1, <2>1, <2>2, <2>3
<1>6. /\ e.pre \in Seq(PlainTokens) /\ e.suf \in Seq(PlainTokens) /\ e.tag \in Bld!Token
      /\ e.tag.tag \in {"text", "percent", "var", "code", "comment", "attr"}
      /\ e.tag.tag = "attr" => e.tag.id \in Names
  BY <1>2, SoundParts
<1>7. a = IF e.tag.tag = "attr" THEN Len(e.pre) + 1 ELSE 0
  <2>1. e.pre \in Seq(Clean({"attr"})) /\ e.suf \in Seq(Clean({"attr"}))
    BY <1>6, PlainClean
  <2>2. Bld!First(Around(e.pre, e.tag, e.suf), {"attr"}) = IF e.tag.tag = "attr" THEN Len(e.pre) + 1 ELSE 0
    <3> HIDE DEF e
    <3>1. Bld!First(Around(e.pre, e.tag, e.suf), {"attr"}) = IF e.tag.tag \in {"attr"} THEN Len(e.pre) + 1 ELSE 0
      BY <1>6, <2>1, AroundFirst
    <3> QED BY <3>1
  <2> QED BY <1>4, <2>2
<1>8. /\ Fixed /\ mp \in [Names -> Seq(Bld!Token)]
      /\ Len(given.elems) \in Nat /\ m + 1 \in 0..Len(given.elems)
  <2>1. Fixed /\ mp \in [Names -> Seq(Bld!Token)]
    BY DEF CompilerInv, Filling
  <2>2. given.elems \in Seq(Bld!Element)
    BY <2>1, ElemsTyped
  <2> QED BY <1>2, <2>1, <2>2
<1>9. CASE e.tag.tag = "attr"
  <2>1. a # 0 /\ line[a] = e.tag
    <3>1. e.pre \in Seq(Bld!Token) /\ e.suf \in Seq(Bld!Token)
      BY <1>6, CleanTokens
    <3> HIDE DEF e, a, line
    <3>2. Around(e.pre, e.tag, e.suf)[Len(e.pre) + 1] = e.tag
      BY <1>6, <3>1, AroundParts
    <3>3. Len(e.pre) \in Nat
      BY <3>1
    <3> QED BY <1>4, <1>7, <1>9, <3>2, <3>3
  <2>2. mp' = [mp EXCEPT ![line[a].id] = <<Bld!Tok("text", "", line[a].val)>>] /\ aux' = <<>>
    <3>1. a # 0
      BY <2>1
    <3> HIDE DEF e
    <3> QED BY <3>1 DEF Bld!Collect
  <2>3. mp' = [mp EXCEPT ![e.tag.id] = <<Bld!Tok("text", "", e.tag.val)>>]
    BY <2>1, <2>2
  <2>4. Gives(e) = <<Bld!Tok("text", "", e.tag.val)>>
    BY <1>9 DEF Gives
  <2>5. Gave(m + 1)'
    BY <1>1, <1>2, <1>6, <1>8, <1>9, <2>3, <2>4, MapSet
  <2>6. Beside(m + 1)'
    BY <1>5, <2>2, AsideClean DEF Beside
  <2> QED BY <1>8, <2>5, <2>6 DEF Collected
<1>10. CASE e.tag.tag # "attr"
  <2>1. aux \o line \in Aside
    <3>1. /\ e.pre \in Seq(Clean({"open", "close"})) /\ e.suf \in Seq(Clean({"open", "close"}))
          /\ e.tag \in Clean({"open", "close"})
      <4> DEFINE tags == {"open", "close"}
      <4>1. "text" \notin tags /\ "percent" \notin tags /\ e.tag.tag \notin tags
        BY <1>6, <1>10
      <4> HIDE DEF tags, e
      <4>2. Seq(PlainTokens) \subseteq Seq(Clean(tags))
        BY <4>1, PlainClean
      <4>3. e.tag \in Clean(tags)
        BY <1>6, <4>1 DEF Clean
      <4> QED BY <1>6, <4>2, <4>3, Zenon DEF tags
    <3>2. line \in Seq(Clean({"open", "close"}))
      <4> HIDE DEF e, line
      <4> QED BY <1>4, <3>1, AroundParts
    <3>3. aux \in Seq(Clean({"open", "close"}))
      BY DEF Beside, Aside
    <3> HIDE DEF line
    <3>4. \A S : \A x, y \in Seq(S) : x \o y \in Seq(S)
      OBVIOUS
    <3> QED BY <3>2, <3>3, <3>4, Zenon DEF Aside
  <2>2. Bld!BlockIn(aux \o line) = {}
    <3> HIDE DEF line
    <3> QED BY <2>1, AsideClean, BlockNone
  <2>3. mp' = mp /\ aux' = aux \o line
    <3>1. a = 0
      BY <1>7, <1>10
    <3>2. line = child[pos + 1] /\ a = Bld!First(line, {"attr"})
      OBVIOUS
    <3> HIDE DEF line, a
    <3> QED BY <2>2, <3>1, <3>2, CollectLine
  <2>4. Gave(m + 1)'
    <3>1. e.tag.tag \notin {"block", "attr"}
      BY <1>10
    <3> QED BY <1>1, <1>2, <2>3, <3>1, MapSame
  <2>5. aux' \in Aside
    BY <2>1, <2>3
  <2>6. Beside(m + 1)'
    <3>1. (aux \in Aside)'
      BY <2>5 DEF Aside, Clean
    <3> QED BY <1>5, <3>1 DEF Beside
  <2> QED BY <1>8, <2>4, <2>6 DEF Collected
<1> QED BY <1>9, <1>10

\* A line of the template that opens a block.
LEMMA CollectOpening ==
    ASSUME CompilerInv, Bld!SoundPage, Bld!Inherits, stage = "collect", Bld!Collect,
           NEW m \in 0..Len(given.elems), Gave(m), Beside(m), pos < Len(child),
           given.elems[m + 1].tag.tag = "block"
    PROVE  \E n \in 0..Len(given.elems) : Gave(n)' /\ Collected(n)'
<1> DEFINE e == given.elems[m + 1]
           line == child[pos + 1]
           tag == Bld!OpenTag(e.tag.id)
<1>1. pos' = pos + 1
  BY DEF Bld!Collect
<1>2. /\ m \in 0..(Len(given.elems) - 1)
      /\ e \in Bld!Element /\ Bld!Sound(e)
      /\ Reached(given.elems, m) \in Nat
      /\ \A k \in 1..Len(Bld!LinesOf(e)) :
           child[1 + Reached(given.elems, m) + k] = Bld!LinesOf(e)[k]
  <2>1. Collected(m)
    BY DEF Collected
  <2> QED BY <2>1, ChildAt
<1>3. /\ Len(Bld!LinesOf(e)) = Len(e.body) /\ Len(e.body) \in Nat \ {0}
      /\ Bld!LinesOf(e)[1] = Around(e.pre, tag, Rest(e, 1, e.body[1]))
  BY <1>2, LineBlock, SoundParts
<1>4. 1 \in 1..Len(e.body) /\ JoinedTo(e.body, 1) = e.body[1] /\ e.body[1] \in Seq(PlainTokens)
      /\ e.body[1] \in Seq(Bld!Token)
  <2>1. 1 \in 1..Len(e.body)
    BY <1>3
  <2> QED BY <1>2, <2>1, BodyParts
<1>5. line = Around(e.pre, tag, Rest(e, 1, e.body[1]))
  <2>1. pos + 1 = 1 + Reached(given.elems, m) + 1
    BY <1>2 DEF Beside
  <2> QED BY <1>2, <1>3, <1>4, <2>1
<1>6. pos' = 1 + Reached(given.elems, m) + 1
  BY <1>1, <1>2 DEF Beside
<1>7. /\ e.pre \in Seq(PlainTokens) /\ e.suf \in Seq(PlainTokens) /\ e.tag.id \in Names
      /\ tag \in Bld!Token /\ tag.tag = "open" /\ Bld!CloseTag \in Bld!Token /\ Bld!CloseTag.tag = "close"
  BY <1>2, <1>3, SoundParts, TagTokens
<1>8. Bld!First(line, {"attr"}) = 0
  <2> DEFINE tags == {"attr"}
  <2>1. "text" \notin tags /\ "percent" \notin tags /\ "open" \notin tags /\ "close" \notin tags
    OBVIOUS
  <2> HIDE DEF tags
  <2>2. Seq(PlainTokens) \subseteq Seq(Clean(tags)) /\ Bld!CloseTag \in Clean(tags)
    BY <1>7, <2>1, PlainClean DEF Clean
  <2> HIDE DEF e, tag, line
  <2>3. Rest(e, 1, e.body[1]) \in Seq(Clean(tags))
    <3>1. Around(e.body[1], Bld!CloseTag, e.suf) \in Seq(Clean(tags))
      BY <1>4, <1>7, <2>2, AroundParts
    <3> QED BY <1>4, <2>2, <3>1 DEF Rest
  <2>4. Bld!First(line, tags) = IF tag.tag \in tags THEN Len(e.pre) + 1 ELSE 0
    BY <1>5, <1>7, <2>2, <2>3, AroundFirst
  <2> QED BY <1>7, <2>1, <2>4 DEF tags
<1>9. /\ aux \o e.pre \in Aside
      /\ aux \o line = Around(aux \o e.pre, tag, Rest(e, 1, JoinedTo(e.body, 1)))
  <2>1. aux \in Aside /\ e.pre \in Aside
    BY <1>7, AsideClean DEF Beside
  <2>2. aux \in Seq(Bld!Token) /\ e.pre \in Seq(Bld!Token)
    BY <2>1, AsideClean
  <2>3. Rest(e, 1, e.body[1]) \in Seq(Bld!Token)
    BY <1>2, <1>4, RestType
  <2> HIDE DEF e, tag, line
  <2>4. aux \o Around(e.pre, tag, Rest(e, 1, e.body[1])) = Around(aux \o e.pre, tag, Rest(e, 1, e.body[1]))
    <3> DEFINE r == Rest(e, 1, e.body[1])
               p == e.pre
    <3>1. r \in Seq(Bld!Token) /\ p \in Seq(Bld!Token) /\ tag \in Bld!Token
      BY <1>7, <2>2, <2>3
    <3> HIDE DEF r, p
    <3>2. Widens(p, tag, r, aux)
      BY <2>2, <3>1, AroundRow, Zenon
    <3> QED BY <3>2 DEF r, p, Widens
  <2>5. aux \o e.pre \in Aside
    <3> DEFINE C == Clean({"open", "close"})
    <3>1. aux \in Seq(C) /\ e.pre \in Seq(C)
      BY <2>1, Zenon DEF Aside
    <3> HIDE DEF C
    <3>2. aux \o e.pre \in Seq(C)
      BY <3>1, Concats
    <3> QED BY <3>2, Zenon DEF Aside, C
  <2> QED BY <1>4, <1>5, <2>4, <2>5
<1> QED BY <1>2, <1>4, <1>6, <1>8, <1>9, CollectInside

\* One that goes on with it.
LEMMA CollectMore ==
    ASSUME CompilerInv, Bld!SoundPage, Bld!Inherits, stage = "collect", Bld!Collect,
           NEW m \in 0..Len(given.elems), Gave(m), pos < Len(child), m < Len(given.elems),
           NEW k \in 1..(Len(given.elems[m + 1].body) - 1), NEW q \in Aside, Inside(m, k, q)
    PROVE  \E n \in 0..Len(given.elems) : Gave(n)' /\ Collected(n)'
<1> DEFINE e == given.elems[m + 1]
           line == child[pos + 1]
           tag == Bld!OpenTag(e.tag.id)
           mid == JoinedTo(e.body, k)
<1>1. pos' = pos + 1
  BY DEF Bld!Collect
<1>2. /\ m \in 0..(Len(given.elems) - 1)
      /\ e \in Bld!Element /\ Bld!Sound(e)
      /\ Reached(given.elems, m) \in Nat
      /\ \A j \in 1..Len(Bld!LinesOf(e)) :
           child[1 + Reached(given.elems, m) + j] = Bld!LinesOf(e)[j]
  <2>1. Collected(m)
    BY DEF Collected
  <2> QED BY <2>1, ChildAt
<1>3. e.tag.tag = "block" /\ pos = 1 + Reached(given.elems, m) + k /\ aux = Around(q, tag, mid)
  BY DEF Inside
<1>4. /\ Len(Bld!LinesOf(e)) = Len(e.body) /\ Len(e.body) \in Nat \ {0}
      /\ \A j \in 1..Len(e.body) : j # 1 => Bld!LinesOf(e)[j] = Rest(e, j, e.body[j])
  BY <1>2, <1>3, LineBlock, SoundParts
<1>5. k \in Nat /\ k + 1 \in 1..Len(e.body) /\ k + 1 # 1 /\ k \in 1..Len(e.body)
  BY <1>4
<1>6. /\ JoinedTo(e.body, k + 1) = mid \o e.body[k + 1]
      /\ mid \in Seq(PlainTokens) /\ e.body[k + 1] \in Seq(PlainTokens)
      /\ e.body[k + 1] \in Seq(Bld!Token) /\ mid \in Seq(Bld!Token)
  BY <1>2, <1>3, <1>5, BodyParts, CleanTokens
<1>7. line = Rest(e, k + 1, e.body[k + 1])
  <2>1. pos + 1 = 1 + Reached(given.elems, m) + (k + 1)
    BY <1>2, <1>3, <1>5
  <2> QED BY <1>2, <1>4, <1>5, <2>1
<1>8. pos' = 1 + Reached(given.elems, m) + (k + 1)
  BY <1>1, <1>2, <1>3, <1>5
<1>9. /\ e.suf \in Seq(PlainTokens) /\ e.tag.id \in Names
      /\ tag \in Bld!Token /\ Bld!CloseTag \in Bld!Token /\ Bld!CloseTag.tag = "close"
  BY <1>2, <1>3, SoundParts, TagTokens
<1>10. Bld!First(line, {"attr"}) = 0
  <2> DEFINE tags == {"attr"}
  <2>1. "text" \notin tags /\ "percent" \notin tags /\ "close" \notin tags
    OBVIOUS
  <2> HIDE DEF tags
  <2>2. Seq(PlainTokens) \subseteq Seq(Clean(tags)) /\ Bld!CloseTag \in Clean(tags)
    BY <1>9, <2>1, PlainClean DEF Clean
  <2> HIDE DEF e, tag, line
  <2>3. Rest(e, k + 1, e.body[k + 1]) \in Seq(Clean(tags))
    <3>1. Around(e.body[k + 1], Bld!CloseTag, e.suf) \in Seq(Clean(tags))
      BY <1>6, <1>9, <2>2, AroundParts
    <3> QED BY <1>6, <2>2, <3>1 DEF Rest
  <2>4. Bld!First(line, tags) = 0
    BY <1>7, <2>3, FirstNone
  <2> QED BY <2>4 DEF tags
<1>11. aux \o line = Around(q, tag, Rest(e, k + 1, JoinedTo(e.body, k + 1)))
  <2>1. q \in Seq(Bld!Token)
    BY AsideClean
  <2>2. Rest(e, k + 1, e.body[k + 1]) \in Seq(Bld!Token)
    BY <1>2, <1>6, RestType
  <2> DEFINE b == e.body[k + 1]
  <2> HIDE DEF e, tag, line, mid, b
  <2>3. Around(q, tag, mid) \o Rest(e, k + 1, b) = Around(q, tag, mid \o Rest(e, k + 1, b))
    <3> DEFINE r == Rest(e, k + 1, b)
    <3>1. r \in Seq(Bld!Token)
      BY <2>2 DEF b
    <3> HIDE DEF r
    <3>2. Widens(q, tag, mid, r)
      BY <1>6, <1>9, <2>1, <3>1, AroundRow, Zenon
    <3> QED BY <3>2 DEF r, Widens
  <2>4. mid \o Rest(e, k + 1, b) = Rest(e, k + 1, mid \o b)
    <3>1. b \in Seq(Bld!Token)
      BY <1>6 DEF b
    <3>2. RestGrows(e, k + 1, mid, b)
      BY <1>2, <1>6, <3>1, RestRow, Zenon
    <3> QED BY <3>2, Zenon DEF RestGrows
  <2> QED BY <1>3, <1>6, <1>7, <2>3, <2>4 DEF b
<1> QED BY <1>2, <1>3, <1>5, <1>8, <1>10, <1>11, CollectInside

LEMMA RightCollect ==
    ASSUME CompilerInv, Bld!SoundPage, Right, Bld!Collect
    PROVE  Right'
<1>1. /\ stage = "collect" /\ pos < Len(child)
      /\ UNCHANGED <<given, inc, child, base, stage, out>>
  BY DEF Bld!Collect
<1>2. /\ Bld!Inherits /\ out = <<>>
      /\ \E m \in 0..Len(given.elems) : Gave(m) /\ Collected(m)
  BY <1>1 DEF Right, Begun, Collecting
<1>3. PICK m \in 0..Len(given.elems) : Gave(m) /\ Collected(m)
  BY <1>2
<1>4. \E n \in 0..Len(given.elems) : Gave(n)' /\ Collected(n)'
  <2>1. CASE Beside(m) /\ given.elems[m + 1].tag.tag # "block"
    BY <1>1, <1>2, <1>3, <2>1, CollectSingle
  <2>2. CASE Beside(m) /\ given.elems[m + 1].tag.tag = "block"
    BY <1>1, <1>2, <1>3, <2>2, CollectOpening
  <2>3. CASE ~Beside(m)
    <3>1. PICK k \in 1..(Len(given.elems[m + 1].body) - 1), q \in Aside : Inside(m, k, q)
      BY <1>3, <2>3 DEF Collected
    <3>2. m < Len(given.elems)
      BY <1>3, <2>3 DEF Collected
    <3> QED BY <1>1, <1>2, <1>3, <3>1, <3>2, CollectMore
  <2> QED BY <2>1, <2>2, <2>3
<1>5. Bld!Inherits'
  BY <1>1, <1>2, PageKept
<1> QED BY <1>1, <1>2, <1>4, <1>5
        DEF Right, Begun, Collecting, MapFilled, PageBegun, Searching, Finished

LEMMA PageStarts ==
    ASSUME Fixed, Bld!SoundPage
    PROVE  Toks(<<>>) = PageTo(0) /\ Reached(Bld!BaseElems, 0) = 0 /\ 0 \in 0..Len(Bld!BaseElems)
<1>1. Bld!BaseElems \in Seq(Bld!Element)
  BY ElemsTyped
<1>2. Len(Bld!BaseElems) \in Nat
  BY <1>1
<1> QED BY <1>1, <1>2, ToksEmpty, PageNext, ReachedEnds

LEMMA RightOpen ==
    ASSUME CompilerInv, Bld!SoundPage, Right, Bld!Open
    PROVE  Right'
<1>1. /\ stage = "open" /\ UNCHANGED <<given, inc, child, base, aux, mp, out>>
      /\ IF Bld!Inherits THEN stage' = "collect" /\ pos' = 1 ELSE stage' = "compile" /\ pos' = 0
  BY DEF Bld!Open
<1>2. Fixed /\ aux = <<>>
  BY <1>1 DEF CompilerInv, Gathering
<1>3. out = <<>> /\ \A n \in Names : mp[n] = <<>>
  BY <1>1 DEF Right, Begun
<1>4. CASE Bld!Inherits
  <2>1. Gave(0)'
    <3>1. \A n : OverrideAt(n, 0)' = <<>>
      BY <1>1, <1>2, OverrideIs, PageKept
    <3> QED BY <1>1, <1>3, <3>1 DEF Gave
  <2>2. Beside(0)'
    <3>1. Reached(given.elems, 0) = 0
      BY <1>2, ElemsTyped, ReachedEnds
    <3>2. Reached(given.elems, 0)' = Reached(given.elems, 0)
      BY <1>1 DEF Reached, JoinedTo
    <3>3. aux' \in Aside
      BY <1>1, <1>2, AsideClean
    <3>4. (aux \in Aside)'
      BY <3>3 DEF Aside, Clean
    <3> QED BY <1>1, <1>4, <3>1, <3>2, <3>4 DEF Beside
  <2>3. 0 \in 0..Len(given.elems')
    <3>1. given.elems \in Seq(Bld!Element)
      BY <1>2, ElemsTyped
    <3>2. Len(given.elems) \in Nat
      BY <3>1
    <3> QED BY <1>1, <3>2
  <2>4. Bld!Inherits'
    BY <1>1, <1>4, PageKept
  <2> QED BY <1>1, <1>3, <1>4, <2>1, <2>2, <2>3, <2>4
          DEF Right, Begun, Collecting, Collected, MapFilled, PageBegun, Searching, Finished
<1>5. CASE ~Bld!Inherits
  <2>1. \A n \in Names : mp'[n] = Bld!Override(n)'
    BY <1>1, <1>2, <1>3, <1>5, OverrideIs, PageKept
  <2>2. CompiledTo(0)'
    <3>1. Reached(Bld!BaseElems, 0)' = 0
      BY <1>1, <1>2, PageStarts, PageKept DEF Reached, JoinedTo
    <3>2. Toks(out') = PageTo(0)'
      BY <1>1, <1>2, <1>3, PageStarts, PageKept
    <3> QED BY <1>1, <1>5, <3>1, <3>2 DEF CompiledTo, Toks, TextsIn
  <2>3. 0 \in 0..Len(Bld!BaseElems)'
    BY <1>1, <1>2, PageStarts, PageKept
  <2> QED BY <1>1, <1>5, <2>1, <2>2, <2>3
          DEF Right, Begun, Collecting, MapFilled, PageBegun, Searching, Finished
<1> QED BY <1>4, <1>5

LEMMA RightCollectEnds ==
    ASSUME CompilerInv, Bld!SoundPage, Right, Bld!CollectEnds
    PROVE  Right'
<1>1. /\ stage = "collect" /\ pos = Len(child) /\ stage' = "compile" /\ pos' = 0 /\ aux' = <<>>
      /\ UNCHANGED <<given, inc, child, base, mp, out>>
  BY DEF Bld!CollectEnds
<1>2. Fixed /\ given.elems \in Seq(Bld!Element) /\ Len(given.elems) \in Nat
  BY ElemsTyped DEF CompilerInv
<1>3. Bld!Inherits /\ out = <<>>
  BY <1>1 DEF Right, Begun, Collecting
<1>4. PICK m \in 0..Len(given.elems) : Gave(m) /\ Collected(m)
  BY <1>1 DEF Right, Collecting
<1>5. /\ Bld!File(given.elems) \in Seq(Seq(Bld!Token))
      /\ Len(child) = 1 + Len(Bld!File(given.elems))
  BY <1>2, <1>3, ChildIsFile DEF Bld!Inherits
<1>6. \A i \in 1..Len(given.elems) : given.elems[i] \in Bld!Element /\ Bld!Sound(given.elems[i])
  BY <1>2, SoundIs DEF Sounding
<1>7. m = Len(given.elems)
  <2>1. CASE Beside(m)
    <3>1. Reached(given.elems, m) \in Nat /\ pos = 1 + Reached(given.elems, m)
          /\ (Reached(given.elems, m) = Len(Bld!File(given.elems)) <=> m = Len(given.elems))
      BY <1>2, <1>6, <2>1, NotAll DEF Beside
    <3>2. Reached(given.elems, m) = Len(Bld!File(given.elems))
      <4> DEFINE r == Reached(given.elems, m)
                 f == Len(Bld!File(given.elems))
      <4>1. r \in Nat /\ f \in Nat /\ 1 + r = 1 + f
        BY <1>1, <1>5, <3>1
      <4> HIDE DEF r, f
      <4>2. r = f
        BY <4>1
      <4> QED BY <4>2 DEF r, f
    <3> QED BY <3>1, <3>2
  <2>2. CASE ~Beside(m)
    <3> DEFINE e == given.elems[m + 1]
    <3>1. PICK k \in 1..(Len(e.body) - 1), q \in Aside : Inside(m, k, q)
      BY <1>4, <2>2 DEF Collected
    <3>2. m \in 0..(Len(given.elems) - 1) /\ m + 1 \in 1..Len(given.elems)
      BY <1>2, <1>4, <2>2 DEF Collected
    <3>3. e.tag.tag = "block" /\ pos = 1 + Reached(given.elems, m) + k
      BY <3>1 DEF Inside
    <3>4. Len(Bld!LinesOf(e)) = Len(e.body) /\ Len(e.body) \in Nat \ {0}
      BY <1>6, <3>2, <3>3, LineBlock, SoundParts
    <3>5. /\ Reached(given.elems, m) \in Nat
          /\ Reached(given.elems, m + 1) = Reached(given.elems, m) + Len(Bld!LinesOf(e))
          /\ Reached(given.elems, m + 1) <= Len(Bld!File(given.elems))
      BY <1>2, <3>2, FileAt
    <3>6. FALSE
      <4> DEFINE r == Reached(given.elems, m)
                 l == Len(e.body)
                 f == Len(Bld!File(given.elems))
      <4>1. f \in Nat
        BY <1>5
      <4>2. pos = 1 + f
        BY <1>1, <1>5
      <4>3. pos = 1 + r + k
        BY <3>3
      <4>4. l \in Nat /\ k \in 1..(l - 1)
        BY <3>4
      <4>5. r \in Nat /\ r + l <= f
        BY <3>4, <3>5
      <4> HIDE DEF r, f, l
      <4> QED BY <4>1, <4>2, <4>3, <4>4, <4>5
    <3> QED BY <3>6
  <2> QED BY <2>1, <2>2
<1>8. \A n \in Names : mp'[n] = Bld!Override(n)'
  BY <1>1, <1>2, <1>3, <1>4, <1>7, OverrideIs, PageKept DEF Gave
<1>9. CompiledTo(0)'
  <2>1. Reached(Bld!BaseElems, 0)' = 0
    BY <1>1, <1>2, PageStarts, PageKept DEF Reached, JoinedTo
  <2>2. Toks(out') = PageTo(0)'
    BY <1>1, <1>2, <1>3, PageStarts, PageKept
  <2> QED BY <1>1, <2>1, <2>2 DEF CompiledTo, Toks, TextsIn
<1>10. 0 \in 0..Len(Bld!BaseElems)'
  BY <1>1, <1>2, PageStarts, PageKept
<1> QED BY <1>1, <1>8, <1>9, <1>10
        DEF Right, Begun, Collecting, MapFilled, PageBegun, Searching, Finished

LEMMA RightRefuse ==
    ASSUME CompilerInv, Bld!SoundPage, Right, Bld!Refuse
    PROVE  Right'
<1>1. stage' = "refused" /\ out' = out
  BY DEF Bld!Refuse
<1> QED BY <1>1 DEF Right, Begun, Collecting, MapFilled, PageBegun, Searching, Finished

\* An element of the base that is compiled.
LEMMA BaseAt ==
    ASSUME Fixed, Bld!SoundPage, NEW m \in 0..(Len(Bld!BaseElems) - 1)
    PROVE  /\ Bld!BaseElems[m + 1] \in Bld!Element /\ Bld!Sound(Bld!BaseElems[m + 1])
           /\ Reached(Bld!BaseElems, m) \in Nat
           /\ Reached(Bld!BaseElems, m + 1) =
                Reached(Bld!BaseElems, m) + Len(Bld!LinesOf(Bld!BaseElems[m + 1]))
           /\ Reached(Bld!BaseElems, m + 1) <= Len(base)
           /\ \A k \in 1..Len(Bld!LinesOf(Bld!BaseElems[m + 1])) :
                base[Reached(Bld!BaseElems, m) + k] = Bld!LinesOf(Bld!BaseElems[m + 1])[k]
<1> DEFINE be == Bld!BaseElems
<1>1. be \in Seq(Bld!Element) /\ base = Bld!File(be)
  BY ElemsTyped, BaseIsFile
<1>2. m + 1 \in 1..Len(be)
  BY <1>1
<1>3. be[m + 1] \in Bld!Element /\ Bld!Sound(be[m + 1])
  BY <1>2, SoundIs DEF Sounding
<1> HIDE DEF be
<1>4. m \in 0..(Len(be) - 1)
  BY DEF be
<1>5. /\ Reached(be, m) \in Nat
      /\ Reached(be, m + 1) = Reached(be, m) + Len(Bld!LinesOf(be[m + 1]))
      /\ Reached(be, m + 1) <= Len(Bld!File(be))
      /\ \A k \in 1..Len(Bld!LinesOf(be[m + 1])) :
           Bld!File(be)[Reached(be, m) + k] = Bld!LinesOf(be[m + 1])[k]
  BY <1>1, <1>4, FileAt
<1> QED BY <1>1, <1>3, <1>5 DEF be

\* There is one as long as there are lines.
LEMMA BaseMore ==
    ASSUME Fixed, Bld!SoundPage, NEW m \in 0..Len(Bld!BaseElems)
    PROVE  /\ Reached(Bld!BaseElems, m) < Len(base) => m \in 0..(Len(Bld!BaseElems) - 1)
           /\ Reached(Bld!BaseElems, m) = Len(base) => m = Len(Bld!BaseElems)
<1>1. Bld!BaseElems \in Seq(Bld!Element) /\ base = Bld!File(Bld!BaseElems)
  BY ElemsTyped, BaseIsFile
<1>2. \A i \in 1..Len(Bld!BaseElems) : Bld!Sound(Bld!BaseElems[i])
  BY SoundIs DEF Sounding
<1>3. /\ Reached(Bld!BaseElems, m) \in Nat
      /\ Reached(Bld!BaseElems, m) = Len(base) <=> m = Len(Bld!BaseElems)
  BY <1>1, <1>2, NotAll
<1>4. Len(Bld!BaseElems) \in Nat
  BY <1>1
<1> QED BY <1>3, <1>4

\* The line an element begins with: text, a tag, and what is behind it.
Heading(e) == IF e.tag.tag = "block" THEN Bld!OpenTag(e.tag.id) ELSE e.tag
Trailing(e) == IF e.tag.tag = "block" THEN Rest(e, 1, e.body[1]) ELSE e.suf

LEMMA HeadingParts ==
    ASSUME NEW e \in Bld!Element, Bld!Sound(e)
    PROVE  /\ Heading(e) \in Bld!Token /\ Heading(e).tag # "quoting"
           /\ Heading(e).tag = IF e.tag.tag = "block" THEN "open" ELSE e.tag.tag
           /\ Trailing(e) \in Seq(Bld!Token)
           /\ \A tags : "text" \notin tags /\ "percent" \notin tags /\ "close" \notin tags
                => Trailing(e) \in Seq(Clean(tags)) /\ e.pre \in Seq(Clean(tags))
<1>1. /\ e.pre \in Seq(PlainTokens) /\ e.suf \in Seq(PlainTokens) /\ e.suf \in Seq(Bld!Token)
      /\ e.tag.tag \in {"text", "percent", "var", "code", "comment", "attr", "block"}
      /\ e.tag.tag # "block" => e.tag \in Bld!Token
      /\ e.tag.tag = "block" => e.tag.id \in Names /\ Len(e.body) \in Nat \ {0}
  BY SoundParts
<1>2. e.tag.tag = "block" => Bld!OpenTag(e.tag.id) \in Bld!Token /\ Bld!OpenTag(e.tag.id).tag = "open"
  BY <1>1, TagTokens
<1>3. e.tag.tag = "block" => e.body[1] \in Seq(PlainTokens)
  <2>1. SUFFICES ASSUME e.tag.tag = "block" PROVE e.body[1] \in Seq(PlainTokens)
    OBVIOUS
  <2>2. 1 \in 1..Len(e.body)
    BY <1>1, <2>1
  <2> QED BY <2>1, <2>2, BodyParts
<1>4. Trailing(e) \in Seq(Bld!Token)
  BY <1>1, <1>3, RestType, CleanTokens DEF Trailing
<1>5. ASSUME NEW tags, "text" \notin tags, "percent" \notin tags, "close" \notin tags
      PROVE  Trailing(e) \in Seq(Clean(tags)) /\ e.pre \in Seq(Clean(tags))
  <2>1. Seq(PlainTokens) \subseteq Seq(Clean(tags))
    BY <1>5, PlainClean
  <2>2. Bld!CloseTag \in Clean(tags)
    <3>1. Bld!CloseTag \in Bld!Token /\ Bld!CloseTag.tag = "close"
      BY DEF Bld!CloseTag, Bld!Tok, Bld!Token, Bld!Tags
    <3> QED BY <1>5, <3>1 DEF Clean
  <2>3. e.tag.tag = "block" => Around(e.body[1], Bld!CloseTag, e.suf) \in Seq(Clean(tags))
    BY <1>1, <1>3, <2>1, <2>2, AroundParts
  <2> QED BY <1>1, <1>3, <2>1, <2>3 DEF Trailing, Rest
<1>6. Heading(e) \in Bld!Token /\ Heading(e).tag # "quoting"
      /\ Heading(e).tag = IF e.tag.tag = "block" THEN "open" ELSE e.tag.tag
  BY <1>1, <1>2 DEF Heading
<1> QED BY <1>4, <1>5, <1>6

\* What is found in it.
Finds(e, line, tags) == Bld!First(line, tags) = IF Heading(e).tag \in tags THEN Len(e.pre) + 1 ELSE 0

LEMMA HeadingFound ==
    ASSUME NEW e \in Bld!Element, Bld!Sound(e), NEW line, line = Around(e.pre, Heading(e), Trailing(e)),
           NEW tags, "text" \notin tags, "percent" \notin tags,
           "close" \in tags => e.tag.tag # "block" \/ "open" \in tags
    PROVE  Finds(e, line, tags)
<1>1. /\ Heading(e) \in Bld!Token /\ Trailing(e) \in Seq(Bld!Token)
      /\ Heading(e).tag = IF e.tag.tag = "block" THEN "open" ELSE e.tag.tag
      /\ "close" \notin tags => Trailing(e) \in Seq(Clean(tags))
  BY HeadingParts
<1>2. e.pre \in Seq(PlainTokens) /\ e.suf \in Seq(PlainTokens) /\ e.pre \in Seq(Bld!Token)
  BY SoundParts
<1>3. Seq(PlainTokens) \subseteq Seq(Clean(tags))
  BY PlainClean
<1>4. CASE "close" \notin tags \/ e.tag.tag # "block"
  <2>1. Trailing(e) \in Seq(Clean(tags)) /\ e.pre \in Seq(Clean(tags))
    BY <1>1, <1>2, <1>3, <1>4 DEF Trailing
  <2>2. Bld!First(Around(e.pre, Heading(e), Trailing(e)), tags) =
          IF Heading(e).tag \in tags THEN Len(e.pre) + 1 ELSE 0
    BY <1>1, <2>1, AroundFirst
  <2> QED BY <2>2 DEF Finds
<1>5. CASE "open" \in tags /\ e.tag.tag = "block"
  <2> DEFINE p == e.pre
             h == Heading(e)
             r == Trailing(e)
  <2>1. p \in Seq(Bld!Token) /\ h \in Bld!Token /\ r \in Seq(Bld!Token) /\ h.tag \in tags
        /\ p \in Seq(Clean(tags)) /\ line = Around(p, h, r)
    BY <1>1, <1>2, <1>3, <1>5
  <2> HIDE DEF p, h, r
  <2>2. /\ line \in Seq(Bld!Token) /\ Len(p) + 1 \in 1..Len(line) /\ line[Len(p) + 1] = h
        /\ \A i \in 1..Len(p) : line[i] = p[i]
    BY <2>1, AroundParts
  <2>3. \A j \in 1..Len(p) : line[j].tag \notin tags
    BY <2>1, <2>2, CleanAt
  <2>4. (Len(p) + 1) - 1 = Len(p)
    BY <2>1
  <2>5. Bld!First(line, tags) = Len(p) + 1
    <3> DEFINE i == Len(p) + 1
    <3>1. i \in 1..Len(line) /\ line[i].tag \in tags /\ i - 1 = Len(p)
      BY <2>1, <2>2, <2>4
    <3> HIDE DEF i
    <3>2. \A j \in 1..(i - 1) : line[j].tag \notin tags
      BY <2>3, <3>1
    <3> QED BY <2>2, <3>1, <3>2, FirstIs DEF i
  <2> QED BY <2>1, <2>5 DEF Finds, p, h
<1> QED BY <1>4, <1>5

\* The line at hand begins an element.
Facing(m) ==
    LET e == Bld!BaseElems[m + 1] IN
    /\ m \in 0..(Len(Bld!BaseElems) - 1)
    /\ pos = Reached(Bld!BaseElems, m)
    /\ Toks(out) = PageTo(m)
    /\ e \in Bld!Element /\ Bld!Sound(e)
    /\ Bld!Line = Around(e.pre, Heading(e), Trailing(e))
    /\ base[pos + 1] = Bld!Line

LEMMA FacingOne ==
    ASSUME CompilerInv, Bld!SoundPage, Right, stage = "compile", pos < Len(base)
    PROVE  \E m : Facing(m)
<1>1. PICK m \in 0..Len(Bld!BaseElems) : CompiledTo(m)
  BY DEF Right, PageBegun
<1> DEFINE e == Bld!BaseElems[m + 1]
<1>2. Fixed
  BY DEF CompilerInv
<1>3. m \in 0..(Len(Bld!BaseElems) - 1)
  BY <1>1, <1>2, BaseMore DEF CompiledTo
<1>4. /\ e \in Bld!Element /\ Bld!Sound(e) /\ Reached(Bld!BaseElems, m) \in Nat
      /\ \A k \in 1..Len(Bld!LinesOf(e)) :
           base[Reached(Bld!BaseElems, m) + k] = Bld!LinesOf(e)[k]
  BY <1>2, <1>3, BaseAt
<1> HIDE DEF e
<1>5. Bld!LinesOf(e)[1] = Around(e.pre, Heading(e), Trailing(e)) /\ 1 \in 1..Len(Bld!LinesOf(e))
  <2>1. CASE e.tag.tag = "block"
    BY <1>4, <2>1, LineBlock, SoundParts DEF Heading, Trailing
  <2>2. CASE e.tag.tag # "block"
    BY <1>4, <2>2, LineOne DEF Heading, Trailing
  <2> QED BY <2>1, <2>2
<1>6. base[pos + 1] = Around(e.pre, Heading(e), Trailing(e))
  BY <1>1, <1>4, <1>5 DEF CompiledTo
<1>7. Bld!Line = base[pos + 1]
  <2> DEFINE tags == {"quoting"}
             p == e.pre
             h == Heading(e)
             r == Trailing(e)
  <2>1. "text" \notin tags /\ "percent" \notin tags /\ "close" \notin tags
    OBVIOUS
  <2>2. Heading(e) \in Bld!Token /\ Heading(e).tag \notin tags
    BY <1>4, HeadingParts
  <2> HIDE DEF tags
  <2>3. p \in Seq(Clean(tags)) /\ h \in Clean(tags) /\ r \in Seq(Clean(tags))
    BY <1>4, <2>1, <2>2, HeadingParts DEF Clean
  <2> HIDE DEF p, h, r
  <2>4. Around(p, h, r) \in Seq(Clean(tags))
    BY <2>3, AroundParts
  <2>5. Bld!Escaped(Around(p, h, r)) = Around(p, h, r)
    BY <2>4, EscapedSame DEF tags
  <2> QED BY <1>6, <2>5 DEF Bld!Line, p, h, r
<1> QED BY <1>1, <1>3, <1>4, <1>6, <1>7 DEF Facing, CompiledTo, e

\* An element of one line: the page goes on by what it stands for.
LEMMA RightLine ==
    ASSUME CompilerInv, Bld!SoundPage, Right, stage = "compile", NEW m, Facing(m),
           NEW e, e = Bld!BaseElems[m + 1], e.tag.tag # "block",
           pos' = pos + 1, UNCHANGED <<given, inc, child, base, mp, stage, aux>>,
           out' \in Seq(Plainly), Toks(out') = Toks(out) \o Bld!Rendered(e)
    PROVE  Right'
<1>1. Fixed /\ m \in 0..(Len(Bld!BaseElems) - 1) /\ e \in Bld!Element /\ Bld!Sound(e)
  BY DEF CompilerInv, Facing
<1>2. Len(Bld!LinesOf(e)) = 1
  BY <1>1, LineOne
<1>3. /\ Reached(Bld!BaseElems, m) \in Nat
      /\ Reached(Bld!BaseElems, m + 1) = Reached(Bld!BaseElems, m) + Len(Bld!LinesOf(e))
  BY <1>1, BaseAt
<1>4. PageTo(m + 1) = PageTo(m) \o Bld!Rendered(e)
  BY <1>1, PageNext
<1>5. pos' = Reached(Bld!BaseElems, m + 1) /\ Toks(out') = PageTo(m + 1)
  BY <1>2, <1>3, <1>4 DEF Facing
<1>6. CompiledTo(m + 1)'
  <2>1. Reached(Bld!BaseElems, m + 1)' = Reached(Bld!BaseElems, m + 1)
    BY PageKept DEF Reached, JoinedTo
  <2>2. PageTo(m + 1)' = PageTo(m + 1)
    BY PageKept
  <2> QED BY <1>5, <2>1, <2>2 DEF CompiledTo, Toks, TextsIn
<1>7. m + 1 \in 0..Len(Bld!BaseElems)'
  <2>1. Bld!BaseElems \in Seq(Bld!Element)
    BY <1>1, ElemsTyped
  <2>2. Len(Bld!BaseElems) \in Nat
    BY <2>1
  <2>3. Len(Bld!BaseElems)' = Len(Bld!BaseElems)
    BY PageKept
  <2> QED BY <1>1, <2>2, <2>3
<1>8. \A n \in Names : mp'[n] = Bld!Override(n)'
  BY PageKept DEF Right, MapFilled
<1> QED BY <1>6, <1>7, <1>8
        DEF Right, Begun, Collecting, MapFilled, PageBegun, Searching, Finished

\* The pieces of a line around its tag.
LEMMA LinePieces ==
    ASSUME NEW m, Facing(m), NEW e, e = Bld!BaseElems[m + 1]
    PROVE  /\ Bld!UpTo(Bld!Line, Len(e.pre) + 1) = e.pre
           /\ Bld!Behind(Bld!Line, Len(e.pre) + 1) = Trailing(e)
           /\ Bld!Line[Len(e.pre) + 1] = Heading(e)
           /\ Len(e.pre) + 1 # 0
<1>1. e \in Bld!Element /\ Bld!Sound(e) /\ Bld!Line = Around(e.pre, Heading(e), Trailing(e))
  BY DEF Facing
<1> DEFINE p == e.pre
           h == Heading(e)
           r == Trailing(e)
<1>2. p \in Seq(Bld!Token) /\ h \in Bld!Token /\ r \in Seq(Bld!Token) /\ Bld!Line = Around(p, h, r)
  BY <1>1, SoundParts, HeadingParts
<1> HIDE DEF p, h, r
<1>3. /\ Bld!UpTo(Bld!Line, Len(p) + 1) = p /\ Bld!Behind(Bld!Line, Len(p) + 1) = r
      /\ Bld!Line[Len(p) + 1] = h
  <2>1. Bld!UpTo(Around(p, h, r), Len(p) + 1) = p /\ Bld!Behind(Around(p, h, r), Len(p) + 1) = r
    BY <1>2, AroundCut, Zenon
  <2>2. Around(p, h, r)[Len(p) + 1] = h
    BY <1>2, AroundParts
  <2> QED BY <1>2, <2>1, <2>2, Zenon
<1>4. Len(p) \in Nat
  BY <1>2
<1> QED BY <1>3, <1>4 DEF p, h, r

LEMMA LineFinds ==
    ASSUME NEW m, Facing(m), NEW e, e = Bld!BaseElems[m + 1],
           NEW tags, "text" \notin tags, "percent" \notin tags,
           "close" \in tags => e.tag.tag # "block" \/ "open" \in tags
    PROVE  Finds(e, Bld!Line, tags) /\ Finds(e, base[pos + 1], tags)
<1>1. /\ e \in Bld!Element /\ Bld!Sound(e) /\ Bld!Line = Around(e.pre, Heading(e), Trailing(e))
      /\ base[pos + 1] = Bld!Line
  BY DEF Facing
<1>2. Finds(e, Bld!Line, tags)
  BY <1>1, HeadingFound
<1> QED BY <1>1, <1>2

\* The text around a tag in a literal.
LinesUp(p, t, s) == Lined(Around(p, t, s)) = Bld!Literal(p) \o Bld!Literal(<<t>>) \o Lined(s)
LinesAlong(p, s) == /\ Lined(p \o s) = Bld!Literal(p) \o Lined(s)
                    /\ Bld!Literal(p \o s) = Bld!Literal(p) \o Bld!Literal(s)

LEMMA LinedRow ==
    ASSUME NEW p \in Seq(Bld!Token), NEW s \in Seq(Bld!Token)
    PROVE  LinesAlong(p, s)
<1> DEFINE a == Bld!Literal(p)
           b == Bld!Literal(s)
           n == <<Bld!Newline>>
<1>1. Bld!Literal(p \o s) = a \o b
  BY LiteralRow
<1>2. a \in Seq(Bld!Token) /\ b \in Seq(Bld!Token) /\ n \in Seq(Bld!Token)
  BY LinedType, NewlineType, Concats
<1>3. a \o b \in Seq(Bld!Token)
  BY <1>2, Concats
<1>4. /\ Append(a \o b, Bld!Newline) = (a \o b) \o n
      /\ Append(b, Bld!Newline) = b \o n
  <2> HIDE DEF a, b
  <2> QED BY <1>2, <1>3
<1> HIDE DEF a, b, n
<1>5. (a \o b) \o n = a \o (b \o n)
  <2>1. Regroups(a, b, n)
    BY <1>2, InRow, Zenon
  <2> QED BY <2>1, Zenon DEF Regroups
<1>6. Lined(p \o s) = Append(a \o b, Bld!Newline) /\ Lined(s) = Append(b, Bld!Newline)
  BY <1>1 DEF Lined, b
<1> QED BY <1>1, <1>4, <1>5, <1>6 DEF LinesAlong, a, b

LEMMA LinedAround ==
    ASSUME NEW p \in Seq(Bld!Token), NEW t \in Bld!Token, NEW s \in Seq(Bld!Token)
    PROVE  LinesUp(p, t, s)
<1> DEFINE c == <<t>>
<1>1. c \in Seq(Bld!Token)
  BY Concats
<1> HIDE DEF c
<1>2. p \o c \in Seq(Bld!Token)
  BY <1>1, Concats
<1>3. LinesAlong(p \o c, s) /\ LinesAlong(p, c)
  BY <1>1, <1>2, LinedRow, Zenon
<1>4. Lined((p \o c) \o s) = (Bld!Literal(p) \o Bld!Literal(c)) \o Lined(s)
  BY <1>3 DEF LinesAlong
<1> QED BY <1>4 DEF LinesUp, Around, c

LEMMA RightVariable ==
    ASSUME CompilerInv, Bld!SoundPage, Right, Bld!CompileVariable
    PROVE  Right'
<1> DEFINE i == Bld!First(Bld!Line, {"var"})
           before == Bld!NonEmpty(Bld!UpTo(Bld!Line, i))
           value == <<Bld!Value(Bld!Line[i])>>
           behind == Bld!WithNewline(Bld!Behind(Bld!Line, i))
<1>1. /\ stage = "compile" /\ pos < Len(base) /\ Bld!First(base[pos + 1], {"var"}) # 0
      /\ pos' = pos + 1 /\ UNCHANGED <<given, inc, child, base, mp>>
      /\ out' = out \o before \o value \o behind
      /\ UNCHANGED <<stage, aux>>
  BY DEF Bld!CompileVariable, Bld!Compiling
<1>2. PICK m : Facing(m)
  BY <1>1, FacingOne
<1> DEFINE e == Bld!BaseElems[m + 1]
<1>3. e \in Bld!Element /\ Bld!Sound(e)
  BY <1>2 DEF Facing
<1>4. Finds(e, Bld!Line, {"var"}) /\ Finds(e, base[pos + 1], {"var"})
  <2> DEFINE tags == {"var"}
  <2>1. "text" \notin tags /\ "percent" \notin tags /\ "close" \notin tags
    OBVIOUS
  <2> HIDE DEF tags, e
  <2>2. Finds(e, Bld!Line, tags) /\ Finds(e, base[pos + 1], tags)
    BY <1>2, <2>1, LineFinds DEF e
  <2> QED BY <2>2 DEF tags
<1> HIDE DEF e
<1>5. Heading(e).tag \in {"var"} /\ i = Len(e.pre) + 1
  BY <1>1, <1>4 DEF Finds
<1>6. e.tag.tag = "var" /\ e.tag \in Bld!Token /\ Heading(e) = e.tag /\ Trailing(e) = e.suf
      /\ e.pre \in Seq(Bld!Token) /\ e.suf \in Seq(Bld!Token)
  BY <1>3, <1>5, HeadingParts, SoundParts DEF Heading, Trailing
<1>7. Bld!UpTo(Bld!Line, i) = e.pre /\ Bld!Behind(Bld!Line, i) = e.suf /\ Bld!Line[i] = e.tag
  BY <1>2, <1>5, <1>6, LinePieces DEF e
<1>8. /\ before = Bld!NonEmpty(e.pre) /\ value = <<Bld!Value(e.tag)>>
      /\ behind = Bld!WithNewline(e.suf)
  BY <1>7
<1> HIDE DEF i, before, value, behind
<1>9. before \in Seq(Good) /\ value \in Seq(Good) /\ behind \in Seq(Good) /\ out \in Seq(Good)
  BY <1>6, <1>8, Statemented, ToksTag DEF CompilerInv, Making
<1>10. Toks(before) = Bld!Literal(e.pre) /\ Toks(value) = <<e.tag>> /\ Toks(behind) = Lined(e.suf)
  BY <1>6, <1>8, ToksMade, ToksTag DEF Lined
<1>11. InTurn(out, before, value, behind)
  BY <1>9, ToksThree, Zenon
<1>12. Bld!Literal(<<e.tag>>) = <<e.tag>>
  BY <1>6 DEF Bld!Literal
<1>13. Bld!Rendered(e) = Bld!Literal(e.pre) \o Bld!Literal(<<e.tag>>) \o Lined(e.suf)
  BY <1>6, RenderedIs
<1>14. Toks(out') = Toks(out) \o Bld!Rendered(e)
  BY <1>1, <1>10, <1>11, <1>12, <1>13 DEF InTurn
<1>15. e = Bld!BaseElems[m + 1] /\ e.tag.tag # "block"
  BY <1>6 DEF e
<1>16. out' \in Seq(Plainly)
  <2>1. e.pre \in Apart /\ e.suf \in Apart
    BY <1>3, SoundParts, PlainApart
  <2>2. before \in Seq(Plainly) /\ value \in Seq(Plainly) /\ behind \in Seq(Plainly)
    BY <1>6, <1>8, <2>1, PlainlyMade, PlainlyTag
  <2>3. out \in Seq(Plainly)
    BY DEF Right
  <2> QED BY <1>1, <2>2, <2>3, Concats
<1> QED BY <1>1, <1>2, <1>14, <1>15, <1>16, RightLine

LEMMA RightCode ==
    ASSUME CompilerInv, Bld!SoundPage, Right, Bld!CompileCode
    PROVE  Right'
<1> DEFINE i == Bld!First(Bld!Line, {"code", "broken"})
           before == Bld!NonEmpty(Bld!UpTo(Bld!Line, i))
           code == <<Bld!Code(Bld!Line[i])>>
           rest == Bld!Behind(Bld!Line, i)
           behind == IF rest = <<>> THEN <<>> ELSE Bld!WithNewline(rest)
<1>1. /\ stage = "compile" /\ pos < Len(base) /\ Bld!First(base[pos + 1], {"code", "quoting"}) # 0
      /\ pos' = pos + 1 /\ UNCHANGED <<given, inc, child, base, mp>>
      /\ out' = out \o before \o code \o behind
      /\ UNCHANGED <<stage, aux>>
  BY DEF Bld!CompileCode, Bld!Compiling
<1>2. PICK m : Facing(m)
  BY <1>1, FacingOne
<1> DEFINE e == Bld!BaseElems[m + 1]
<1>3. e \in Bld!Element /\ Bld!Sound(e)
  BY <1>2 DEF Facing
<1>4. Finds(e, Bld!Line, {"code", "broken"}) /\ Finds(e, base[pos + 1], {"code", "quoting"})
  <2> DEFINE tags == {"code", "broken"}
             raw == {"code", "quoting"}
  <2>1. /\ "text" \notin tags /\ "percent" \notin tags /\ "close" \notin tags
        /\ "text" \notin raw /\ "percent" \notin raw /\ "close" \notin raw
    OBVIOUS
  <2> HIDE DEF tags, raw, e
  <2>2. Finds(e, Bld!Line, tags)
    BY <1>2, <2>1, LineFinds DEF e
  <2>3. Finds(e, base[pos + 1], raw)
    BY <1>2, <2>1, LineFinds DEF e
  <2> QED BY <2>2, <2>3 DEF tags, raw
<1> HIDE DEF e
<1>5. Heading(e).tag \in {"code", "quoting"} /\ i = Len(e.pre) + 1
  <2>1. Heading(e).tag \in {"code", "quoting"}
    BY <1>1, <1>4 DEF Finds
  <2>2. Heading(e).tag # "quoting"
    BY <1>3, HeadingParts
  <2> QED BY <1>4, <2>1, <2>2 DEF Finds
<1>6. e.tag.tag = "code" /\ e.tag \in Bld!Token /\ Heading(e) = e.tag /\ Trailing(e) = e.suf
      /\ e.pre \in Seq(Bld!Token) /\ e.suf \in Seq(Bld!Token)
  BY <1>3, <1>5, HeadingParts, SoundParts DEF Heading, Trailing
<1>7. Bld!UpTo(Bld!Line, i) = e.pre /\ rest = e.suf /\ Bld!Line[i] = e.tag
  BY <1>2, <1>5, <1>6, LinePieces DEF e
<1>8. /\ before = Bld!NonEmpty(e.pre) /\ code = <<Bld!Code(e.tag)>>
      /\ behind = IF e.suf = <<>> THEN <<>> ELSE Bld!WithNewline(e.suf)
  BY <1>7
<1> HIDE DEF i, before, code, rest, behind
<1>9. before \in Seq(Good) /\ code \in Seq(Good) /\ behind \in Seq(Good) /\ out \in Seq(Good)
  BY <1>6, <1>8, Statemented, ToksTag, Concats DEF CompilerInv, Making
<1>10. /\ Toks(before) = Bld!Literal(e.pre) /\ Toks(code) = <<e.tag>>
       /\ Toks(behind) = IF e.suf = <<>> THEN <<>> ELSE Lined(e.suf)
  BY <1>6, <1>8, ToksMade, ToksTag, ToksEmpty DEF Lined
<1>11. InTurn(out, before, code, behind)
  BY <1>9, ToksThree, Zenon
<1>12. Bld!Literal(e.suf) = <<>> <=> e.suf = <<>>
  BY <1>6, LiteralNone
<1>13. Bld!Rendered(e) = Bld!Literal(e.pre) \o <<e.tag>>
                         \o (IF Bld!Literal(e.suf) = <<>> THEN <<>> ELSE Lined(e.suf))
  BY <1>6, RenderedIs
<1>14. Toks(out') = Toks(out) \o Bld!Rendered(e)
  <2>1. Toks(behind) = IF Bld!Literal(e.suf) = <<>> THEN <<>> ELSE Lined(e.suf)
    BY <1>10, <1>12
  <2> QED BY <1>1, <1>10, <1>11, <1>13, <2>1 DEF InTurn
<1>15. e = Bld!BaseElems[m + 1] /\ e.tag.tag # "block"
  BY <1>6 DEF e
<1>16. out' \in Seq(Plainly)
  <2>1. e.pre \in Apart /\ e.suf \in Apart
    BY <1>3, SoundParts, PlainApart
  <2>2. before \in Seq(Plainly) /\ code \in Seq(Plainly) /\ behind \in Seq(Plainly)
    BY <1>6, <1>8, <2>1, PlainlyMade, PlainlyTag, Concats
  <2>3. out \in Seq(Plainly)
    BY DEF Right
  <2> QED BY <1>1, <2>2, <2>3, Concats
<1> QED BY <1>1, <1>2, <1>14, <1>15, <1>16, RightLine

LEMMA RightComment ==
    ASSUME CompilerInv, Bld!SoundPage, Right, Bld!CompileComment
    PROVE  Right'
<1> DEFINE i == Bld!First(Bld!Line, {"comment"})
           rest == Bld!UpTo(Bld!Line, i) \o Bld!Behind(Bld!Line, i)
<1>1. /\ stage = "compile" /\ pos < Len(base) /\ Bld!First(base[pos + 1], {"comment"}) # 0
      /\ pos' = pos + 1 /\ UNCHANGED <<given, inc, child, base, mp>>
      /\ out' = (IF rest = <<>> THEN out ELSE out \o Bld!WithNewline(rest))
      /\ UNCHANGED <<stage, aux>>
  BY DEF Bld!CompileComment, Bld!Compiling
<1>2. PICK m : Facing(m)
  BY <1>1, FacingOne
<1> DEFINE e == Bld!BaseElems[m + 1]
<1>3. e \in Bld!Element /\ Bld!Sound(e)
  BY <1>2 DEF Facing
<1>4. Finds(e, Bld!Line, {"comment"}) /\ Finds(e, base[pos + 1], {"comment"})
  <2> DEFINE tags == {"comment"}
  <2>1. "text" \notin tags /\ "percent" \notin tags /\ "close" \notin tags
    OBVIOUS
  <2> HIDE DEF tags, e
  <2>2. Finds(e, Bld!Line, tags) /\ Finds(e, base[pos + 1], tags)
    BY <1>2, <2>1, LineFinds DEF e
  <2> QED BY <2>2 DEF tags
<1> HIDE DEF e
<1>5. Heading(e).tag \in {"comment"} /\ i = Len(e.pre) + 1
  BY <1>1, <1>4 DEF Finds
<1>6. e.tag.tag = "comment" /\ Trailing(e) = e.suf
      /\ e.pre \in Seq(Bld!Token) /\ e.suf \in Seq(Bld!Token)
  BY <1>3, <1>5, HeadingParts, SoundParts DEF Heading, Trailing
<1>7. rest = e.pre \o e.suf
  BY <1>2, <1>5, <1>6, LinePieces DEF e
<1> HIDE DEF i, rest
<1>8. rest \in Seq(Bld!Token) /\ out \in Seq(Good)
  BY <1>6, <1>7, Concats DEF CompilerInv, Making
<1>9. LinesAlong(e.pre, e.suf) /\ (Bld!Literal(rest) = <<>> <=> rest = <<>>)
  BY <1>6, <1>8, LinedRow, LiteralNone
<1>10. Bld!Rendered(e) = IF rest = <<>> THEN <<>> ELSE Lined(rest)
  <2>1. Bld!Rendered(e) = IF Bld!Literal(e.pre) \o Bld!Literal(e.suf) = <<>> THEN <<>>
                          ELSE Bld!Literal(e.pre) \o Lined(e.suf)
    BY <1>6, RenderedIs
  <2> QED BY <1>7, <1>9, <2>1 DEF LinesAlong
<1>11. Toks(out') = Toks(out) \o Bld!Rendered(e)
  <2>1. CASE rest = <<>>
    <3>1. Toks(out) \in Seq(Bld!Token)
      BY <1>8, ToksType
    <3>2. Toks(out) \o <<>> = Toks(out)
      BY <3>1
    <3> QED BY <1>1, <1>10, <2>1, <3>2
  <2>2. CASE rest # <<>>
    <3>1. Bld!WithNewline(rest) \in Seq(Good) /\ Toks(Bld!WithNewline(rest)) = Lined(rest)
      BY <1>8, Statemented, ToksMade DEF Lined
    <3>2. Toks(out \o Bld!WithNewline(rest)) = Toks(out) \o Toks(Bld!WithNewline(rest))
      BY <1>8, <3>1, ToksRow
    <3> QED BY <1>1, <1>10, <2>2, <3>1, <3>2
  <2> QED BY <2>1, <2>2
<1>12. e = Bld!BaseElems[m + 1] /\ e.tag.tag # "block"
  BY <1>6 DEF e
<1>13. out' \in Seq(Plainly)
  <2>1. e.pre \in Apart /\ e.suf \in Apart
    BY <1>3, SoundParts, PlainApart
  <2>2. rest \in Apart
    BY <1>7, <2>1, Concats DEF Apart
  <2>3. Bld!WithNewline(rest) \in Seq(Plainly) /\ out \in Seq(Plainly)
    BY <2>2, PlainlyMade DEF Right
  <2> QED BY <1>1, <2>3, Concats
<1> QED BY <1>1, <1>2, <1>11, <1>12, <1>13, RightLine

LEMMA RightText ==
    ASSUME CompilerInv, Bld!SoundPage, Right, Bld!CompileText
    PROVE  Right'
<1> DEFINE tags == {"var", "code", "broken", "comment"} \cup Bld!Substituted
<1>1. /\ stage = "compile" /\ pos < Len(base) /\ pos' = pos + 1
      /\ Bld!First(Bld!Line, tags) = 0
      /\ out' = out \o Bld!WithNewline(Bld!Line)
      /\ UNCHANGED <<given, inc, child, base, stage, aux, mp>>
  BY DEF Bld!CompileText
<1>2. PICK m : Facing(m)
  BY <1>1, FacingOne
<1> DEFINE e == Bld!BaseElems[m + 1]
<1>3. e \in Bld!Element /\ Bld!Sound(e)
  BY <1>2 DEF Facing
<1>4. /\ "text" \notin tags /\ "percent" \notin tags /\ "open" \in tags
      /\ {"var", "code", "comment", "attr", "open"} \subseteq tags
  BY DEF Bld!Substituted
<1> HIDE DEF e, tags
<1>5. Finds(e, Bld!Line, tags)
  BY <1>2, <1>4, LineFinds DEF e
<1>6. e.pre \in Seq(Bld!Token) /\ e.suf \in Seq(Bld!Token)
  BY <1>3, SoundParts
<1>7. Heading(e).tag \notin tags
  <2>1. Len(e.pre) + 1 # 0
    BY <1>2, LinePieces DEF e
  <2> QED BY <1>1, <1>5, <2>1 DEF Finds
<1>8. /\ e.tag.tag \in {"text", "percent"} /\ e.tag \in Bld!Token
      /\ Heading(e) = e.tag /\ Trailing(e) = e.suf
  BY <1>3, <1>4, <1>7, HeadingParts, SoundParts DEF Heading, Trailing
<1>9. Bld!Line = Around(e.pre, e.tag, e.suf)
  BY <1>2, <1>8 DEF Facing, e
<1>10. Bld!Line \in Seq(Bld!Token) /\ out \in Seq(Good)
  BY <1>1, LineAt DEF CompilerInv, Making
<1>11. Bld!WithNewline(Bld!Line) \in Seq(Good) /\ Toks(Bld!WithNewline(Bld!Line)) = Lined(Bld!Line)
  BY <1>10, Statemented, ToksMade DEF Lined
<1>12. Lined(Bld!Line) = Bld!Rendered(e)
  <2>1. LinesUp(e.pre, e.tag, e.suf)
    BY <1>6, <1>8, LinedAround
  <2>2. Bld!Rendered(e) = Bld!Literal(e.pre) \o Bld!Literal(<<e.tag>>) \o Lined(e.suf)
    BY <1>8, RenderedIs
  <2> QED BY <1>9, <2>1, <2>2 DEF LinesUp
<1>13. Toks(out') = Toks(out) \o Bld!Rendered(e)
  <2>1. Toks(out \o Bld!WithNewline(Bld!Line)) = Toks(out) \o Toks(Bld!WithNewline(Bld!Line))
    BY <1>10, <1>11, ToksRow
  <2> QED BY <1>1, <1>11, <1>12, <2>1
<1>14. e = Bld!BaseElems[m + 1] /\ e.tag.tag # "block"
  BY <1>8 DEF e
<1>15. out' \in Seq(Plainly)
  <2>1. e.pre \in Apart /\ e.suf \in Apart /\ e.tag \in Clean({"code"})
    BY <1>3, <1>8, SoundParts, PlainApart DEF Clean
  <2>2. Bld!Line \in Apart
    BY <1>9, <2>1, AroundParts DEF Apart
  <2>3. Bld!WithNewline(Bld!Line) \in Seq(Plainly) /\ out \in Seq(Plainly)
    BY <2>2, PlainlyMade DEF Right
  <2> QED BY <1>1, <2>3, Concats
<1> QED BY <1>1, <1>2, <1>13, <1>14, <1>15, RightLine

LEMMA RightAttr ==
    ASSUME CompilerInv, Bld!SoundPage, Right, Bld!CompileAttr
    PROVE  Right'
<1> DEFINE a == Bld!First(Bld!Line, {"attr"})
           t == Bld!First(Bld!Line, Bld!Substituted)
           before == <<Bld!AppendText(Bld!Literal(Bld!UpTo(Bld!Line, t)))>>
           filled == Bld!Filled(Bld!Line[a].id, <<Bld!Tok("text", "", Bld!Line[a].val)>>)
           behind == Bld!WithNewline(Bld!Behind(Bld!Line, a))
<1>1. /\ stage = "compile" /\ pos < Len(base) /\ Bld!First(base[pos + 1], {"attr"}) # 0
      /\ pos' = pos + 1 /\ UNCHANGED <<given, inc, child, base, mp>>
      /\ out' = out \o before \o filled \o behind
      /\ UNCHANGED <<stage, aux>>
  BY DEF Bld!CompileAttr, Bld!Compiling
<1>2. PICK m : Facing(m)
  BY <1>1, FacingOne
<1> DEFINE e == Bld!BaseElems[m + 1]
<1>3. e \in Bld!Element /\ Bld!Sound(e)
  BY <1>2 DEF Facing
<1>4. /\ Finds(e, Bld!Line, {"attr"}) /\ Finds(e, base[pos + 1], {"attr"})
      /\ Finds(e, Bld!Line, Bld!Substituted)
  <2> DEFINE tags == {"attr"}
             some == Bld!Substituted
  <2>1. /\ "text" \notin tags /\ "percent" \notin tags /\ "close" \notin tags
        /\ "text" \notin some /\ "percent" \notin some /\ "open" \in some
    BY DEF Bld!Substituted
  <2> HIDE DEF tags, some, e
  <2>2. Finds(e, Bld!Line, tags) /\ Finds(e, base[pos + 1], tags)
    BY <1>2, <2>1, LineFinds DEF e
  <2>3. Finds(e, Bld!Line, some)
    BY <1>2, <2>1, LineFinds DEF e
  <2> QED BY <2>2, <2>3 DEF tags, some
<1> HIDE DEF e
<1>5. Heading(e).tag \in {"attr"} /\ a = Len(e.pre) + 1 /\ t = Len(e.pre) + 1
  BY <1>1, <1>4 DEF Finds, Bld!Substituted
<1>6. e.tag.tag = "attr" /\ Heading(e) = e.tag /\ Trailing(e) = e.suf
      /\ e.pre \in Seq(Bld!Token) /\ e.suf \in Seq(Bld!Token)
      /\ e.tag.id \in Names /\ e.tag.val \in Nat
  BY <1>3, <1>5, HeadingParts, SoundParts DEF Heading, Trailing
<1>7. Bld!UpTo(Bld!Line, t) = e.pre /\ Bld!Behind(Bld!Line, a) = e.suf /\ Bld!Line[a] = e.tag
  BY <1>2, <1>5, <1>6, LinePieces DEF e
<1> DEFINE default == <<Bld!Tok("text", "", e.tag.val)>>
<1>8. /\ before = <<Bld!AppendText(Bld!Literal(e.pre))>> /\ filled = Bld!Filled(e.tag.id, default)
      /\ behind = Bld!WithNewline(e.suf)
  BY <1>7
<1>9. default \in Seq(Bld!Token) /\ Default(e) = default
  BY <1>6, TextToken DEF Default
<1> HIDE DEF a, t, before, filled, behind, default
<1>10. mp \in [Names -> Seq(Bld!Token)] /\ mp[e.tag.id] = Bld!Override(e.tag.id)
  BY <1>1, <1>6 DEF Right, MapFilled, CompilerInv, Filling
<1>11. Bld!Literal(e.pre) \in Seq(Bld!Token)
  BY <1>6, LinedType
<1>12. before \in Seq(Good) /\ filled \in Seq(Good) /\ behind \in Seq(Good) /\ out \in Seq(Good)
  BY <1>6, <1>8, <1>9, <1>10, <1>11, Statemented, ToksMade, FilledType DEF CompilerInv, Making
<1>13. Toks(before) = Bld!Literal(e.pre) /\ Toks(behind) = Lined(e.suf)
  BY <1>6, <1>8, <1>11, ToksMade DEF Lined
<1>14. Toks(filled) = Own(e)
  <2>1. Toks(filled) = IF mp[e.tag.id] # <<>> THEN mp[e.tag.id] ELSE default
    BY <1>6, <1>8, <1>9, <1>10, ToksFilled
  <2> QED BY <1>9, <1>10, <2>1 DEF Own
<1>15. InTurn(out, before, filled, behind)
  BY <1>12, ToksThree, Zenon
<1>16. Bld!Rendered(e) = Bld!Literal(e.pre) \o Own(e) \o Lined(e.suf)
  BY <1>6, RenderedIs
<1>17. Toks(out') = Toks(out) \o Bld!Rendered(e)
  BY <1>1, <1>13, <1>14, <1>15, <1>16 DEF InTurn
<1>18. e = Bld!BaseElems[m + 1] /\ e.tag.tag # "block"
  BY <1>6 DEF e
<1>19. out' \in Seq(Plainly)
  <2>1. e.pre \in Apart /\ e.suf \in Apart
    BY <1>3, SoundParts, PlainApart
  <2>2. before \in Seq(Plainly) /\ behind \in Seq(Plainly)
    BY <1>8, <2>1, LiteralApart, AppendApart, PlainlyMade
  <2>3. filled \in Seq(Plainly)
    <3>1. Fixed
      BY DEF CompilerInv
    <3> QED BY <1>3, <1>6, <1>8, <1>9, <1>10, <3>1, PlainlyFilled
  <2>4. out \in Seq(Plainly)
    BY DEF Right
  <2> QED BY <1>1, <2>2, <2>3, <2>4, Concats
<1> QED BY <1>1, <1>2, <1>17, <1>18, <1>19, RightLine

\* The tag of a block begins the search for its end.
LEMMA RightTag ==
    ASSUME CompilerInv, Bld!SoundPage, Right, Bld!CompileTag
    PROVE  Right'
<1> DEFINE t == Bld!First(Bld!Line, Bld!Substituted)
           text == Bld!AppendText(Bld!Literal(Bld!UpTo(Bld!Line, t)))
           others == {"var", "code", "quoting", "comment", "attr"}
<1>1. /\ stage = "compile" /\ pos < Len(base)
      /\ Bld!First(base[pos + 1], Bld!Substituted) # 0
      /\ Bld!First(base[pos + 1], others) = 0
      /\ pos' = pos + 1 /\ UNCHANGED <<given, inc, child, base, mp>>
      /\ out' = Append(out, text) /\ aux' = Bld!Line /\ stage' = "search"
  BY DEF Bld!CompileTag, Bld!Compiling
<1>2. PICK m : Facing(m)
  BY <1>1, FacingOne
<1> DEFINE e == Bld!BaseElems[m + 1]
<1>3. e \in Bld!Element /\ Bld!Sound(e) /\ m \in 0..(Len(Bld!BaseElems) - 1)
  BY <1>2 DEF Facing
<1>4. /\ Finds(e, Bld!Line, Bld!Substituted) /\ Finds(e, base[pos + 1], Bld!Substituted)
      /\ Finds(e, base[pos + 1], others)
  <2> DEFINE some == Bld!Substituted
  <2>1. /\ "text" \notin others /\ "percent" \notin others /\ "close" \notin others
        /\ "text" \notin some /\ "percent" \notin some /\ "open" \in some
    BY DEF Bld!Substituted
  <2> HIDE DEF others, some, e
  <2>2. Finds(e, base[pos + 1], others)
    BY <1>2, <2>1, LineFinds DEF e
  <2>3. Finds(e, Bld!Line, some) /\ Finds(e, base[pos + 1], some)
    BY <1>2, <2>1, LineFinds DEF e
  <2> QED BY <2>2, <2>3 DEF some
<1> HIDE DEF e
<1>5. Len(e.pre) + 1 # 0
  BY <1>2, LinePieces DEF e
<1>6. e.tag.tag = "block" /\ Heading(e) = Bld!OpenTag(e.tag.id) /\ Trailing(e) = Rest(e, 1, e.body[1])
      /\ t = Len(e.pre) + 1
  <2>1. Heading(e).tag \in Bld!Substituted /\ Heading(e).tag \notin others
    BY <1>1, <1>4, <1>5 DEF Finds
  <2>2. Heading(e).tag = IF e.tag.tag = "block" THEN "open" ELSE e.tag.tag
    BY <1>3, HeadingParts
  <2>3. e.tag.tag \in {"text", "percent", "var", "code", "comment", "attr", "block"}
    BY <1>3, SoundParts
  <2>4. e.tag.tag = "block"
    BY <2>1, <2>2, <2>3 DEF Bld!Substituted
  <2>5. t = Len(e.pre) + 1
    BY <1>4, <2>1 DEF Finds
  <2> QED BY <2>4, <2>5 DEF Heading, Trailing
<1>7. Bld!UpTo(Bld!Line, t) = e.pre
  BY <1>2, <1>6, LinePieces DEF e
<1>8. text = Bld!AppendText(Bld!Literal(e.pre))
  BY <1>7
<1> HIDE DEF t, text, others
<1>9. /\ e.pre \in Seq(Bld!Token) /\ Len(e.body) \in Nat \ {0}
      /\ e.body \in Seq(Seq(Bld!Token)) /\ Bld!Break \in Bld!Token
  BY <1>3, <1>6, SoundParts, BreakClean
<1>10. Bld!Literal(e.pre) \in Seq(Bld!Token) /\ out \in Seq(Good)
  BY <1>9, LinedType DEF CompilerInv, Making
<1>11. text \in Good /\ Toks(<<text>>) = Bld!Literal(e.pre) /\ <<text>> \in Seq(Good)
  BY <1>8, <1>10, StatementTypes, ToksMade
<1>12. Toks(out') = Toks(out) \o Bld!Literal(e.pre)
  <2>1. Append(out, text) = out \o <<text>>
    BY <1>10, <1>11
  <2>2. Toks(out \o <<text>>) = Toks(out) \o Toks(<<text>>)
    BY <1>10, <1>11, ToksRow
  <2> QED BY <1>1, <1>11, <2>1, <2>2
<1>13. BreaksTo(e.body, 1) = e.body[1]
  BY <1>9, BreaksNext
<1>14. SearchedTo(m, 1)'
  <2>1. aux' = Around(e.pre, Bld!OpenTag(e.tag.id), Rest(e, 1, BreaksTo(e.body, 1)))
    BY <1>1, <1>2, <1>6, <1>13 DEF Facing, e
  <2>2. pos' = Reached(Bld!BaseElems, m) + 1 /\ Toks(out') = PageTo(m) \o Bld!Literal(e.pre)
    BY <1>1, <1>2, <1>12 DEF Facing
  <2>3. Bld!BaseElems[m + 1]' = e /\ Reached(Bld!BaseElems, m)' = Reached(Bld!BaseElems, m)
        /\ PageTo(m)' = PageTo(m)
    BY <1>1, PageKept DEF Reached, JoinedTo, e
  <2>4. e.tag.tag = "block"
    BY <1>6
  <2> HIDE DEF e
  <2> QED BY <2>1, <2>2, <2>3, <2>4 DEF SearchedTo, Toks, TextsIn
<1>15. m \in 0..(Len(Bld!BaseElems)' - 1) /\ 1 \in 1..Len(Bld!BaseElems[m + 1].body)'
  <2>1. Bld!BaseElems' = Bld!BaseElems
    BY <1>1, PageKept
  <2> QED BY <1>3, <1>9, <2>1 DEF e
<1>16. \A n \in Names : mp'[n] = Bld!Override(n)'
  BY <1>1, PageKept DEF Right, MapFilled
<1>17. out' \in Seq(Plainly)
  <2>1. e.pre \in Apart
    BY <1>3, SoundParts, PlainApart
  <2>2. text \in Plainly /\ out \in Seq(Plainly)
    BY <1>8, <2>1, LiteralApart, AppendApart DEF Right
  <2> QED BY <1>1, <2>2
<1> QED BY <1>1, <1>14, <1>15, <1>16, <1>17
        DEF Right, Begun, Collecting, MapFilled, PageBegun, Searching, Finished

\* What the search has gathered of a block.
LEMMA Searched ==
    ASSUME Fixed, Bld!SoundPage, NEW m \in 0..(Len(Bld!BaseElems) - 1),
           NEW e, e = Bld!BaseElems[m + 1], NEW k \in 1..Len(e.body), SearchedTo(m, k)
    PROVE  /\ e \in Bld!Element /\ Bld!Sound(e) /\ e.tag.tag = "block" /\ Len(e.body) \in Nat \ {0}
           /\ BreaksTo(e.body, k) \in Seq(Clean({"close"}))
           /\ BreaksTo(e.body, k) \in Seq(Bld!Token)
           /\ Bld!BlockIn(aux) =
                IF k = Len(e.body)
                THEN {[name |-> e.tag.id, body |-> Bld!Trim(BreaksTo(e.body, k)), behind |-> e.suf]}
                ELSE {}
<1>1. e \in Bld!Element /\ Bld!Sound(e)
  BY BaseAt
<1>2. /\ e.tag.tag = "block"
      /\ aux = Around(e.pre, Bld!OpenTag(e.tag.id), Rest(e, k, BreaksTo(e.body, k)))
  BY DEF SearchedTo
<1>3. e.pre \in Seq(PlainTokens) /\ e.body \in Seq(Seq(PlainTokens)) /\ Len(e.body) \in Nat \ {0}
  BY <1>1, <1>2, SoundParts
<1>4. e.pre \in Seq(Clean({"open", "close"}))
  BY <1>3, AsideClean DEF Aside
<1>5. BreaksTo(e.body, k) \in Seq(Clean({"close"}))
  <2> DEFINE S == Clean({"close"})
  <2>1. Seq(PlainTokens) \subseteq Seq(S) /\ Bld!Break \in S
    BY PlainClean, BreakClean
  <2> HIDE DEF S
  <2>2. e.body \in Seq(Seq(S))
    <3>1. \A T, U : T \subseteq U => Seq(T) \subseteq Seq(U)
      OBVIOUS
    <3>2. Seq(Seq(PlainTokens)) \subseteq Seq(Seq(S))
      BY <2>1, <3>1, Zenon
    <3> QED BY <1>3, <3>2
  <2>3. Len(e.body) # 0
    BY <1>3
  <2>4. BreaksTo(e.body, k) \in Seq(S)
    BY <2>1, <2>2, <2>3, BreaksNext
  <2> QED BY <2>4 DEF S
<1>6. BreaksTo(e.body, k) \in Seq(Bld!Token)
  BY <1>5, CleanTokens
<1> DEFINE mid == BreaksTo(e.body, k)
<1> HIDE DEF mid
<1>7. mid \in Seq(Clean({"close"})) /\ aux = Around(e.pre, Bld!OpenTag(e.tag.id), Rest(e, k, mid))
  BY <1>2, <1>5 DEF mid
<1>8. Bld!BlockIn(aux) = IF k = Len(e.body)
        THEN {[name |-> e.tag.id, body |-> Bld!Trim(mid), behind |-> e.suf]} ELSE {}
  <2>1. Bld!BlockIn(Around(e.pre, Bld!OpenTag(e.tag.id), Rest(e, k, mid))) = IF k = Len(e.body)
          THEN {[name |-> e.tag.id, body |-> Bld!Trim(mid), behind |-> e.suf]} ELSE {}
    BY <1>1, <1>2, <1>4, <1>7, BlockGathered
  <2> QED BY <1>7, <2>1, Zenon
<1> QED BY <1>1, <1>2, <1>3, <1>5, <1>6, <1>8 DEF mid

LEMMA RightSearch ==
    ASSUME CompilerInv, Bld!SoundPage, Right, Bld!SearchBlock
    PROVE  Right'
<1>1. stage = "search" /\ Bld!BlockIn(aux) = {} /\ UNCHANGED <<given, inc, child, base, mp, out>>
  BY DEF Bld!SearchBlock
<1>2. PICK m \in 0..(Len(Bld!BaseElems) - 1) :
        \E k \in 1..Len(Bld!BaseElems[m + 1].body) : SearchedTo(m, k)
  BY <1>1 DEF Right, Searching
<1> DEFINE e == Bld!BaseElems[m + 1]
<1>3. PICK k \in 1..Len(e.body) : SearchedTo(m, k)
  BY <1>2
<1> DEFINE mid == BreaksTo(e.body, k)
           tag == Bld!OpenTag(e.tag.id)
           brk == <<Bld!Break>>
           b == e.body[k + 1]
<1>4. Fixed
  BY DEF CompilerInv
<1>5. /\ e \in Bld!Element /\ Bld!Sound(e) /\ e.tag.tag = "block" /\ Len(e.body) \in Nat \ {0}
      /\ mid \in Seq(Bld!Token) /\ k # Len(e.body)
  <2> DEFINE f == Bld!BaseElems[m + 1]
  <2>1. f = Bld!BaseElems[m + 1] /\ k \in 1..Len(f.body)
    BY <1>3
  <2> HIDE DEF f
  <2>2. /\ f \in Bld!Element /\ Bld!Sound(f) /\ f.tag.tag = "block" /\ Len(f.body) \in Nat \ {0}
        /\ BreaksTo(f.body, k) \in Seq(Bld!Token)
        /\ Bld!BlockIn(aux) =
             IF k = Len(f.body)
             THEN {[name |-> f.tag.id, body |-> Bld!Trim(BreaksTo(f.body, k)), behind |-> f.suf]}
             ELSE {}
    BY <1>2, <1>3, <1>4, <2>1, Searched
  <2>3. k # Len(f.body)
    <3> DEFINE r == [name |-> f.tag.id, body |-> Bld!Trim(BreaksTo(f.body, k)), behind |-> f.suf]
    <3>1. k = Len(f.body) => Bld!BlockIn(aux) = {r}
      BY <2>2, Zenon
    <3> HIDE DEF r
    <3> QED BY <1>1, <3>1
  <2> QED BY <2>2, <2>3 DEF f
<1>6. /\ Reached(Bld!BaseElems, m) \in Nat
      /\ Reached(Bld!BaseElems, m + 1) = Reached(Bld!BaseElems, m) + Len(Bld!LinesOf(e))
      /\ Reached(Bld!BaseElems, m + 1) <= Len(base)
      /\ \A j \in 1..Len(Bld!LinesOf(e)) :
           base[Reached(Bld!BaseElems, m) + j] = Bld!LinesOf(e)[j]
  BY <1>2, <1>4, BaseAt
<1>7. /\ Len(Bld!LinesOf(e)) = Len(e.body)
      /\ \A j \in 1..Len(e.body) : j # 1 => Bld!LinesOf(e)[j] = Rest(e, j, e.body[j])
  BY <1>5, LineBlock
<1>8. k \in Nat /\ k + 1 \in 1..Len(e.body) /\ k + 1 # 1 /\ k \in 1..(Len(e.body) - 1)
  BY <1>5
<1>9. /\ pos = Reached(Bld!BaseElems, m) + k
      /\ aux = Around(e.pre, tag, Rest(e, k, mid))
      /\ Toks(out) = PageTo(m) \o Bld!Literal(e.pre)
  BY <1>3 DEF SearchedTo
<1>10. pos < Len(base) /\ pos + 1 = Reached(Bld!BaseElems, m) + (k + 1)
  <2> DEFINE r == Reached(Bld!BaseElems, m)
             l == Len(e.body)
             f == Len(base)
  <2>1. r \in Nat /\ l \in Nat /\ r + l <= f /\ k \in 1..(l - 1) /\ pos = r + k
    BY <1>5, <1>6, <1>7, <1>8, <1>9
  <2>2. f \in Nat
    BY <1>4, FixedTypes
  <2> HIDE DEF r, l, f
  <2>3. pos < f /\ pos + 1 = r + (k + 1)
    BY <2>1, <2>2
  <2> QED BY <2>3 DEF r, f
<1>11. aux' = aux \o <<Bld!Break>> \o Bld!Line /\ pos' = pos + 1 /\ UNCHANGED stage
  BY <1>10 DEF Bld!SearchBlock
<1>12. base[pos + 1] = Rest(e, k + 1, b)
  BY <1>6, <1>7, <1>8, <1>10
<1>13. /\ e.pre \in Seq(Bld!Token) /\ e.suf \in Seq(PlainTokens) /\ tag \in Bld!Token
       /\ e.body \in Seq(Seq(Bld!Token))
       /\ brk \in Seq(Bld!Token) /\ Bld!CloseTag \in Bld!Token /\ Bld!CloseTag.tag = "close"
  BY <1>5, SoundParts, TagTokens, BreakClean, Concats
<1>14. b \in Seq(PlainTokens) /\ b \in Seq(Bld!Token)
  BY <1>5, <1>8, BodyParts
<1> HIDE DEF mid, tag, brk, b
<1>15. Bld!Line = Rest(e, k + 1, b)
  <2> DEFINE tags == {"quoting"}
  <2>1. "text" \notin tags /\ "percent" \notin tags /\ "close" \notin tags
    OBVIOUS
  <2> HIDE DEF tags, e
  <2>2. Seq(PlainTokens) \subseteq Seq(Clean(tags)) /\ Bld!CloseTag \in Clean(tags)
    BY <1>13, <2>1, PlainClean DEF Clean
  <2>3. Rest(e, k + 1, b) \in Seq(Clean(tags))
    <3>1. Around(b, Bld!CloseTag, e.suf) \in Seq(Clean(tags))
      BY <1>13, <1>14, <2>2, AroundParts
    <3> QED BY <1>14, <2>2, <3>1 DEF Rest
  <2>4. Bld!Escaped(Rest(e, k + 1, b)) = Rest(e, k + 1, b)
    BY <2>3, EscapedSame DEF tags
  <2> QED BY <1>12, <2>4 DEF Bld!Line
<1>16. BreaksTo(e.body, k + 1) = mid \o (brk \o b)
  <2> DEFINE body == e.body
  <2>1. body \in Seq(Seq(Bld!Token)) /\ Len(body) # 0 /\ k \in 1..(Len(body) - 1) /\ Bld!Break \in Bld!Token
    BY <1>5, <1>8, <1>13, BreakClean
  <2> HIDE DEF body
  <2>2. BreaksTo(body, k + 1) = BreaksTo(body, k) \o (<<Bld!Break>> \o body[k + 1])
    BY <2>1, BreaksNext
  <2> QED BY <2>2 DEF body, mid, brk, b
<1>17. aux' = Around(e.pre, tag, Rest(e, k + 1, BreaksTo(e.body, k + 1)))
  <2> DEFINE p == e.pre
             line == Rest(e, k + 1, b)
  <2>1. p \in Seq(Bld!Token) /\ line \in Seq(Bld!Token)
    BY <1>5, <1>13, <1>14, RestType
  <2>2. aux = Around(p, tag, mid) /\ aux' = (aux \o brk) \o line
    BY <1>5, <1>9, <1>11, <1>15 DEF Rest, brk
  <2> HIDE DEF p, line, e
  <2>3. Widens(p, tag, mid, brk)
    BY <1>5, <1>13, <2>1, AroundRow, Zenon
  <2>4. mid \o brk \in Seq(Bld!Token)
    BY <1>5, <1>13, Concats
  <2>5. Widens(p, tag, mid \o brk, line)
    BY <1>13, <2>1, <2>4, AroundRow, Zenon
  <2>6. aux' = Around(p, tag, (mid \o brk) \o line)
    BY <2>2, <2>3, <2>5 DEF Widens
  <2>7. (mid \o brk) \o b = mid \o (brk \o b)
    <3>1. Regroups(mid, brk, b)
      BY <1>5, <1>13, <1>14, InRow, Zenon
    <3> QED BY <3>1, Zenon DEF Regroups
  <2> DEFINE far == mid \o brk
  <2> HIDE DEF far
  <2>8. far \in Seq(Bld!Token)
    BY <2>4 DEF far
  <2>9. far \o Rest(e, k + 1, b) = Rest(e, k + 1, far \o b)
    <3>1. RestGrows(e, k + 1, far, b)
      BY <1>5, <1>14, <2>8, RestRow, Zenon
    <3> QED BY <3>1, Zenon DEF RestGrows
  <2> QED BY <1>16, <2>6, <2>7, <2>9 DEF p, line, far
<1>18. SearchedTo(m, k + 1)'
  <2>1. pos' = Reached(Bld!BaseElems, m) + (k + 1) /\ Toks(out') = PageTo(m) \o Bld!Literal(e.pre)
    BY <1>1, <1>9, <1>10, <1>11
  <2>2. Bld!BaseElems[m + 1]' = e /\ Reached(Bld!BaseElems, m)' = Reached(Bld!BaseElems, m)
        /\ PageTo(m)' = PageTo(m)
    BY <1>1, PageKept DEF Reached, JoinedTo
  <2>3. aux' = Around(e.pre, Bld!OpenTag(e.tag.id), Rest(e, k + 1, BreaksTo(e.body, k + 1)))
    BY <1>17 DEF tag
  <2>4. e.tag.tag = "block"
    BY <1>5
  <2> HIDE DEF e
  <2> QED BY <2>1, <2>2, <2>3, <2>4 DEF SearchedTo, Toks, TextsIn
<1>19. m \in 0..(Len(Bld!BaseElems)' - 1) /\ k + 1 \in 1..Len(Bld!BaseElems[m + 1].body)'
  <2>1. Bld!BaseElems' = Bld!BaseElems
    BY <1>1, PageKept
  <2> QED BY <1>2, <1>8, <2>1
<1>20. \A n \in Names : mp'[n] = Bld!Override(n)'
  BY <1>1, PageKept DEF Right, MapFilled
<1> QED BY <1>1, <1>11, <1>18, <1>19, <1>20
        DEF Right, Begun, Collecting, MapFilled, PageBegun, Searching, Finished

\* The whole block is there: what stands for it is written.
LEMMA RightBlock ==
    ASSUME CompilerInv, Bld!SoundPage, Right, Bld!CompileBlock
    PROVE  Right'
<1>1. /\ stage = "search" /\ stage' = "compile" /\ aux' = <<>>
      /\ UNCHANGED <<given, inc, child, base, pos, mp>>
  BY DEF Bld!CompileBlock
<1>2. PICK b \in Bld!BlockIn(aux) :
        \E s \in {b.behind} \cup (IF mp[b.name] # <<>> /\ b.behind # <<>> THEN {<<Bld!Junk>>} ELSE {}) :
            out' = out \o Bld!Filled(b.name, b.body) \o Bld!WithNewline(s)
  BY DEF Bld!CompileBlock
<1>3. PICK s : /\ s = b.behind \/ (mp[b.name] # <<>> /\ b.behind # <<>>)
               /\ out' = out \o Bld!Filled(b.name, b.body) \o Bld!WithNewline(s)
  BY <1>2
<1>4. PICK m \in 0..(Len(Bld!BaseElems) - 1) :
        \E k \in 1..Len(Bld!BaseElems[m + 1].body) : SearchedTo(m, k)
  BY <1>1 DEF Right, Searching
<1> DEFINE e == Bld!BaseElems[m + 1]
<1>5. PICK k \in 1..Len(e.body) : SearchedTo(m, k)
  BY <1>4
<1>6. e = Bld!BaseElems[m + 1] /\ Fixed
  BY DEF CompilerInv
<1>7. SearchedTo(m, k) => /\ pos = Reached(Bld!BaseElems, m) + k
                          /\ Toks(out) = PageTo(m) \o Bld!Literal(e.pre)
  BY DEF SearchedTo
<1> HIDE DEF e
<1> DEFINE mid == BreaksTo(e.body, k)
           r == [name |-> e.tag.id, body |-> Bld!Trim(mid), behind |-> e.suf]
<1>8. /\ e \in Bld!Element /\ Bld!Sound(e) /\ e.tag.tag = "block" /\ Len(e.body) \in Nat \ {0}
      /\ mid \in Seq(Bld!Token)
      /\ Bld!BlockIn(aux) = IF k = Len(e.body) THEN {r} ELSE {}
  BY <1>4, <1>5, <1>6, Searched
<1>9. k = Len(e.body) /\ b = r
  <2> HIDE DEF r
  <2> QED BY <1>2, <1>8
<1>10. /\ e.pre \in Seq(Bld!Token) /\ e.suf \in Seq(Bld!Token) /\ e.tag.id \in Names
       /\ e.body \in Seq(Seq(Bld!Token)) /\ Bld!Break \in Bld!Token
  BY <1>8, SoundParts, BreakClean
<1>11. b.name = e.tag.id /\ b.behind = e.suf /\ b.body = Default(e)
  <2>1. b.name = e.tag.id /\ b.behind = e.suf /\ b.body = Bld!Trim(mid)
    BY <1>9
  <2> DEFINE body == e.body
  <2>2. body \in Seq(Seq(Bld!Token)) /\ Len(body) # 0
    BY <1>8, <1>10
  <2> HIDE DEF body
  <2>3. Bld!WithBreaks(body) = Bld!Trim(BreaksTo(body, Len(body)))
    BY <1>10, <2>2, BreaksNext
  <2> QED BY <1>8, <1>9, <2>1, <2>3 DEF Default, body
<1>12. mp \in [Names -> Seq(Bld!Token)] /\ mp[e.tag.id] = Bld!Override(e.tag.id)
  BY <1>1, <1>10 DEF Right, MapFilled, CompilerInv, Filling
<1>13. s = e.suf
  <2>1. Bld!Override(e.tag.id) # <<>> => e.suf = <<>>
    <3>1. m + 1 \in 1..Len(Bld!BaseElems)
      <4>1. Bld!BaseElems \in Seq(Bld!Element)
        BY <1>6, ElemsTyped
      <4> QED BY <1>4, <4>1
    <3> QED BY <1>6, <1>8, <3>1, SoundIs DEF Sounding
  <2> QED BY <1>3, <1>11, <1>12, <2>1
<1> DEFINE default == Default(e)
           filled == Bld!Filled(e.tag.id, default)
           behind == Bld!WithNewline(e.suf)
<1>14. default \in Seq(Bld!Token)
  BY <1>6, <1>8, OwnType
<1> HIDE DEF mid, r, default
<1>15. Toks(filled) = Own(e) /\ filled \in Seq(Good)
  <2>1. Toks(filled) = IF mp[e.tag.id] # <<>> THEN mp[e.tag.id] ELSE default
    BY <1>10, <1>12, <1>14, ToksFilled
  <2>2. filled \in Seq(Good)
    BY <1>10, <1>12, <1>14, FilledType
  <2> QED BY <1>12, <2>1, <2>2 DEF Own, default
<1>16. Toks(behind) = Lined(e.suf) /\ behind \in Seq(Good) /\ out \in Seq(Good)
  BY <1>10, ToksMade, Statemented DEF Lined, CompilerInv, Making
<1>17. out' = out \o filled \o behind
  BY <1>3, <1>11, <1>13 DEF default
<1> HIDE DEF filled, behind
<1>18. InTurn(out, filled, behind, behind)
  BY <1>15, <1>16, ToksThree, Zenon
<1> DEFINE page == PageTo(m)
           lit == Bld!Literal(e.pre)
           own == Own(e)
           line == Lined(e.suf)
<1>19. page \in Seq(Bld!Token) /\ lit \in Seq(Bld!Token) /\ own \in Seq(Bld!Token) /\ line \in Seq(Bld!Token)
  <2>1. m \in 0..Len(Bld!BaseElems)
    <3>1. Bld!BaseElems \in Seq(Bld!Element)
      BY <1>6, ElemsTyped
    <3>2. Len(Bld!BaseElems) \in Nat
      BY <3>1
    <3> QED BY <1>4, <3>2
  <2> QED BY <1>6, <1>8, <1>10, <2>1, PageNext, LinedType, OwnType
<1>20. PageTo(m + 1) = page \o Bld!Rendered(e) /\ Bld!Rendered(e) = lit \o own \o line
  BY <1>4, <1>6, <1>8, PageNext, RenderedIs DEF e
<1>21. Toks(out') = (page \o lit) \o (own \o line)
  BY <1>5, <1>7, <1>15, <1>16, <1>17, <1>18 DEF InTurn
<1> HIDE DEF page, lit, own, line
<1>22. (page \o lit) \o (own \o line) = page \o (lit \o (own \o line)) /\ (lit \o own) \o line = lit \o (own \o line)
  <2> DEFINE far == own \o line
  <2>1. far \in Seq(Bld!Token)
    BY <1>19, Concats
  <2> HIDE DEF far
  <2>2. (page \o lit) \o far = page \o (lit \o far)
    <3>1. Regroups(page, lit, far)
      BY <1>19, <2>1, InRow, Zenon
    <3> QED BY <3>1, Zenon DEF Regroups
  <2>3. (lit \o own) \o line = lit \o (own \o line)
    <3>1. Regroups(lit, own, line)
      BY <1>19, InRow, Zenon
    <3> QED BY <3>1, Zenon DEF Regroups
  <2> QED BY <2>2, <2>3 DEF far
<1>23. Toks(out') = PageTo(m + 1)
  BY <1>20, <1>21, <1>22, Zenon
<1>24. pos' = Reached(Bld!BaseElems, m + 1)
  <2>1. Reached(Bld!BaseElems, m + 1) = Reached(Bld!BaseElems, m) + Len(Bld!LinesOf(e))
    BY <1>4, <1>6, BaseAt
  <2>2. Len(Bld!LinesOf(e)) = Len(e.body)
    BY <1>8, LineBlock
  <2> QED BY <1>1, <1>5, <1>7, <1>9, <2>1, <2>2
<1>25. CompiledTo(m + 1)'
  <2>1. Reached(Bld!BaseElems, m + 1)' = Reached(Bld!BaseElems, m + 1)
    BY <1>1, PageKept DEF Reached, JoinedTo
  <2>2. PageTo(m + 1)' = PageTo(m + 1)
    BY <1>1, PageKept
  <2> QED BY <1>23, <1>24, <2>1, <2>2 DEF CompiledTo, Toks, TextsIn
<1>26. m + 1 \in 0..Len(Bld!BaseElems)'
  <2>1. Bld!BaseElems \in Seq(Bld!Element)
    BY <1>6, ElemsTyped
  <2>2. Len(Bld!BaseElems) \in Nat
    BY <2>1
  <2>3. Len(Bld!BaseElems)' = Len(Bld!BaseElems)
    BY <1>1, PageKept
  <2> QED BY <1>4, <2>2, <2>3
<1>27. \A n \in Names : mp'[n] = Bld!Override(n)'
  BY <1>1, PageKept DEF Right, MapFilled
<1>28. out' \in Seq(Plainly)
  <2>1. e.suf \in Apart
    BY <1>8, SoundParts, PlainApart
  <2>2. behind \in Seq(Plainly)
    BY <2>1, PlainlyMade DEF behind
  <2>3. filled \in Seq(Plainly)
    BY <1>6, <1>8, <1>12, PlainlyFilled DEF filled, default
  <2>4. out \in Seq(Plainly)
    BY DEF Right
  <2> QED BY <1>17, <2>2, <2>3, <2>4, Concats
<1> QED BY <1>1, <1>25, <1>26, <1>27, <1>28
        DEF Right, Begun, Collecting, MapFilled, PageBegun, Searching, Finished

LEMMA RightCompileEnds ==
    ASSUME CompilerInv, Bld!SoundPage, Right, Bld!CompileEnds
    PROVE  Right'
<1>1. /\ stage = "compile" /\ pos = Len(base) /\ stage' = "done"
      /\ UNCHANGED <<given, inc, child, base, pos, aux, mp, out>>
  BY DEF Bld!CompileEnds
<1>2. PICK m \in 0..Len(Bld!BaseElems) : CompiledTo(m)
  BY <1>1 DEF Right, PageBegun
<1>3. Fixed
  BY DEF CompilerInv
<1>4. m = Len(Bld!BaseElems)
  BY <1>1, <1>2, <1>3, BaseMore DEF CompiledTo
<1>5. Toks(out) = Bld!Page
  BY <1>2, <1>3, <1>4, PageNext DEF CompiledTo
<1>6. Toks(out)' = Bld!Page'
  BY <1>1, <1>5, PageKept DEF Toks, TextsIn
<1>7. \A n \in Names : mp'[n] = Bld!Override(n)'
  BY <1>1, PageKept DEF Right, MapFilled
<1> QED BY <1>1, <1>6, <1>7
        DEF Right, Begun, Collecting, MapFilled, PageBegun, Searching, Finished

LEMMA RightNext == CompilerInv /\ Right /\ Bld!Next => Right'
<1> SUFFICES ASSUME CompilerInv, Right, Bld!Next PROVE Right'
  OBVIOUS
<1>1. UNCHANGED <<given, inc>>
  BY DEF Bld!Next, Bld!Refuse, Bld!Open, Bld!Collect, Bld!CollectEnds, Bld!CompileVariable,
         Bld!CompileCode, Bld!CompileComment, Bld!CompileText, Bld!CompileAttr, Bld!CompileTag,
         Bld!SearchBlock, Bld!CompileBlock, Bld!CompileEnds, Bld!Compiling
<1>2. CASE ~Bld!SoundPage
  BY <1>1, <1>2, PageKept DEF Right
<1>3. CASE Bld!SoundPage
  BY <1>3, RightRefuse, RightOpen, RightCollect, RightCollectEnds, RightVariable, RightCode,
     RightComment, RightText, RightAttr, RightTag, RightSearch, RightBlock, RightCompileEnds
     DEF Bld!Next
<1> QED BY <1>2, <1>3

LEMMA RightStutter == Right /\ UNCHANGED compiler => Right'
<1> SUFFICES ASSUME Right, UNCHANGED compiler PROVE Right'
  OBVIOUS
<1>1. UNCHANGED <<given, inc, child, base, stage, pos, aux, mp, out>>
  BY DEF compiler
<1>2. /\ Bld!SoundPage' = Bld!SoundPage /\ Bld!BaseElems' = Bld!BaseElems
      /\ Bld!Inherits' = Bld!Inherits /\ Bld!Page' = Bld!Page
      /\ \A m : PageTo(m)' = PageTo(m)
      /\ \A n : Bld!Override(n)' = Bld!Override(n)
      /\ \A n, m : OverrideAt(n, m)' = OverrideAt(n, m)
  BY <1>1, PageKept
<1>3. /\ Begun' = Begun
      /\ Toks(out)' = Toks(out)
      /\ \A m : Reached(given.elems, m)' = Reached(given.elems, m)
      /\ \A m : Reached(Bld!BaseElems, m)' = Reached(Bld!BaseElems, m)
  BY <1>1, <1>2 DEF Begun, Toks, TextsIn, Reached, JoinedTo
<1>4. MapFilled' = MapFilled /\ Finished' = Finished
  BY <1>1, <1>2, <1>3 DEF MapFilled, Finished
<1>5. \A m : Gave(m)' = Gave(m)
  BY <1>1, <1>2 DEF Gave
<1>6. ASSUME NEW m PROVE CompiledTo(m)' = CompiledTo(m)
  <2>1. pos' = pos /\ Reached(Bld!BaseElems, m)' = Reached(Bld!BaseElems, m)
        /\ Toks(out)' = Toks(out) /\ PageTo(m)' = PageTo(m)
    BY <1>1, <1>2, <1>3, Zenon
  <2> QED BY <2>1, Zenon DEF CompiledTo
<1>7. ASSUME NEW m, NEW k PROVE SearchedTo(m, k)' = SearchedTo(m, k)
  <2>1. pos' = pos /\ aux' = aux /\ Bld!BaseElems' = Bld!BaseElems
        /\ Reached(Bld!BaseElems, m)' = Reached(Bld!BaseElems, m)
        /\ Toks(out)' = Toks(out) /\ PageTo(m)' = PageTo(m)
    BY <1>1, <1>2, <1>3, Zenon
  <2> QED BY <2>1 DEF SearchedTo, Around, Rest, BreaksTo, Broken
<1>8. \A m : Beside(m)' = Beside(m)
  BY <1>1, <1>3 DEF Beside, Aside, Clean
<1>9. \A m, k, q : Inside(m, k, q)' = Inside(m, k, q)
  BY <1>1, <1>3 DEF Inside, JoinedTo, Aside, Clean, Around, Rest
<1>10. \A m : Collected(m)' = Collected(m)
  BY <1>1, <1>8, <1>9 DEF Collected, Aside, Clean
<1>11. Collecting' = Collecting
  BY <1>1, <1>2, <1>5, <1>10 DEF Collecting
<1>12. PageBegun' = PageBegun /\ Searching' = Searching
  BY <1>1, <1>2, <1>6, <1>7 DEF PageBegun, Searching
<1> QED BY <1>1, <1>2, <1>3, <1>4, <1>11, <1>12 DEF Right

LEMMA RightInit == Bld!Init => Right
BY DEF Bld!Init, Right, Begun, Collecting, MapFilled, PageBegun, Searching, Finished

LEMMA RightStep == CspInv /\ Right /\ [CspNext]_cspVars => Right'
<1> SUFFICES ASSUME CspInv, Right, [CspNext]_cspVars PROVE Right'
  OBVIOUS
<1>1. ASSUME Compile PROVE Right'
  BY <1>1, RightNext DEF Compile, CspInv
<1>2. ASSUME ~Compile PROVE Right'
  BY <1>2, RightStutter DEF CspNext, DoGet, AppendOwn, cspVars
<1> QED BY <1>1, <1>2

\* The servlet made of a template whose tags are what they seem appends what the elements
\* of its base stand for, each once and in order, with the blocks and attributes of the
\* template in the place of the base's (builder.cc:54-198), for templates and bases of
\* any length and names used any number of times, when no block has text on more than one
\* of its lines.
THEOREM CompiledRight == CspSpec => []PageCompiled
<1> DEFINE Inv == CspInv /\ Right
<1>1. CspInit => Inv
  BY CspStart, RightInit DEF CspInit
<1>2. Inv /\ [CspNext]_cspVars => Inv'
  BY CspStep, RightStep
<1>3. Inv => PageCompiled
  BY DEF Right, Finished, Toks, TextsIn, PageCompiled, Bld!PageCompiled, Bld!Written
<1> QED BY <1>1, <1>2, <1>3, PTL DEF CspSpec

-----------------------------------------------------------------------------
(* What a servlet printed is what the statements it executed print. *)

Lengths == [k \in 1..Steps |-> StepAt(k).n]
Printing ==
    /\ servlet = "generated" /\ stage # "done" => length = 0
    /\ (servlet \in Pages \/ (servlet = "generated" /\ stage = "done")) /\ Straight
        => length = SumTo(Lengths, step)

\* A page written by hand has no code.
LEMMA HandStraight == servlet \in Pages => Straight
<1> SUFFICES ASSUME servlet \in Pages, NEW k \in 1..Steps, IsCode(k) PROVE FALSE
  BY DEF Straight
<1>1. StepAt(k) = HandStep(servlet, k)
  BY DEF StepAt
<1>2. \E n : HandStep(servlet, k) \in {Statement("text", n), Statement("int", n)}
  BY Zenon DEF HandStep
<1> QED BY <1>1, <1>2 DEF Statement, IsCode

LEMMA StepsNumber == CspInv => Steps \in Nat
<1> SUFFICES ASSUME CspInv PROVE Steps \in Nat
  OBVIOUS
<1>1. CASE servlet \in Pages
  <2>1. Len(RoundOf(servlet)) \in Nat /\ Rounds[servlet] \in Nat
    BY <1>1, CspAssumption DEF RoundOf
  <2> QED BY <1>1, <2>1 DEF Steps, HandSteps
<1>2. CASE servlet \notin Pages
  <2>1. Len(out) \in Nat
    BY DEF CspInv, CompilerInv, Making
  <2> QED BY <1>2, <2>1 DEF Steps
<1> QED BY <1>1, <1>2

LEMMA LengthsKept == UNCHANGED <<servlet, out>> => Lengths' = Lengths
<1> SUFFICES ASSUME UNCHANGED <<servlet, out>> PROVE Lengths' = Lengths
  OBVIOUS
<1>1. Steps' = Steps
  BY StepsKept
<1>2. \A k : StepAt(k)' = StepAt(k)
  BY DEF StepAt
<1> QED BY <1>1, <1>2 DEF Lengths

LEMMA StraightKept == UNCHANGED <<servlet, out>> => Straight' = Straight
<1> SUFFICES ASSUME UNCHANGED <<servlet, out>> PROVE Straight' = Straight
  OBVIOUS
<1>1. Steps' = Steps
  BY StepsKept
<1>2. \A k : IsCode(k)' = IsCode(k)
  BY <1>1 DEF IsCode, StepAt
<1> QED BY <1>1, <1>2 DEF Straight

LEMMA PrintingDoGet == CspInv /\ Printing /\ DoGet => Printing'
<1> SUFFICES ASSUME CspInv, Printing, DoGet, Straight, UNCHANGED <<servlet, out, stage>>
             PROVE  Printing'
  <2>1. ASSUME CspInv, DoGet
        PROVE  /\ UNCHANGED <<servlet, out, stage>>
               /\ servlet \in Pages \/ (servlet = "generated" /\ stage = "done")
    BY <2>1, DoGetPrints DEF compiler, DoGet
  <2>2. ASSUME CspInv, DoGet, ~Straight PROVE Printing'
    BY <2>1, <2>2, StraightKept DEF Printing, Pages
  <2> QED BY <2>1, <2>2
<1> DEFINE s == StepAt(step + 1)
<1>1. step + 1 \in 1..Steps /\ UNCHANGED <<compiler, servlet>> /\ step' = step + 1
  BY DoGetPrints
<1>2. UNCHANGED <<servlet, out, stage>>
  OBVIOUS
<1>3. s.n \in Nat /\ s.kind # "code"
  BY <1>1, StepTyped DEF Straight, IsCode
<1>4. length \in Nat
  BY DEF CspInv, TypeOK
<1>5. length' = length + s.n
  <2>1. \/ s.kind = "text" /\ AppendText(s.n, s.n)
        \/ s.kind = "int" /\ AppendNumber("int", s.n)
        \/ s.kind = "code" /\ UNCHANGED vars
    BY DEF DoGet
  <2> HIDE DEF s
  <2> QED BY <1>3, <2>1 DEF AppendText, AppendNumber, Printed
<1>6. step \in Nat /\ \A k \in 1..(step + 1) : k \in 1..Steps
  BY <1>1, StepsNumber DEF CspInv, Serving
<1>7. \A k \in 1..(step + 1) : Lengths[k] = StepAt(k).n /\ Lengths[k] \in Nat
  BY <1>6, StepTyped DEF Lengths
<1>8. SumTo(Lengths, step + 1) = SumTo(Lengths, step) + Lengths[step + 1] /\ Lengths[step + 1] = s.n
  <2> DEFINE w == Lengths
  <2>1. \A k \in 1..(step + 1) : w[k] \in Nat
    BY <1>7
  <2>2. w[step + 1] = s.n
    BY <1>6, <1>7
  <2> HIDE DEF w
  <2>3. SumTo(w, step + 1) = SumTo(w, step) + w[step + 1]
    BY <1>6, <2>1, SumNext
  <2> QED BY <2>2, <2>3 DEF w
<1>9. servlet \in Pages \/ (servlet = "generated" /\ stage = "done")
  BY DEF DoGet
<1>10. length = SumTo(Lengths, step)
  BY <1>9 DEF Printing
<1>11. Lengths' = Lengths
  BY <1>2, LengthsKept
<1>12. length' = SumTo(Lengths', step')
  BY <1>1, <1>5, <1>8, <1>10, <1>11
<1> QED BY <1>2, <1>9, <1>12 DEF Printing, Pages

LEMMA PrintingNext == CspInv /\ Printing /\ [CspNext]_cspVars => Printing'
<1> SUFFICES ASSUME CspInv, Printing, [CspNext]_cspVars PROVE Printing'
  OBVIOUS
<1>1. ASSUME Compile PROVE Printing'
  <2>1. servlet = "generated" /\ Bld!Next /\ UNCHANGED <<length, servlet, step>>
    BY <1>1 DEF Compile, vars
  <2>2. stage # "done"
    BY <2>1 DEF Bld!Next, Bld!Refuse, Bld!Open, Bld!Collect, Bld!CollectEnds, Bld!CompileVariable,
                Bld!CompileCode, Bld!CompileComment, Bld!CompileText, Bld!CompileAttr,
                Bld!CompileTag, Bld!SearchBlock, Bld!CompileBlock, Bld!CompileEnds, Bld!Compiling
  <2>3. length' = 0 /\ step' = 0
    BY <2>1, <2>2 DEF Printing, CspInv, Serving
  <2>4. SumTo(Lengths', step') = 0
    BY <2>3, SumFirst
  <2> QED BY <2>1, <2>3, <2>4 DEF Printing, Pages
<1>2. ASSUME AppendOwn PROVE Printing'
  <2>1. servlet = "own" /\ servlet' = servlet
    BY <1>2 DEF AppendOwn
  <2> QED BY <2>1 DEF Printing, Pages
<1>3. ASSUME UNCHANGED cspVars PROVE Printing'
  <2>1. UNCHANGED <<length, servlet, step, stage, out>>
    BY <1>3 DEF cspVars, vars, compiler
  <2>2. Lengths' = Lengths /\ Straight' = Straight
    BY <2>1, LengthsKept, StraightKept
  <2> QED BY <2>1, <2>2 DEF Printing
<1> QED BY <1>1, <1>2, <1>3, PrintingDoGet DEF CspNext

LEMMA PrintingInit == CspInit => Printing
<1> SUFFICES ASSUME CspInit PROVE Printing
  OBVIOUS
<1>1. step = 0 /\ (servlet # "own" => length = 0)
  BY DEF CspInit
<1>2. SumTo(Lengths, step) = 0
  BY <1>1, SumFirst
<1> QED BY <1>1, <1>2 DEF Printing, Pages

-----------------------------------------------------------------------------
(* What all the statements print: of a page that was compiled, what its tokens *)
(* show; of a page written by hand, a character more for every power of ten    *)
(* that a number reaches.                                                      *)

LEMMA PlainlySum ==
    ASSUME NEW o \in Seq(Plainly), NEW w, \A k \in 1..Len(o) : w[k] = GeneratedStep(o[k]).n
    PROVE  SumTo(w, Len(o)) = ShownWidth(Toks(o))
<1> DEFINE ss == TextsIn(o)
           n == Len(o)
<1>1. /\ o \in Seq(Good) /\ n \in Nat /\ \A k \in 1..n : o[k] \in Plainly
  BY PlainlyGood
<1>2. ss \in Seq(Seq(Bld!Token)) /\ Len(ss) = n /\ \A k \in 1..n : ss[k] = o[k].toks
  BY <1>1, TextsType
<1>3. Bld!Joined(ss) = Toks(o)
  BY DEF Toks
<1>4. \A k \in 1..n : w[k] = ShownWidth(ss[k]) /\ ss[k] \in Seq(Bld!Token)
  BY <1>1, <1>2 DEF Plainly
<1> HIDE DEF ss, n
<1>5. \A k \in 1..n : w[k] \in Nat
  BY <1>4, ShowsType
<1> DEFINE J(m) == JoinedTo(ss, m)
<1>6. /\ J(0) = <<>> /\ J(n) = Bld!Joined(ss) /\ \A m \in 0..n : J(m) \in Seq(Bld!Token)
      /\ \A m \in 0..(n - 1) : J(m + 1) = J(m) \o ss[m + 1]
  BY <1>2, JoinedParts
<1> HIDE DEF J
<1> DEFINE T == {m \in Nat : m <= n => SumTo(w, m) = ShownWidth(J(m))}
<1>7. 0 \in T
  <2>1. SumTo(w, 0) = 0
    BY SumFirst
  <2>2. <<>> \in Seq(Bld!Token) /\ Len(<<>>) = 0
    BY Concats
  <2>3. ShownWidth(<<>>) = SumTo(Shows(<<>>), 0)
    BY <2>2, ShowsType
  <2>4. SumTo(Shows(<<>>), 0) = 0
    BY SumFirst
  <2> QED BY <1>6, <2>1, <2>3, <2>4
<1>8. ASSUME NEW m \in Nat, m \in T PROVE m + 1 \in T
  <2>1. SUFFICES ASSUME m + 1 <= n PROVE SumTo(w, m + 1) = ShownWidth(J(m + 1))
    OBVIOUS
  <2>2. m \in 0..n /\ m \in 0..(n - 1) /\ m + 1 \in 1..n /\ \A k \in 1..(m + 1) : k \in 1..n
    BY <1>1, <2>1
  <2>3. SumTo(w, m + 1) = SumTo(w, m) + w[m + 1]
    BY <1>5, <2>2, SumNext
  <2>4. ShownWidth(J(m) \o ss[m + 1]) = ShownWidth(J(m)) + ShownWidth(ss[m + 1])
    BY <1>4, <1>6, <2>2, ShownRow
  <2>5. SumTo(w, m) = ShownWidth(J(m)) /\ w[m + 1] = ShownWidth(ss[m + 1]) /\ J(m + 1) = J(m) \o ss[m + 1]
    BY <1>4, <1>6, <1>8, <2>1, <2>2
  <2> QED BY <2>3, <2>4, <2>5
<1>9. n \in T
  <2> HIDE DEF T
  <2> QED BY <1>1, <1>7, <1>8, Inductive
<1>10. SumTo(w, n) = ShownWidth(J(n))
  BY <1>1, <1>9
<1> QED BY <1>3, <1>6, <1>10 DEF n

\* The powers of ten a number reaches.
LEMMA TensPower == \A i \in 1..9 : Tens[i] = Pow(10, i)
<1>1. Pow(10, 0) = 1
  <2>1. 10 \in Nat \ {0}
    OBVIOUS
  <2> QED BY <2>1, PowZero
<1>2. \A n \in Nat : Pow(10, n + 1) = 10 * Pow(10, n)
  BY TenPower
<1>3. \A n \in 0..8 : n \in Nat
  OBVIOUS
<1>4. Pow(10, 1) = 10 /\ Pow(10, 2) = 100 /\ Pow(10, 3) = 1000
  <2>1. Pow(10, 0 + 1) = 10 * Pow(10, 0) /\ Pow(10, 1 + 1) = 10 * Pow(10, 1) /\ Pow(10, 2 + 1) = 10 * Pow(10, 2)
    BY <1>2
  <2> QED BY <1>1, <2>1
<1>5. Pow(10, 4) = 10000 /\ Pow(10, 5) = 100000 /\ Pow(10, 6) = 1000000
  <2>1. Pow(10, 3 + 1) = 10 * Pow(10, 3) /\ Pow(10, 4 + 1) = 10 * Pow(10, 4) /\ Pow(10, 5 + 1) = 10 * Pow(10, 5)
    BY <1>2
  <2> QED BY <1>4, <2>1
<1>6. Pow(10, 7) = 10000000 /\ Pow(10, 8) = 100000000 /\ Pow(10, 9) = 1000000000
  <2>1. Pow(10, 6 + 1) = 10 * Pow(10, 6) /\ Pow(10, 7 + 1) = 10 * Pow(10, 7) /\ Pow(10, 8 + 1) = 10 * Pow(10, 8)
    BY <1>2
  <2> QED BY <1>5, <2>1
<1>7. \A i \in 1..9 : i = 1 \/ i = 2 \/ i = 3 \/ i = 4 \/ i = 5 \/ i = 6 \/ i = 7 \/ i = 8 \/ i = 9
  OBVIOUS
<1>8. /\ Tens[1] = 10 /\ Tens[2] = 100 /\ Tens[3] = 1000 /\ Tens[4] = 10000 /\ Tens[5] = 100000
      /\ Tens[6] = 1000000 /\ Tens[7] = 10000000 /\ Tens[8] = 100000000 /\ Tens[9] = 1000000000
  BY DEF Tens
<1> QED BY <1>4, <1>5, <1>6, <1>7, <1>8

Reaches(n) == {d \in 0..9 : d = 0 \/ n >= Pow(10, d)}

LEMMA DigitsReach == \A n : IsFiniteSet(Reaches(n)) /\ Cardinality(Reaches(n)) = Digits(n)
<1> TAKE n
<1> DEFINE W == {w \in 1..9 : n >= Tens[w]}
<1>1. W \in SUBSET (1..9)
  OBVIOUS
<1>2. IsFiniteSet(1..9)
  <2>1. 1 \in Int /\ 9 \in Int
    OBVIOUS
  <2> QED BY <2>1, FS_Interval
<1>3. IsFiniteSet(W)
  <2> HIDE DEF W
  <2> QED BY <1>1, <1>2, FS_Subset
<1>4. Reaches(n) = W \cup {0}
  <2>1. \A d : d \in 0..9 <=> d = 0 \/ d \in 1..9
    OBVIOUS
  <2>2. \A d \in 1..9 : d # 0 /\ (n >= Tens[d] <=> n >= Pow(10, d))
    BY TensPower
  <2>3. \A d : d \in Reaches(n) <=> d \in W \cup {0}
    BY <2>1, <2>2, Zenon DEF Reaches
  <2> QED BY <2>3
<1>5. 0 \notin W
  BY <1>1
<1>6. Digits(n) = 1 + Cardinality(W)
  BY DEF Digits
<1> HIDE DEF W
<1>7. IsFiniteSet(W \cup {0}) /\ Cardinality(W \cup {0}) = Cardinality(W) + 1 /\ Cardinality(W) \in Nat
  BY <1>3, <1>5, FS_AddElement, FS_CardinalityType
<1> QED BY <1>4, <1>6, <1>7

PrintedBy(page, r) == {p \in (0..(r - 1)) \X (0..9) :
                          p[2] = 0 \/ NumberAt(page, p[1]) >= Pow(10, p[2])}

LEMMA PrintedNext ==
    ASSUME NEW page, NEW r \in Nat, IsFiniteSet(PrintedBy(page, r))
    PROVE  /\ IsFiniteSet(PrintedBy(page, r + 1))
           /\ Cardinality(PrintedBy(page, r + 1)) =
                Cardinality(PrintedBy(page, r)) + Digits(NumberAt(page, r))
           /\ Cardinality(PrintedBy(page, r)) \in Nat
<1> DEFINE n == NumberAt(page, r)
           P == PrintedBy(page, r)
           R == Reaches(n)
           new == {r} \X R
<1>1. IsFiniteSet(R) /\ Cardinality(R) = Digits(n)
  BY DigitsReach
<1>2. R \subseteq 0..9 /\ \A d : d \in R <=> d \in 0..9 /\ (d = 0 \/ n >= Pow(10, d))
  BY DEF Reaches
<1>3. PrintedBy(page, r + 1) = P \cup new
  <2>1. \A x : x \in 0..((r + 1) - 1) <=> x \in 0..(r - 1) \/ x = r
    OBVIOUS
  <2>2. ASSUME NEW x \in 0..((r + 1) - 1), NEW d \in 0..9
        PROVE  <<x, d>> \in PrintedBy(page, r + 1) <=> <<x, d>> \in P \cup new
    <3> DEFINE reached == d = 0 \/ NumberAt(page, x) >= Pow(10, d)
    <3>1. <<x, d>> \in PrintedBy(page, r + 1) <=> reached
      BY <2>2 DEF PrintedBy
    <3>2. <<x, d>> \in P <=> x \in 0..(r - 1) /\ reached
      BY <2>2 DEF PrintedBy
    <3>3. <<x, d>> \in new <=> x = r /\ d \in R
      OBVIOUS
    <3>4. x = r => (d \in R <=> reached)
      BY <1>2, <2>2
    <3>5. x \in 0..(r - 1) \/ x = r
      BY <2>1, <2>2
    <3> HIDE DEF P, new, reached
    <3> QED BY <3>1, <3>2, <3>3, <3>4, <3>5
  <2>3. PrintedBy(page, r + 1) \subseteq (0..((r + 1) - 1)) \X (0..9)
    BY DEF PrintedBy
  <2>4. P \cup new \subseteq (0..((r + 1) - 1)) \X (0..9)
    <3>1. P \subseteq (0..(r - 1)) \X (0..9)
      BY DEF PrintedBy
    <3>2. 0..(r - 1) \subseteq 0..((r + 1) - 1) /\ r \in 0..((r + 1) - 1)
      OBVIOUS
    <3> HIDE DEF P, R
    <3> QED BY <1>2, <3>1, <3>2
  <2> HIDE DEF P, new
  <2> DEFINE A == 0..((r + 1) - 1)
             B == 0..9
             C == PrintedBy(page, r + 1)
             D == P \cup new
  <2>5. /\ C \subseteq A \X B /\ D \subseteq A \X B
        /\ \A x \in A, d \in B : <<x, d>> \in C <=> <<x, d>> \in D
    BY <2>2, <2>3, <2>4
  <2> HIDE DEF A, B, C, D
  <2>6. C = D
    BY <2>5
  <2> QED BY <2>6 DEF C, D
<1>4. P \cap new = {}
  <2>1. \A p \in P : p[1] \in 0..(r - 1)
    BY DEF PrintedBy
  <2>2. \A p \in new : p[1] = r
    OBVIOUS
  <2>3. r \notin 0..(r - 1)
    OBVIOUS
  <2> HIDE DEF P, new
  <2> QED BY <2>1, <2>2, <2>3
<1> HIDE DEF R
<1>5. IsFiniteSet(new) /\ Cardinality(new) = Digits(n)
  <2>1. IsFiniteSet({r}) /\ Cardinality({r}) = 1
    BY FS_Singleton
  <2>2. IsFiniteSet({r} \X R) /\ Cardinality({r} \X R) = Cardinality({r}) * Cardinality(R)
    BY <1>1, <2>1, FS_Product
  <2>3. Digits(n) \in Nat
    <3>1. Digits(n) \in 1..10
      BY DigitsBound
    <3> QED BY <3>1
  <2> QED BY <1>1, <2>1, <2>2, <2>3
<1> HIDE DEF P, new
<1>6. IsFiniteSet(P) /\ Cardinality(P) \in Nat
  BY FS_CardinalityType DEF P
<1>7. IsFiniteSet(P \cup new) /\ Cardinality(P \cup new) = Cardinality(P) + Cardinality(new) - Cardinality(P \cap new)
  BY <1>5, <1>6, FS_Union
<1>8. Cardinality(P \cap new) = 0
  BY <1>4, FS_EmptySet
<1>9. Digits(n) \in Nat
  <2>1. Digits(n) \in 1..10
    BY DigitsBound
  <2> QED BY <2>1
<1>10. Cardinality(P \cup new) = Cardinality(P) + Digits(n)
  BY <1>5, <1>6, <1>7, <1>8, <1>9
<1> QED BY <1>3, <1>6, <1>7, <1>10 DEF P

LEMMA HandRound ==
    ASSUME NEW page \in Pages, NEW r \in Nat, r < Rounds[page]
    PROVE  LET L == Len(RoundOf(page)) IN
           /\ L \in {1, 2} /\ Rounds[page] \in Nat
           /\ HandStep(page, 2 + r * L).n = Digits(NumberAt(page, r))
           /\ L = 2 => HandStep(page, 3 + r * L).n = 1
<1> DEFINE L == Len(RoundOf(page))
           R == Rounds[page]
<1>1. R \in Nat /\ r < R
  BY CspAssumption
<1>2. HandSteps(page) = R * L + 2
  BY DEF HandSteps
<1>3. \/ RoundOf(page) = <<"int", "text">> /\ L = 2
      \/ RoundOf(page) = <<"int">> /\ L = 1
  BY DEF RoundOf
<1>4. ASSUME NEW k, k # 1, k # HandSteps(page), NEW i, i = (k - 2) \div L, NEW j, j = (k - 2) % L
      PROVE  HandStep(page, k) = IF RoundOf(page)[1 + j] = "text" THEN Statement("text", 1)
                                 ELSE Statement("int", Digits(NumberAt(page, i)))
  BY <1>4 DEF HandStep
<1>5. \A x, y : Statement(x, y).n = y
  BY DEF Statement
<1> HIDE DEF L, R
<1>6. CASE L = 2
  <2>1. /\ 2 + r * 2 # 1 /\ 2 + r * 2 # R * 2 + 2 /\ (2 + r * 2) - 2 = r * 2
        /\ 3 + r * 2 # 1 /\ 3 + r * 2 # R * 2 + 2 /\ (3 + r * 2) - 2 = r * 2 + 1
    BY <1>1
  <2>2. /\ (r * 2) \div 2 = r /\ (r * 2) % 2 = 0
        /\ (r * 2 + 1) \div 2 = r /\ (r * 2 + 1) % 2 = 1
    BY <1>1
  <2>3. RoundOf(page)[1 + 0] = "int" /\ RoundOf(page)[1 + 1] = "text"
    BY <1>3, <1>6
  <2>4. HandStep(page, 2 + r * 2) = Statement("int", Digits(NumberAt(page, r)))
    BY <1>2, <1>4, <1>6, <2>1, <2>2, <2>3
  <2>5. HandStep(page, 3 + r * 2) = Statement("text", 1)
    BY <1>2, <1>4, <1>6, <2>1, <2>2, <2>3
  <2> QED BY <1>1, <1>5, <1>6, <2>4, <2>5 DEF L, R
<1>7. CASE L = 1
  <2>1. 2 + r * 1 # 1 /\ 2 + r * 1 # R * 1 + 2 /\ (2 + r * 1) - 2 = r
    BY <1>1
  <2>2. r \div 1 = r /\ r % 1 = 0
    BY <1>1
  <2>3. RoundOf(page)[1 + 0] = "int"
    BY <1>3, <1>7
  <2>4. HandStep(page, 2 + r * 1) = Statement("int", Digits(NumberAt(page, r)))
    BY <1>2, <1>4, <1>7, <2>1, <2>2, <2>3
  <2> QED BY <1>1, <1>5, <1>7, <2>4 DEF L, R
<1> QED BY <1>3, <1>6, <1>7

LEMMA HandSum ==
    ASSUME NEW page \in Pages, NEW w, \A k \in 1..HandSteps(page) : w[k] = HandStep(page, k).n
    PROVE  SumTo(w, HandSteps(page)) = HandWidth(page)
<1> DEFINE L == Len(RoundOf(page))
           R == Rounds[page]
           n == HandSteps(page)
           C(r) == Cardinality(PrintedBy(page, r))
           T == {r \in Nat : r <= R => /\ IsFiniteSet(PrintedBy(page, r)) /\ C(r) \in Nat
                                       /\ SumTo(w, 1 + r * L) = 14 + r * (L - 1) + C(r)}
<1>1. R \in Nat /\ L \in {1, 2} /\ n = R * L + 2
  BY CspAssumption DEF HandSteps, RoundOf
<1>2. n \in Nat /\ n >= 2 /\ n - 1 = 1 + R * L
  BY <1>1
<1>3. \A k \in 1..n : w[k] = HandStep(page, k).n /\ w[k] \in Nat
  BY HandTyped
<1>4. w[1] = 14 /\ w[n] = 16
  <2>1. HandStep(page, 1) = Statement("text", 14)
    BY DEF HandStep
  <2>2. HandStep(page, n) = Statement("text", 16)
    BY <1>2 DEF HandStep
  <2>3. 1 \in 1..n /\ n \in 1..n
    BY <1>2
  <2> HIDE DEF n
  <2> QED BY <1>3, <2>1, <2>2, <2>3 DEF Statement
<1>5. ASSUME NEW r \in Nat, r < R
      PROVE  /\ HandStep(page, 2 + r * L).n = Digits(NumberAt(page, r))
             /\ L = 2 => HandStep(page, 3 + r * L).n = 1
  BY <1>5, HandRound
<1>6. ASSUME NEW r \in Nat, IsFiniteSet(PrintedBy(page, r))
      PROVE  /\ IsFiniteSet(PrintedBy(page, r + 1))
             /\ C(r + 1) = C(r) + Digits(NumberAt(page, r))
  BY <1>6, PrintedNext
<1>7. \A r : Digits(NumberAt(page, r)) \in Nat
  <2>1. \A m : Digits(m) \in 1..10 => Digits(m) \in Nat
    OBVIOUS
  <2> QED BY <2>1, DigitsBound, Zenon
<1>8. IsFiniteSet(PrintedBy(page, 0)) /\ C(0) = 0
  <2>1. PrintedBy(page, 0) = {}
    <3>1. 0..(0 - 1) = {}
      OBVIOUS
    <3> QED BY <3>1 DEF PrintedBy
  <2> QED BY <2>1, FS_EmptySet
<1> HIDE DEF L, R, n, C
<1>9. 0 \in T
  <2>1. \A k \in 1..(0 + 1) : w[k] \in Nat
    BY <1>2, <1>3
  <2>2. SumTo(w, 0 + 1) = SumTo(w, 0) + w[0 + 1]
    BY <2>1, SumNext
  <2>3. SumTo(w, 0) = 0
    BY SumFirst
  <2>4. 1 + 0 * L = 0 + 1 /\ 14 + 0 * (L - 1) + 0 = 14
    BY <1>1
  <2> QED BY <1>4, <1>8, <2>2, <2>3, <2>4
<1>10. ASSUME NEW r \in Nat, r \in T PROVE r + 1 \in T
  <2>1. SUFFICES ASSUME r + 1 <= R
                 PROVE  /\ IsFiniteSet(PrintedBy(page, r + 1)) /\ C(r + 1) \in Nat
                        /\ SumTo(w, 1 + (r + 1) * L) = 14 + (r + 1) * (L - 1) + C(r + 1)
    OBVIOUS
  <2> DEFINE d == Digits(NumberAt(page, r))
  <2>2. r < R /\ r <= R
    BY <1>1, <2>1
  <2>3. /\ IsFiniteSet(PrintedBy(page, r)) /\ C(r) \in Nat
        /\ SumTo(w, 1 + r * L) = 14 + r * (L - 1) + C(r)
    BY <1>10, <2>2
  <2>4. IsFiniteSet(PrintedBy(page, r + 1)) /\ C(r + 1) = C(r) + d /\ d \in Nat
    BY <1>6, <1>7, <2>3
  <2>5. HandStep(page, 2 + r * L).n = d /\ (L = 2 => HandStep(page, 3 + r * L).n = 1)
    BY <1>5, <2>2
  <2> HIDE DEF d
  <2>6. SumTo(w, 1 + (r + 1) * L) = 14 + (r + 1) * (L - 1) + (C(r) + d)
    <3>1. CASE L = 1
      <4>1. /\ 1 + r \in Nat /\ (1 + r) + 1 \in 1..n /\ \A k \in 1..((1 + r) + 1) : k \in 1..n
            /\ 1 + r * 1 = 1 + r /\ 2 + r * 1 = (1 + r) + 1 /\ 1 + (r + 1) * 1 = (1 + r) + 1
        BY <1>1, <1>2, <2>2, <3>1
      <4>2. SumTo(w, (1 + r) + 1) = SumTo(w, 1 + r) + w[(1 + r) + 1]
        BY <1>3, <4>1, SumNext
      <4>3. w[(1 + r) + 1] = d
        BY <1>3, <2>5, <3>1, <4>1
      <4> QED BY <2>3, <2>4, <3>1, <4>1, <4>2, <4>3
    <3>2. CASE L = 2
      <4> DEFINE m == 1 + r * 2
      <4>1. /\ m \in Nat /\ m + 1 \in Nat /\ m + 1 \in 1..n /\ (m + 1) + 1 \in 1..n
            /\ \A k \in 1..(m + 1) : k \in 1..n
            /\ \A k \in 1..((m + 1) + 1) : k \in 1..n
            /\ 2 + r * 2 = m + 1 /\ 3 + r * 2 = (m + 1) + 1 /\ 1 + (r + 1) * 2 = (m + 1) + 1
        BY <1>1, <1>2, <2>2, <3>2
      <4>2. w[m + 1] = d /\ w[(m + 1) + 1] = 1
        BY <1>3, <2>5, <3>2, <4>1
      <4>3. SumTo(w, m) = 14 + r + C(r)
        BY <2>3, <3>2
      <4> HIDE DEF m
      <4>4. SumTo(w, m + 1) = SumTo(w, m) + w[m + 1]
        BY <1>3, <4>1, SumNext
      <4>5. SumTo(w, (m + 1) + 1) = SumTo(w, m + 1) + w[(m + 1) + 1]
        BY <1>3, <4>1, SumNext
      <4>6. SumTo(w, 1 + (r + 1) * 2) = ((14 + r + C(r)) + d) + 1
        BY <4>1, <4>2, <4>3, <4>4, <4>5
      <4> QED BY <2>3, <2>4, <3>2, <4>6
    <3> QED BY <1>1, <3>1, <3>2
  <2> QED BY <2>3, <2>4, <2>6
<1>11. R \in T
  <2> HIDE DEF T
  <2> QED BY <1>1, <1>9, <1>10, Inductive
<1>12. SumTo(w, 1 + R * L) = 14 + R * (L - 1) + C(R) /\ C(R) \in Nat
  BY <1>1, <1>11
<1>13. SumTo(w, (n - 1) + 1) = SumTo(w, n - 1) + w[(n - 1) + 1]
  <2>1. n - 1 \in Nat /\ \A k \in 1..((n - 1) + 1) : w[k] \in Nat
    BY <1>2, <1>3
  <2> QED BY <2>1, SumNext
<1>14. (n - 1) + 1 = n /\ R * (L - 1) \in Nat
  BY <1>1, <1>2
<1>15. SumTo(w, n) = 30 + R * (L - 1) + C(R)
  BY <1>2, <1>4, <1>12, <1>13, <1>14
<1>16. HandWidth(page) = 30 + R * (L - 1) + C(R)
  BY DEF HandWidth, PrintedBy, L, R, C
<1> QED BY <1>15, <1>16 DEF n

\* When doGet is done the buffer holds the page and nothing else, for templates and bases
\* of any length, any number of rounds of a page written by hand and any width of what is
\* printed: the texts that the servlet of a template without code appends are of the width
\* of the elements they were made of, percent signs included, and every number of a page
\* written by hand takes one character and one more for every power of ten it reaches
\* (CspServlet.cc:31-122, builder.cc:54-198).  A servlet that C++ refuses never runs.
THEOREM PagePrints == CspSpec => []PagePrinted
<1> DEFINE Inv == CspInv /\ Right /\ Printing
<1>1. CspInit => Inv
  BY CspStart, RightInit, PrintingInit DEF CspInit
<1>2. Inv /\ [CspNext]_cspVars => Inv'
  BY CspStep, RightStep, PrintingNext
<1>3. ASSUME CspInv, Right, Printing, Done PROVE servlet \in Pages => length = HandWidth(servlet)
  <2>1. SUFFICES ASSUME servlet \in Pages PROVE length = HandWidth(servlet)
    OBVIOUS
  <2>2. Steps = HandSteps(servlet) /\ \A k \in 1..Steps : Lengths[k] = HandStep(servlet, k).n
    BY <2>1 DEF Steps, Lengths, StepAt
  <2>3. SumTo(Lengths, Steps) = HandWidth(servlet)
    <3> DEFINE w == Lengths
    <3>1. \A k \in 1..HandSteps(servlet) : w[k] = HandStep(servlet, k).n
      BY <2>2
    <3> HIDE DEF w
    <3>2. SumTo(w, HandSteps(servlet)) = HandWidth(servlet)
      BY <2>1, <3>1, HandSum
    <3> QED BY <2>2, <3>2 DEF w
  <2>4. length = SumTo(Lengths, step) /\ step = Steps
    BY <1>3, <2>1, HandStraight DEF Printing, Done
  <2> QED BY <2>3, <2>4
<1>4. ASSUME CspInv, Right, Printing, Done, servlet = "generated", Bld!SoundPage, Straight
      PROVE  length = ShownWidth(Bld!Page)
  <2>1. stage = "done" /\ step = Steps /\ Steps = Len(out)
    BY <1>4 DEF Done, Steps, Pages
  <2>2. length = SumTo(Lengths, Len(out))
    BY <1>4, <2>1 DEF Printing
  <2>3. out \in Seq(Plainly) /\ Toks(out) = Bld!Page
    BY <1>4, <2>1 DEF Right, Finished
  <2>4. \A k \in 1..Len(out) : Lengths[k] = GeneratedStep(out[k]).n
    BY <1>4, <2>1 DEF Lengths, StepAt, Pages
  <2> DEFINE w == Lengths
  <2>5. \A k \in 1..Len(out) : w[k] = GeneratedStep(out[k]).n
    BY <2>4
  <2> HIDE DEF w
  <2>6. SumTo(w, Len(out)) = ShownWidth(Toks(out))
    BY <2>3, <2>5, PlainlySum
  <2> QED BY <2>2, <2>3, <2>6 DEF w
<1>5. Inv => PagePrinted
  BY <1>3, <1>4 DEF PagePrinted
<1> QED BY <1>1, <1>2, <1>5, PTL DEF CspSpec
=============================================================================
