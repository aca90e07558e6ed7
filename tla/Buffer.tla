------------------------------- MODULE Buffer -------------------------------
(***************************************************************************)
(* The growing text buffer every request carries (Buffer.hh, Buffer.cc).   *)
(* An append reserves a number of bytes that depends on the type it is     *)
(* given, then prints the value with sprintf, which writes as many         *)
(* characters as the value needs and a NUL; append(char) stores one byte   *)
(* and no NUL.  What is reserved is not always enough: append(text, bytes) *)
(* reserves what its caller says and prints the whole text, and a number   *)
(* may need more than its ten or twenty characters (Buffer.hh:32-52).      *)
(* Behind a write past the end nothing is defined and the model stops.     *)
(* Of the bytes, it keeps which hold a NUL that nobody appended.           *)
(***************************************************************************)
EXTENDS Integers, FiniteSets

CONSTANTS
    Types,       \* the types printed with sprintf
    Reserves,    \* per type, the number passed to checkSpace
    Prints,      \* per type, how many characters its values may need
    Texts,       \* lengths of the strings appended, and what is reserved for them
    Counts,      \* lengths of the arrays of doubles appended
    Seps,        \* lengths of the separators between their values
    InitSizes,   \* sizes the constructors are given
    InitTexts,   \* lengths of the initial values given with a size
    MaxLength    \* bound of the model: nothing is appended at this length

ASSUME BufferAssumption ==
    /\ Reserves \in [Types -> Nat]
    /\ Prints \in [Types -> SUBSET (Nat \ {0})]
    /\ Texts \subseteq Nat /\ Counts \subseteq Nat /\ Seps \subseteq Nat
    /\ "double" \in Types
    /\ InitSizes \subseteq Nat \ {0}
    /\ InitTexts \subseteq Nat
    /\ MaxLength \in Nat

VARIABLES
    size,      \* bytes allocated
    length,    \* bytes in use
    nuls,      \* indices of data that hold a NUL of sprintf or of the constructor
    touched,   \* one more than the highest index ever written in this allocation
    excess     \* history: the characters last written beyond what was reserved

vars == <<size, length, nuls, touched, excess>>

Highest(m, n) == IF m >= n THEN m ELSE n

\* Buffer(size), or Buffer(size, value), which copies the NUL and counts it, however
\* long the value is.
Init ==
    /\ size \in InitSizes
    /\ \/ length = 0 /\ nuls = {0} /\ touched = 1 /\ excess = 0
       \/ \E n \in InitTexts :
            length = n + 1 /\ nuls = {n} /\ touched = n + 1 /\ excess = Highest(0, n + 1 - size)

\* Mutants of checkSpace: no room for the NUL; the bytes asked for are left out.
GrowsLate(bytes) == length + bytes > size
SizeOfUsed(bytes) == IF length + bytes >= size THEN 2 * length ELSE size

\* checkSpace(bytes): twice what is needed, and a copy of what is in use, without
\* the NUL behind it.
Grows(bytes) == length + bytes >= size
SizeAfter(bytes) == IF Grows(bytes) THEN 2 * (length + bytes) ELSE size
Kept(bytes) == IF Grows(bytes) THEN nuls \cap 0..(length - 1) ELSE nuls
TouchedAfter(bytes) == IF Grows(bytes) THEN length ELSE touched

\* Nothing was written past the end yet.
Intact == touched <= size

\* Mutant: the NUL is counted.
PrintedCounting(bytes, n) ==
    /\ Intact
    /\ size' = SizeAfter(bytes)
    /\ length' = length + n + 1
    /\ nuls' = (Kept(bytes) \ length..(length + n)) \cup {length + n}
    /\ touched' = Highest(TouchedAfter(bytes), length + n + 1)
    /\ excess' = Highest(0, n - bytes)

\* sprintf(data + length, ...) of n characters, after checkSpace(bytes).
Printed(bytes, n) ==
    /\ Intact
    /\ size' = SizeAfter(bytes)
    /\ length' = length + n
    /\ nuls' = (Kept(bytes) \ length..(length + n)) \cup {length + n}
    /\ touched' = Highest(TouchedAfter(bytes), length + n + 1)
    /\ excess' = Highest(0, n - bytes)

\* append(text, bytes), whose text has n characters; append(text) counts them itself.
AppendText(n, bytes) == Printed(bytes, n)
AppendNumber(t, n) == Printed(Reserves[t], n)

\* append(double[], number, sep) reserves room for every value and prints all but
\* the last; an array of one or none only has its room made.
AppendDoubles(number, sep, n) ==
    LET bytes == number * (Reserves["double"] + sep) IN
    IF number > 1 THEN Printed(bytes, (number - 1) * (n + sep))
    ELSE /\ Intact
         /\ size' = SizeAfter(bytes)
         /\ nuls' = Kept(bytes)
         /\ touched' = TouchedAfter(bytes)
         /\ excess' = 0
         /\ UNCHANGED length

AppendChar ==
    /\ Intact
    /\ size' = SizeAfter(1)
    /\ length' = length + 1
    /\ nuls' = Kept(1) \ {length}
    /\ touched' = Highest(TouchedAfter(1), length + 1)
    /\ excess' = 0

Next ==
    /\ length < MaxLength
    /\ \/ \E n, b \in Texts : AppendText(n, b)
       \/ \E t \in Types : \E n \in Prints[t] : AppendNumber(t, n)
       \/ \E c \in Counts, p \in Seps, n \in Prints["double"] : AppendDoubles(c, p, n)
       \/ AppendChar

Spec == Init /\ [][Next]_vars

-----------------------------------------------------------------------------
TypeOK ==
    /\ size \in Nat \ {0} /\ length \in Nat /\ touched \in Nat /\ excess \in Nat
    /\ nuls \subseteq Nat

\* At every fill of the buffer and through every growth, a write goes past the end of
\* the allocation by no more than what was printed beyond its reserve; what fits its
\* reserve, with its NUL, stays inside.  The reserves are not enough for every value:
\* an int of eleven characters or a float of a thousand goes past them (Buffer.hh:37, 45).
InBounds == touched <= size + excess

\* Everything appended shows: no NUL is left inside the text in use.
NothingHidden == nuls \cap 0..(length - 1) = {}
=============================================================================
