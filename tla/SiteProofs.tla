----------------------------- MODULE SiteProofs -----------------------------
(***************************************************************************)
(* The files below htdocs are loaded, and what a request is answered with  *)
(* is the file its url names: for every file system, every request, and    *)
(* whatever the array it is read into held before.                         *)
(***************************************************************************)
EXTENDS Site, Induction, SequenceTheorems, FiniteSetTheorems, TLAPS

-----------------------------------------------------------------------------
(* Paths *)

LEMMA Appended ==
    ASSUME NEW S, NEW p \in Seq(S), NEW x \in S
    PROVE  /\ Append(p, x) \in Seq(S) /\ Append(p, x) # <<>> /\ p \o <<x>> = Append(p, x)
           /\ Len(Append(p, x)) = Len(p) + 1 /\ Append(p, x)[Len(p) + 1] = x
           /\ Parent(Append(p, x)) = p /\ Beneath(p, Append(p, x))
<1>1. /\ Append(p, x) \in Seq(S) /\ Append(p, x) # <<>> /\ Len(Append(p, x)) = Len(p) + 1
      /\ Append(p, x)[Len(p) + 1] = x /\ Len(p) \in Nat
  OBVIOUS
<1>2. p \o <<x>> = Append(p, x)
  BY AppendIsConcat
<1>3. SubSeq(Append(p, x), 1, Len(p)) = p
  OBVIOUS
<1>4. Parent(Append(p, x)) = p
  <2>1. Parent(Append(p, x)) = SubSeq(Append(p, x), 1, Len(Append(p, x)) - 1)
    BY <1>1, Zenon DEF Parent
  <2>2. Len(Append(p, x)) - 1 = Len(p)
    BY <1>1
  <2> QED BY <1>3, <2>1, <2>2, Zenon
<1>5. Beneath(p, Append(p, x))
  BY <1>1, <1>3 DEF Beneath
<1> QED BY <1>1, <1>2, <1>4, <1>5

LEMMA Split ==
    ASSUME NEW S, NEW p \in Seq(S), p # <<>>
    PROVE  \E q \in Seq(S), x \in S :
              /\ p = Append(q, x) /\ Parent(p) = q /\ p[Len(p)] = x /\ Len(p) = Len(q) + 1
<1>1. PICK q \in Seq(S), x \in S : p = Append(q, x)
  BY SequenceEmptyOrAppend
<1>2. Parent(Append(q, x)) = q /\ Len(Append(q, x)) = Len(q) + 1 /\ Append(q, x)[Len(q) + 1] = x
  BY Appended
<1>3. Parent(p) = q /\ Len(p) = Len(q) + 1 /\ p[Len(p)] = x
  BY <1>1, <1>2, Zenon
<1> QED BY <1>1, <1>3, Zenon

\* Below a directory is what is in it, and what is below what is in it.
LEMMA Deeper ==
    ASSUME NEW S, NEW d \in Seq(S), NEW q \in Seq(S), NEW x \in S, Beneath(d, Append(q, x))
    PROVE  q = d \/ Beneath(d, q)
<1>1. /\ Append(q, x) \in Seq(S) /\ Len(Append(q, x)) = Len(q) + 1
      /\ \A i \in 1..Len(q) : Append(q, x)[i] = q[i]
      /\ Len(q) \in Nat /\ Len(d) \in Nat
  OBVIOUS
<1>2. Len(d) <= Len(q) /\ SubSeq(Append(q, x), 1, Len(d)) = d
  BY <1>1 DEF Beneath
<1>3. \A i \in 1..Len(d) : Append(q, x)[i] = d[i]
  BY <1>1, <1>2
<1>4. \A i \in 1..Len(d) : q[i] = d[i]
  BY <1>1, <1>2, <1>3
<1>5. SubSeq(q, 1, Len(d)) = d
  BY <1>1, <1>2, <1>4
<1>6. CASE Len(d) = Len(q)
  BY <1>4, <1>6, SeqEqual
<1>7. CASE Len(d) # Len(q)
  BY <1>1, <1>2, <1>5, <1>7 DEF Beneath
<1> QED BY <1>6, <1>7

LEMMA Farther ==
    ASSUME NEW S, NEW d \in Seq(S), NEW q \in Seq(S), NEW x \in S, Beneath(d, q)
    PROVE  Beneath(d, Append(q, x))
<1>1. /\ Append(q, x) \in Seq(S) /\ Len(Append(q, x)) = Len(q) + 1
      /\ \A i \in 1..Len(q) : Append(q, x)[i] = q[i]
      /\ Len(q) \in Nat /\ Len(d) \in Nat
  OBVIOUS
<1>2. Len(d) < Len(q) /\ SubSeq(q, 1, Len(d)) = d
  BY <1>1 DEF Beneath
<1>3. \A i \in 1..Len(d) : Append(q, x)[i] = d[i]
  BY <1>1, <1>2
<1>4. SubSeq(Append(q, x), 1, Len(d)) = d
  BY <1>1, <1>2, <1>3
<1> QED BY <1>1, <1>2, <1>4 DEF Beneath

LEMMA Joining ==
    ASSUME NEW S, NEW d \in Seq(S), NEW q \in Seq(S), NEW x \in S
    PROVE  d \o q \in Seq(S) /\ d \o Append(q, x) = Append(d \o q, x) /\ <<x>> \in Seq(S)
           /\ d \o <<x>> = Append(d, x)
<1>1. d \o q \in Seq(S)
  OBVIOUS
<1>2. Append(q, x) = q \o <<x>> /\ Append(d \o q, x) = (d \o q) \o <<x>> /\ <<x>> \in Seq(S)
      /\ d \o <<x>> = Append(d, x)
  BY <1>1, AppendIsConcat
<1> QED BY <1>1, <1>2, ConcatAssociative

\* Something in a directory.
At(d, x) == Append(d, x)

Htdocs == At(Start, Root)

\* Of paths.
LEMMA Paths ==
    /\ \A p \in Path, x \in Names :
        /\ At(p, x) \in Path /\ At(p, x) # <<>> /\ Parent(At(p, x)) = p
        /\ At(p, x)[Len(At(p, x))] = x
        /\ p \o <<x>> = At(p, x) /\ <<x>> \in Path
        /\ Beneath(p, At(p, x)) /\ Len(At(p, x)) = Len(p) + 1 /\ Len(p) \in Nat
        /\ Len(At(p, x)) \in DOMAIN At(p, x)
    /\ \A p, q \in Path, x, y \in Names : At(p, x) = At(q, y) => p = q /\ x = y
    /\ \A p \in Path : p # <<>> =>
        \E q \in Path, x \in Names : p = At(q, x) /\ Parent(p) = q /\ p[Len(p)] = x
    /\ \A d, q \in Path : d \o q \in Path
    /\ \A d, q \in Path, x \in Names : d \o At(q, x) = At(d \o q, x)
    /\ \A d, q \in Path, x \in Names : Beneath(d, At(q, x)) => q = d \/ Beneath(d, q)
<1>1. \A p \in Path, x \in Names :
        /\ Append(p, x) \in Path /\ Append(p, x) # <<>> /\ Parent(Append(p, x)) = p
        /\ Len(Append(p, x)) = Len(p) + 1 /\ Append(p, x)[Len(p) + 1] = x
        /\ Beneath(p, Append(p, x))
        /\ p \o <<x>> = Append(p, x) /\ <<x>> \in Path
  BY Appended, Joining DEF Path
<1>2. \A p \in Path, x \in Names :
        Len(Append(p, x)) \in DOMAIN Append(p, x) /\ Append(p, x)[Len(Append(p, x))] = x
        /\ Len(p) \in Nat
  BY DEF Path
<1>3. \A p, q \in Path, x, y \in Names : Append(p, x) = Append(q, y) => p = q /\ x = y
  BY AppendInjective DEF Path
<1>4. \A p \in Path : p # <<>> =>
        \E q \in Path, x \in Names : p = Append(q, x) /\ Parent(p) = q /\ p[Len(p)] = x
  <2> TAKE p \in Path
  <2> SUFFICES ASSUME p # <<>>
               PROVE  \E q \in Path, x \in Names : p = Append(q, x) /\ Parent(p) = q /\ p[Len(p)] = x
    OBVIOUS
  <2>1. \E q \in Path, x \in Names :
            p = Append(q, x) /\ Parent(p) = q /\ p[Len(p)] = x /\ Len(p) = Len(q) + 1
    BY Split, Zenon DEF Path
  <2> QED BY <2>1, Zenon
<1>5. \A d, q \in Path : d \o q \in Path
  BY DEF Path
<1>6. \A d, q \in Path, x \in Names : d \o Append(q, x) = Append(d \o q, x)
  BY Joining DEF Path
<1>7. \A d, q \in Path, x \in Names : Beneath(d, Append(q, x)) => q = d \/ Beneath(d, q)
  BY Deeper DEF Path
<1> QED BY <1>1, <1>2, <1>3, <1>4, <1>5, <1>6, <1>7, Zenon DEF At

LEMMA Same ==
    ASSUME NEW p \in Path, NEW q \in Path, NEW x \in Names, NEW y \in Names, At(p, x) = At(q, y)
    PROVE  p = q /\ x = y
BY AppendInjective DEF At, Path

LEMMA Tree ==
    ASSUME disk \in Trees
    PROVE  /\ Start \in Path
           /\ Htdocs \in Path /\ Start \o <<Root>> = Htdocs /\ Parent(Htdocs) = Start
           /\ disk.dirs \subseteq Path /\ disk.files \subseteq Path
           /\ Htdocs \in disk.dirs /\ Start \in disk.dirs
           /\ \A p \in disk.dirs \cup disk.files : Parent(p) \in disk.dirs
           /\ disk.dirs \cap disk.files = {} /\ disk.locked \subseteq disk.files
<1>1. IsTree(disk) /\ Root \in Names
  BY TreesAssumption
<1>2. Start \in Path
  BY <1>1 DEF IsTree
<1>3. Start \o <<Root>> = Htdocs /\ Htdocs \in Path /\ Parent(Htdocs) = Start
  BY <1>1, <1>2, Paths DEF Htdocs
<1> QED BY <1>1, <1>2, <1>3 DEF IsTree

\* What readdir lists of a directory is in it.
LEMMA Listed ==
    ASSUME disk \in Trees, NEW d \in Path
    PROVE  \A x \in Entries(disk, d) :
              x \in {".", ".."} \/ (x \in Names /\ At(d, x) \in disk.dirs \cup disk.files)
<1> SUFFICES ASSUME NEW x \in Entries(disk, d), x \notin {".", ".."}
             PROVE  x \in Names /\ At(d, x) \in disk.dirs \cup disk.files
  OBVIOUS
<1>1. PICK p \in disk.dirs \cup disk.files : p # <<>> /\ Parent(p) = d /\ x = p[Len(p)]
  BY DEF Entries
<1>2. p \in Path
  BY <1>1, Tree
<1>3. PICK q \in Path, y \in Names : p = At(q, y) /\ Parent(p) = q /\ p[Len(p)] = y
  BY <1>1, <1>2, Paths
<1> QED BY <1>1, <1>3

LEMMA Listing ==
    ASSUME disk \in Trees, NEW d \in Path, NEW x \in Names, At(d, x) \in disk.dirs \cup disk.files
    PROVE  x \in Entries(disk, d) /\ x \notin {".", ".."}
<1>1. At(d, x) # <<>> /\ Parent(At(d, x)) = d /\ At(d, x)[Len(At(d, x))] = x
  BY Paths
<1>2. x \in Entries(disk, d)
  BY <1>1 DEF Entries
<1> QED BY <1>2, TreesAssumption

-----------------------------------------------------------------------------
(* Types, whatever the tree *)

LEMMA TypesInit == Init => TypeOK
<1> SUFFICES ASSUME Init PROVE TypeOK
  OBVIOUS
<1>1. disk \in Trees /\ cwd = Start /\ call = <<Root>> /\ stack = <<>> /\ filemap = <<>>
  BY DEF Init
<1>2. Start \in disk.dirs /\ Root \in Names /\ Start \in Path
  BY <1>1, Tree, TreesAssumption
<1>3. <<Root>> \in Path
  BY <1>2, Paths
<1> QED BY <1>1, <1>2, <1>3 DEF TypeOK

\* All of a sequence but its last element.
LEMMA Front ==
    ASSUME NEW S, NEW s \in Seq(S), s # <<>>
    PROVE  /\ SubSeq(s, 1, Len(s) - 1) \in Seq(S) /\ Len(SubSeq(s, 1, Len(s) - 1)) = Len(s) - 1
           /\ \A i \in 1..(Len(s) - 1) : SubSeq(s, 1, Len(s) - 1)[i] = s[i]
           /\ Len(s) \in Nat /\ Len(s) >= 1 /\ s[Len(s)] \in S
<1>1. PICK q \in Seq(S), x \in S : s = Append(q, x)
  BY SequenceEmptyOrAppend
<1>2. /\ Len(s) = Len(q) + 1 /\ Len(q) \in Nat /\ \A i \in 1..Len(q) : s[i] = q[i]
      /\ s[Len(s)] = x
  BY <1>1
<1>3. SubSeq(s, 1, Len(q)) = q
  BY <1>1
<1>4. Len(s) - 1 = Len(q)
  BY <1>2
<1> QED BY <1>2, <1>3, <1>4

LEMMA ReadTypes ==
    ASSUME TypeOK, NEW name, NEW mode \in {"dir", "file"}, ReadEntry(name, mode)
    PROVE  /\ stack' \in Seq(Frame) /\ Top \in Frame /\ name \in Names \cup {".", ".."}
           /\ Len(stack') = Len(stack) /\ Below \in Seq(Frame) /\ Len(stack) >= 1
           /\ stack'[Len(stack)] = [Top EXCEPT !.left = @ \ {name}, !.mode = mode]
           /\ \A i \in 1..(Len(stack) - 1) : stack'[i] = stack[i]
<1> DEFINE new == [Top EXCEPT !.left = @ \ {name}, !.mode = mode]
<1>1. stack \in Seq(Frame) /\ stack # <<>> /\ name \in Top.left /\ stack' = Append(Below, new)
  BY DEF ReadEntry, TypeOK
<1>2. Len(stack) \in Nat /\ Len(stack) >= 1 /\ Top \in Frame
  BY <1>1 DEF Top
<1>3. Below \in Seq(Frame) /\ Len(Below) = Len(stack) - 1
      /\ \A i \in 1..(Len(stack) - 1) : Below[i] = stack[i]
  BY <1>1, Front DEF Below
<1>4. name \in Names \cup {".", ".."} /\ new \in Frame
  BY <1>1, <1>2 DEF Frame
<1> HIDE DEF new
<1>5. /\ stack' \in Seq(Frame) /\ Len(stack') = Len(stack) /\ stack'[Len(stack)] = new
      /\ \A i \in 1..(Len(stack) - 1) : stack'[i] = stack[i]
  BY <1>1, <1>2, <1>3, <1>4
<1> QED BY <1>2, <1>3, <1>4, <1>5 DEF new

LEMMA TypesStep == TypeOK /\ [Next]_vars => TypeOK'
<1> SUFFICES ASSUME TypeOK, [Next]_vars PROVE TypeOK'
  OBVIOUS
<1>0. /\ disk \in Trees /\ cwd \in disk.dirs /\ stack \in Seq(Frame)
      /\ \A k \in DOMAIN filemap : k \in Path /\ filemap[k] \in Path \cup {None}
      /\ call \in Path \cup {None}
  BY DEF TypeOK
<1>1. /\ disk.dirs \subseteq Path /\ disk.files \subseteq Path /\ cwd \in Path
      /\ Parent(cwd) \in disk.dirs
  BY <1>0, Tree
<1>2. CASE Open
  <2> DEFINE dir == cwd \o call
             frame == [filedir |-> call, left |-> Entries(disk, dir), mode |-> "uninitialized"]
  <2>1. call \in Path /\ call' = None /\ UNCHANGED <<disk, filemap>> /\ dir \in Path
    BY <1>0, <1>1, <1>2, Paths DEF Open
  <2>2. Entries(disk, dir) \subseteq Names \cup {".", ".."}
    BY <1>0, <2>1, Listed
  <2>3. frame \in Frame
    BY <2>1, <2>2 DEF Frame
  <2>4. \/ stack' = Append(stack, frame) /\ cwd' \in {dir, cwd} /\ dir \in disk.dirs
        \/ UNCHANGED <<stack, cwd>>
    BY <1>2 DEF Open, CanOpen
  <2> HIDE DEF frame, dir
  <2>5. stack' \in Seq(Frame) /\ cwd' \in disk.dirs
    BY <1>0, <2>3, <2>4
  <2> QED BY <1>0, <2>1, <2>5 DEF TypeOK
<1>3. CASE Return
  <2>1. stack # <<>> /\ stack' = Below /\ cwd' = Parent(cwd) /\ UNCHANGED <<disk, call, filemap>>
    BY <1>3 DEF Return
  <2>2. stack' \in Seq(Frame)
    BY <1>0, <2>1 DEF Below
  <2> QED BY <1>0, <1>1, <2>1, <2>2 DEF TypeOK
<1>4. ASSUME NEW name, Skip(name) PROVE TypeOK'
  <2>1. stack' \in Seq(Frame)
    BY <1>4, ReadTypes DEF Skip
  <2> QED BY <1>0, <1>4, <2>1, SMTT(30) DEF TypeOK, Skip
<1>5. ASSUME NEW name, Descend(name) PROVE TypeOK'
  <2>1. stack' \in Seq(Frame) /\ Top \in Frame /\ name \in Names
    BY <1>5, ReadTypes DEF Descend
  <2>2. Top.filedir \in Path
    BY <2>1 DEF Frame
  <2>3. Append(Top.filedir, name) \in Path
    BY <2>1, <2>2, Paths DEF At
  <2> QED BY <1>0, <1>1, <1>5, <2>1, <2>3, SMTT(30) DEF TypeOK, Descend
<1>6. ASSUME NEW name, Load(name) PROVE TypeOK'
  <2> DEFINE k == Append(Top.filedir, name)
             content == Content(cwd \o <<name>>)
  <2>1. stack' \in Seq(Frame) /\ Top \in Frame /\ name \in Names
    BY <1>6, ReadTypes DEF Load
  <2>2. Top.filedir \in Path
    BY <2>1 DEF Frame
  <2>3. k \in Path
    BY <2>1, <2>2, Paths DEF At
  <2>4. content \in Path \cup {None}
    BY <1>1 DEF Content
  <2>5. filemap' = (IF k \in DOMAIN filemap THEN filemap
                    ELSE [q \in DOMAIN filemap \cup {k} |-> IF q # k THEN filemap[q] ELSE content])
        /\ UNCHANGED <<disk, cwd, call>>
    BY <1>6 DEF Load
  <2> HIDE DEF k, content
  <2>6. \A q \in DOMAIN filemap' : q \in Path /\ filemap'[q] \in Path \cup {None}
    BY <1>0, <2>3, <2>4, <2>5
  <2> QED BY <1>0, <2>1, <2>5, <2>6 DEF TypeOK
<1>7. CASE UNCHANGED vars
  BY <1>7 DEF vars, TypeOK
<1> QED BY <1>2, <1>3, <1>4, <1>5, <1>6, <1>7 DEF Next

-----------------------------------------------------------------------------
(* A plain tree *)

R == <<Root>>

\* Where the recursion is, and where the process.
Shape ==
    \/ stack = <<>> /\ call \in {R, None} /\ cwd = Start
    \/ /\ Len(stack) = 1 /\ stack[1].filedir = R
       /\ \/ call = None /\ cwd = Htdocs
          \/ /\ cwd = Start
             /\ \E x \in Names : call = At(R, x) /\ At(Htdocs, x) \in disk.dirs
    \/ /\ Len(stack) = 2 /\ stack[1].filedir = R /\ call = None
       /\ \E x \in Names :
            stack[2].filedir = At(R, x) /\ cwd = At(Htdocs, x) /\ cwd \in disk.dirs

\* What a key stands for.
Place(k) == Start \o k

\* What is left to be read of a directory is in it.
LeftListed == \A i \in 1..Len(stack) : stack[i].left \subseteq Entries(disk, Place(stack[i].filedir))

\* What has not been read of htdocs, and of a directory in it.
Unread(x) == (stack = <<>> /\ call # None) \/ (stack # <<>> /\ x \in stack[1].left)
UnreadIn(x, y) ==
    Unread(x) \/ call = At(R, x) \/ (Len(stack) = 2 /\ stack[2].filedir = At(R, x) /\ y \in stack[2].left)

\* Every file is loaded or has not been read.
Level1 ==
    \A x \in Names : At(Htdocs, x) \in disk.files => At(R, x) \in DOMAIN filemap \/ Unread(x)
Level2 ==
    \A x, y \in Names : At(At(Htdocs, x), y) \in disk.files =>
        At(At(R, x), y) \in DOMAIN filemap \/ UnreadIn(x, y)

\* The entries there are.
Named == \A k \in DOMAIN filemap : Place(k) \in disk.files /\ filemap[k] = Content(Place(k))

LoadInv == Shape /\ LeftListed /\ Level1 /\ Level2 /\ Named

LEMMA Roots ==
    ASSUME disk \in Trees
    PROVE  /\ R \in Path /\ R # None /\ Place(R) = Htdocs /\ Htdocs \in Path /\ Parent(Htdocs) = Start
           /\ \A x \in Names : At(R, x) \in Path /\ Place(At(R, x)) = At(Htdocs, x)
                               /\ At(Htdocs, x) \in Path /\ Parent(At(Htdocs, x)) = Htdocs
           /\ \A x \in Names : At(R, x) # None
<1>1. Start \in Path /\ Root \in Names /\ Htdocs \in Path /\ Place(R) = Htdocs
      /\ Parent(Htdocs) = Start /\ None \notin Path
  BY Tree, TreesAssumption DEF R, Place
<1>2. R \in Path
  BY <1>1, Paths DEF R
<1>3. ASSUME NEW x \in Names
      PROVE  /\ At(R, x) \in Path /\ Place(At(R, x)) = At(Htdocs, x)
             /\ At(Htdocs, x) \in Path /\ Parent(At(Htdocs, x)) = Htdocs
  <2>1. At(R, x) \in Path /\ At(Htdocs, x) \in Path /\ Parent(At(Htdocs, x)) = Htdocs
    BY <1>1, <1>2, Paths, Zenon
  <2>2. Place(At(R, x)) = At(Place(R), x)
    BY <1>1, <1>2, Joining DEF Path, At, Place
  <2> QED BY <1>1, <2>1, <2>2, Zenon
<1>4. ASSUME NEW x \in Names PROVE At(R, x) # None
  BY <1>1, <1>3, Zenon
<1> QED BY <1>1, <1>2, <1>3, <1>4, Zenon

\* While a directory is read the process is in it.
LEMMA InPlace ==
    ASSUME disk \in Trees, Shape, stack \in Seq(Frame), stack # <<>>, call = None
    PROVE  cwd = Place(Top.filedir) /\ cwd \in Path /\ Top.filedir \in Path
<1>1. Len(stack) \in Nat /\ Len(stack) # 0
  OBVIOUS
<1>2. CASE Len(stack) = 1
  BY <1>2, Roots DEF Shape, Top
<1>3. CASE Len(stack) = 2
  BY <1>3, Roots DEF Shape, Top
<1> QED BY <1>1, <1>2, <1>3 DEF Shape

\* What is read, then, is in the directory, and of the kind it seems to be.
LEMMA ReadRight ==
    ASSUME TypeOK, Shape, LeftListed, NEW name, NEW mode, ReadEntry(name, mode), name \notin {".", ".."}
    PROVE  /\ name \in Names /\ At(cwd, name) = cwd \o <<name>>
           /\ mode = "dir" => At(cwd, name) \in disk.dirs
           /\ mode = "file" => At(cwd, name) \in disk.files
<1>1. disk \in Trees /\ stack \in Seq(Frame) /\ stack # <<>> /\ call = None
      /\ name \in Top.left /\ mode \in Modes(name)
  BY DEF TypeOK, ReadEntry
<1>2. cwd = Place(Top.filedir) /\ cwd \in Path
  BY <1>1, InPlace
<1>3. Len(stack) \in 1..Len(stack)
  BY <1>1
<1>4. name \in Entries(disk, cwd)
  BY <1>1, <1>2, <1>3 DEF LeftListed, Top
<1>5. name \in Names /\ At(cwd, name) \in disk.dirs \cup disk.files
  BY <1>1, <1>2, <1>4, Listed
<1>6. At(cwd, name) = cwd \o <<name>> /\ disk.dirs \cap disk.files = {}
  BY <1>1, <1>2, <1>5, Paths, Tree
<1> QED BY <1>1, <1>5, <1>6 DEF Modes

\* What is plain about a plain tree.
LEMMA PlainTree ==
    ASSUME disk \in Trees, Plain(disk)
    PROVE  /\ disk.shut = {} /\ Htdocs \notin disk.closed
           /\ \A x \in Names : At(Htdocs, x) \in disk.dirs => At(Htdocs, x) \notin disk.closed /\ x # Root
           /\ \A x, y \in Names : At(At(Htdocs, x), y) \notin disk.dirs
<1>1. Htdocs \in Path /\ Start \o <<Root>> = Htdocs
  BY Tree
<1>2. /\ disk.shut = {} /\ Htdocs \notin disk.closed
      /\ \A p \in disk.dirs : Beneath(Htdocs, p) =>
            p \notin disk.closed /\ p # At(Htdocs, Root) /\ Len(p) = Len(Htdocs) + 1
  BY <1>1 DEF Plain, At
<1>3. ASSUME NEW x \in Names, At(Htdocs, x) \in disk.dirs
      PROVE  At(Htdocs, x) \notin disk.closed /\ x # Root
  <2>1. Beneath(Htdocs, At(Htdocs, x))
    BY <1>1, Paths, Zenon
  <2> QED BY <1>2, <1>3, <2>1, Zenon
<1>4. ASSUME NEW x \in Names, NEW y \in Names PROVE At(At(Htdocs, x), y) \notin disk.dirs
  <2>1. /\ At(Htdocs, x) \in Path /\ Len(At(Htdocs, x)) = Len(Htdocs) + 1 /\ Len(Htdocs) \in Nat
        /\ Beneath(Htdocs, At(Htdocs, x))
    BY <1>1, Paths, Zenon
  <2>2. Len(At(At(Htdocs, x), y)) = Len(At(Htdocs, x)) + 1
    BY <2>1, Paths, Zenon
  <2>3. Beneath(Htdocs, At(At(Htdocs, x), y))
    BY <1>1, <2>1, Farther DEF Path, At
  <2> QED BY <1>2, <2>1, <2>2, <2>3
<1> QED BY <1>2, <1>3, <1>4, Zenon

\* What the invariant says in a step, put together.
LEMMA Facts ==
    ASSUME TypeOK, LoadInv
    PROVE  /\ disk \in Trees /\ stack \in Seq(Frame) /\ Len(stack) \in Nat
           /\ (stack = <<>> <=> Len(stack) = 0)
           /\ None \notin Path
           /\ Shape /\ LeftListed /\ Level1 /\ Level2 /\ Named
BY TreesAssumption DEF TypeOK, LoadInv

LEMMA LoadInit == Init => LoadInv
<1> SUFFICES ASSUME Init PROVE LoadInv
  OBVIOUS
<1>1. disk \in Trees /\ cwd = Start /\ call = R /\ stack = <<>> /\ filemap = <<>>
  BY DEF Init, R
<1>2. call # None /\ DOMAIN filemap = {} /\ Len(stack) = 0
  BY <1>1, Roots
<1> QED BY <1>1, <1>2 DEF LoadInv, Shape, LeftListed, Level1, Level2, Unread, UnreadIn, Named

\* The directory of a file is a directory.
LEMMA InDirectory ==
    ASSUME disk \in Trees, NEW x \in Names, NEW y \in Names, At(At(Htdocs, x), y) \in disk.files
    PROVE  At(Htdocs, x) \in disk.dirs
<1>1. At(Htdocs, x) \in Path /\ Parent(At(At(Htdocs, x), y)) = At(Htdocs, x)
  BY Roots, Paths
<1> QED BY <1>1, Tree

LEMMA NamedStill ==
    ASSUME Named, UNCHANGED <<disk, filemap>>
    PROVE  Named'
BY DEF Named, Content

LEMMA OpenKeeps ==
    ASSUME TypeOK, LoadInv, Plain(disk), Open
    PROVE  LoadInv'
<1> DEFINE dir == cwd \o call
           frame == [filedir |-> call, left |-> Entries(disk, dir), mode |-> "uninitialized"]
<1>1. /\ disk \in Trees /\ stack \in Seq(Frame) /\ Len(stack) \in Nat
      /\ (stack = <<>> <=> Len(stack) = 0)
      /\ Shape /\ LeftListed /\ Level1 /\ Level2 /\ Named
  BY Facts
<1>2. call # None /\ call' = None /\ UNCHANGED <<disk, filemap>>
  BY DEF Open
<1>3. frame.filedir = call /\ frame.left = Entries(disk, dir)
  OBVIOUS
<1>4. dir \in disk.dirs \ disk.closed => stack' = Append(stack, frame) /\ cwd' = dir
  <2>1. disk.shut = {}
    BY <1>1, PlainTree
  <2> QED BY <2>1 DEF Open, CanOpen, CanEnter, Reached
<1>a. \A f : /\ Append(stack, f) # <<>> /\ Len(Append(stack, f)) = Len(stack) + 1
             /\ Append(stack, f)[Len(stack) + 1] = f
             /\ \A i \in 1..Len(stack) : Append(stack, f)[i] = stack[i]
  BY <1>1, AppendProperties
<1> HIDE DEF frame
<1>5. CASE stack = <<>>
  <2>1. call = R /\ cwd = Start /\ dir = Htdocs
    BY <1>1, <1>2, <1>5, Roots DEF Shape, Place
  <2>2. Htdocs \in disk.dirs \ disk.closed
    BY <1>1, PlainTree, Tree
  <2>3. /\ stack' # <<>> /\ Len(stack') = 1 /\ stack'[1] = frame /\ cwd' = Htdocs
        /\ frame.filedir = R /\ frame.left = Entries(disk, Htdocs)
    BY <1>1, <1>3, <1>4, <1>5, <1>a, <2>1, <2>2
  <2> HIDE DEF dir
  <2>4. Shape'
    BY <1>2, <2>3 DEF Shape
  <2>5. LeftListed'
    BY <1>1, <1>2, <2>3, Roots DEF LeftListed
  <2>6. \A x \in Names : x \in frame.left => Unread(x)'
    BY <2>3 DEF Unread
  <2>7. Level1'
    <3> SUFFICES ASSUME NEW x \in Names, At(Htdocs, x) \in disk.files PROVE Unread(x)'
      BY <1>2 DEF Level1
    <3> QED BY <1>1, <2>3, <2>6, Roots, Listing
  <2>8. Level2'
    <3> SUFFICES ASSUME NEW x \in Names, NEW y \in Names, At(At(Htdocs, x), y) \in disk.files
                 PROVE  Unread(x)'
      BY <1>2 DEF Level2, UnreadIn
    <3> QED BY <1>1, <2>3, <2>6, Roots, InDirectory, Listing
  <2> QED BY <1>1, <1>2, <2>4, <2>5, <2>7, <2>8, NamedStill DEF LoadInv
<1>6. CASE stack # <<>>
  <2>1. Len(stack) = 1 /\ stack[1].filedir = R /\ cwd = Start
    BY <1>1, <1>2, <1>6 DEF Shape
  <2>2. PICK x \in Names : call = At(R, x) /\ At(Htdocs, x) \in disk.dirs
    BY <1>1, <1>2, <1>6, <2>1 DEF Shape
  <2>3. dir = At(Htdocs, x) /\ At(Htdocs, x) \notin disk.closed
    BY <1>1, <2>1, <2>2, Roots, PlainTree DEF Place
  <2>a. stack' = Append(stack, frame) /\ cwd' = At(Htdocs, x)
    BY <1>4, <2>2, <2>3
  <2>b. /\ frame.filedir = At(R, x) /\ frame.left = Entries(disk, At(Htdocs, x))
        /\ Place(frame.filedir) = At(Htdocs, x)
    BY <1>1, <1>3, <2>2, <2>3, Roots
  <2>c. stack' # <<>> /\ Len(stack') = 2 /\ stack'[1] = stack[1] /\ stack'[2] = frame
    BY <1>a, <2>1, <2>a
  <2>4. /\ stack' # <<>> /\ Len(stack') = 2 /\ stack'[1] = stack[1] /\ stack'[2] = frame
        /\ cwd' = At(Htdocs, x) /\ frame.filedir = At(R, x)
        /\ frame.left = Entries(disk, At(Htdocs, x)) /\ Place(frame.filedir) = At(Htdocs, x)
    BY <2>a, <2>b, <2>c, Zenon
  <2> HIDE DEF dir
  <2>5. Shape'
    BY <1>2, <2>1, <2>2, <2>4 DEF Shape
  <2>6. LeftListed'
    BY <1>1, <1>2, <2>1, <2>4 DEF LeftListed
  <2>7. \A z \in Names : Unread(z) => Unread(z)'
    BY <1>6, <2>4 DEF Unread
  <2>8. Level1'
    BY <1>1, <1>2, <2>7, Zenon DEF Level1
  <2>9. Level2'
    <3> SUFFICES ASSUME NEW z \in Names, NEW y \in Names, At(At(Htdocs, z), y) \in disk.files
                 PROVE  At(At(R, z), y) \in DOMAIN filemap \/ UnreadIn(z, y)'
      BY <1>2 DEF Level2
    <3>1. At(At(R, z), y) \in DOMAIN filemap \/ UnreadIn(z, y)
      BY <1>1 DEF Level2
    <3>2. CASE call = At(R, z)
      <4>a. R \in Path /\ At(R, x) = At(R, z)
        BY <1>1, <2>2, <3>2, Roots
      <4>1. x = z
        BY <4>a, Same, Zenon
      <4>2. y \in frame.left
        BY <1>1, <2>4, <4>1, Roots, Listing
      <4> QED BY <2>4, <4>1, <4>2 DEF UnreadIn
    <3> QED BY <2>1, <2>7, <3>1, <3>2 DEF UnreadIn
  <2> QED BY <1>1, <1>2, <2>5, <2>6, <2>8, <2>9, NamedStill DEF LoadInv
<1> QED BY <1>5, <1>6

LEMMA ReturnKeeps ==
    ASSUME TypeOK, LoadInv, Return
    PROVE  LoadInv'
<1>1. /\ disk \in Trees /\ stack \in Seq(Frame) /\ Len(stack) \in Nat
      /\ (stack = <<>> <=> Len(stack) = 0)
      /\ Shape /\ LeftListed /\ Level1 /\ Level2 /\ Named
  BY Facts
<1>2. call = None /\ stack # <<>> /\ Top.left = {} /\ stack' = Below /\ cwd' = Parent(cwd)
      /\ UNCHANGED <<disk, call, filemap>>
  BY DEF Return
<1>3. /\ stack' \in Seq(Frame) /\ Len(stack') = Len(stack) - 1
      /\ \A i \in 1..(Len(stack) - 1) : stack'[i] = stack[i]
  BY <1>1, <1>2, Front DEF Below
<1>4. \A x \in Names : call # At(R, x)
  BY <1>1, <1>2, Roots
<1>5. CASE Len(stack) = 1
  <2>1. cwd = Htdocs /\ stack[1].left = {} /\ stack' = <<>> /\ cwd' = Start /\ Len(stack') = 0
    BY <1>1, <1>2, <1>3, <1>4, <1>5, Roots DEF Shape, Top
  <2>2. \A x : ~Unread(x)
    BY <1>2, <2>1 DEF Unread
  <2>3. Shape' /\ LeftListed'
    BY <1>2, <2>1 DEF Shape, LeftListed
  <2>4. Level1'
    BY <1>1, <1>2, <2>2, Zenon DEF Level1
  <2>5. \A x \in Names : \A y : ~UnreadIn(x, y)
    BY <1>4, <1>5, <2>2 DEF UnreadIn
  <2>6. Level2'
    BY <1>1, <1>2, <2>5, Zenon DEF Level2
  <2> QED BY <1>1, <1>2, <2>3, <2>4, <2>6, NamedStill DEF LoadInv
<1>6. CASE Len(stack) = 2
  <2>1. PICK x \in Names : stack[1].filedir = R /\ stack[2].filedir = At(R, x) /\ cwd = At(Htdocs, x)
    BY <1>1, <1>2, <1>6 DEF Shape
  <2>a. cwd' = Htdocs /\ stack[2].left = {}
    BY <1>1, <1>2, <1>6, <2>1, Roots DEF Top
  <2>b. Len(stack') = 1 /\ stack'[1] = stack[1]
    BY <1>3, <1>6
  <2>2. cwd' = Htdocs /\ Len(stack') = 1 /\ stack' # <<>> /\ stack'[1] = stack[1] /\ stack[2].left = {}
    BY <2>a, <2>b
  <2>3. Shape'
    BY <1>2, <2>1, <2>2 DEF Shape
  <2>4. LeftListed'
    BY <1>1, <1>2, <1>6, <2>2 DEF LeftListed
  <2>5. \A z : Unread(z) => Unread(z)'
    BY <1>2, <2>2 DEF Unread
  <2>6. Level1'
    BY <1>1, <1>2, <2>5, Zenon DEF Level1
  <2>7. \A z \in Names : \A y : UnreadIn(z, y) => Unread(z)
    BY <1>4, <2>2 DEF UnreadIn
  <2>8. \A z \in Names : \A y : UnreadIn(z, y) => UnreadIn(z, y)'
    BY <2>5, <2>7 DEF UnreadIn
  <2>9. Level2'
    BY <1>1, <1>2, <2>8, Zenon DEF Level2
  <2> QED BY <1>1, <1>2, <2>3, <2>4, <2>6, <2>9, NamedStill DEF LoadInv
<1> QED BY <1>1, <1>2, <1>5, <1>6 DEF Shape

\* An entry that is read is no longer left, and nothing else of the calls changes.
LEMMA ReadLeaves ==
    ASSUME TypeOK, NEW name, NEW mode \in {"dir", "file"}, ReadEntry(name, mode)
    PROVE  /\ stack # <<>> /\ stack' # <<>> /\ Len(stack') = Len(stack) /\ call = None
           /\ \A i \in 1..Len(stack) : /\ stack'[i].filedir = stack[i].filedir
                                     /\ stack'[i].left \subseteq stack[i].left
                                     /\ stack[i].left \subseteq stack'[i].left \cup {name}
           /\ \A i \in 1..(Len(stack) - 1) : stack'[i].left = stack[i].left
<1>1. /\ stack' \in Seq(Frame) /\ Top \in Frame /\ Len(stack') = Len(stack) /\ Len(stack) >= 1
      /\ stack'[Len(stack)] = [Top EXCEPT !.left = @ \ {name}, !.mode = mode]
      /\ \A i \in 1..(Len(stack) - 1) : stack'[i] = stack[i]
  BY ReadTypes
<1>2. stack \in Seq(Frame) /\ Len(stack) \in Nat /\ stack # <<>> /\ call = None
  BY DEF TypeOK, ReadEntry
<1>3. /\ stack'[Len(stack)].filedir = stack[Len(stack)].filedir
      /\ stack'[Len(stack)].left = stack[Len(stack)].left \ {name}
  BY <1>1 DEF Frame, Top
<1>4. ASSUME NEW i \in 1..Len(stack)
      PROVE  /\ stack'[i].filedir = stack[i].filedir
             /\ stack'[i].left \subseteq stack[i].left
             /\ stack[i].left \subseteq stack'[i].left \cup {name}
  <2>1. CASE i = Len(stack)
    BY <1>3, <2>1
  <2>2. CASE i # Len(stack)
    <3>1. stack'[i] = stack[i]
      BY <1>1, <1>2, <2>2
    <3> QED BY <3>1
  <2> QED BY <2>1, <2>2
<1>5. stack' # <<>>
  BY <1>1
<1> QED BY <1>1, <1>2, <1>4, <1>5, SMTT(30)

LEMMA SkipKeeps ==
    ASSUME TypeOK, LoadInv, NEW name, Skip(name)
    PROVE  LoadInv'
<1>1. /\ disk \in Trees /\ stack \in Seq(Frame) /\ Len(stack) \in Nat
      /\ Shape /\ LeftListed /\ Level1 /\ Level2 /\ Named
  BY Facts
<1>2. name \notin Names /\ ReadEntry(name, "dir") /\ UNCHANGED <<disk, cwd, call, filemap>>
  BY TreesAssumption DEF Skip
<1>3. /\ stack # <<>> /\ stack' # <<>> /\ Len(stack') = Len(stack) /\ call = None
      /\ \A i \in 1..Len(stack) : /\ stack'[i].filedir = stack[i].filedir
                                /\ stack'[i].left \subseteq stack[i].left
                                /\ stack[i].left \subseteq stack'[i].left \cup {name}
  BY <1>2, ReadLeaves
<1>4. Len(stack) \in 1..2
  BY <1>1, <1>3 DEF Shape
<1>5. Shape'
  BY <1>1, <1>2, <1>3, <1>4 DEF Shape
<1>6. LeftListed'
  BY <1>1, <1>2, <1>3 DEF LeftListed
<1>7. \A x \in Names : Unread(x) => Unread(x)'
  BY <1>2, <1>3, <1>4 DEF Unread
<1>8. \A x, y \in Names : UnreadIn(x, y) => UnreadIn(x, y)'
  BY <1>2, <1>3, <1>4, <1>7 DEF UnreadIn
<1>9. Level1'
  BY <1>1, <1>2, <1>7, Zenon DEF Level1
<1>10. Level2'
  BY <1>1, <1>2, <1>8, Zenon DEF Level2
<1> QED BY <1>1, <1>2, <1>5, <1>6, <1>9, <1>10, NamedStill DEF LoadInv

LEMMA DescendKeeps ==
    ASSUME TypeOK, LoadInv, Plain(disk), NEW name, Descend(name)
    PROVE  LoadInv'
<1>1. /\ disk \in Trees /\ stack \in Seq(Frame) /\ Len(stack) \in Nat
      /\ Shape /\ LeftListed /\ Level1 /\ Level2 /\ Named
  BY Facts
<1>2. /\ name \notin {".", ".."} /\ ReadEntry(name, "dir") /\ UNCHANGED <<disk, filemap>>
      /\ call' = At(Top.filedir, name)
  BY DEF Descend, At
<1>3. /\ stack # <<>> /\ stack' # <<>> /\ Len(stack') = Len(stack) /\ call = None
      /\ \A i \in 1..Len(stack) : /\ stack'[i].filedir = stack[i].filedir
                                /\ stack'[i].left \subseteq stack[i].left
                                /\ stack[i].left \subseteq stack'[i].left \cup {name}
  BY <1>2, ReadLeaves
<1>4. name \in Names /\ At(cwd, name) \in disk.dirs
  BY <1>1, <1>2, ReadRight
\* It is htdocs that is being read: there is no directory deeper down.
<1>5. Len(stack) = 1 /\ stack[1].filedir = R /\ cwd = Htdocs
  <2>1. Len(stack) # 2
    BY <1>1, <1>3, <1>4, PlainTree DEF Shape
  <2> QED BY <1>1, <1>3, <2>1, Roots DEF Shape
\* And chdir("htdocs") fails, so that chdir("..") leaves it.
<1>6. cwd' = Start
  <2>1. cwd \o <<Root>> = At(Htdocs, Root) /\ Root \in Names
    BY <1>1, <1>5, Roots, Joining, TreesAssumption DEF Path, At
  <2>2. At(Htdocs, Root) \notin disk.dirs
    BY <1>1, <2>1, PlainTree
  <2> QED BY <1>1, <1>5, <2>1, <2>2, Roots DEF Descend, CanEnter
<1>7. call' = At(R, name) /\ stack'[1].filedir = R
  BY <1>2, <1>3, <1>5 DEF Top
<1>8. Shape'
  BY <1>2, <1>3, <1>4, <1>5, <1>6, <1>7 DEF Shape
<1>9. LeftListed'
  BY <1>1, <1>2, <1>3 DEF LeftListed
<1>10. \A x \in Names : x # name /\ Unread(x) => Unread(x)'
  BY <1>3, <1>5 DEF Unread
<1>11. Level1'
  <2>1. At(Htdocs, name) \notin disk.files
    BY <1>1, <1>4, <1>5, Tree
  <2> QED BY <1>1, <1>2, <1>10, <2>1, Zenon DEF Level1
<1>12. \A x, y \in Names : UnreadIn(x, y) => UnreadIn(x, y)'
  <2> TAKE x, y \in Names
  <2>1. UnreadIn(x, y) => Unread(x)
    BY <1>1, <1>3, <1>5, Roots DEF UnreadIn
  <2> QED BY <1>7, <1>10, <2>1 DEF UnreadIn
<1>13. Level2'
  BY <1>1, <1>2, <1>12, Zenon DEF Level2
<1> QED BY <1>1, <1>2, <1>8, <1>9, <1>11, <1>13, NamedStill DEF LoadInv

LEMMA LoadKeeps ==
    ASSUME TypeOK, LoadInv, NEW name, Load(name)
    PROVE  LoadInv'
<1> DEFINE k == At(Top.filedir, name)
<1>1. /\ disk \in Trees /\ stack \in Seq(Frame) /\ Len(stack) \in Nat
      /\ Shape /\ LeftListed /\ Level1 /\ Level2 /\ Named
  BY Facts
<1>2. /\ name \notin {".", ".."} /\ ReadEntry(name, "file") /\ UNCHANGED <<disk, cwd, call>>
  BY DEF Load
<1>3. /\ stack # <<>> /\ stack' # <<>> /\ Len(stack') = Len(stack) /\ call = None
      /\ \A i \in 1..Len(stack) : /\ stack'[i].filedir = stack[i].filedir
                                /\ stack'[i].left \subseteq stack[i].left
                                /\ stack[i].left \subseteq stack'[i].left \cup {name}
      /\ \A i \in 1..(Len(stack) - 1) : stack'[i].left = stack[i].left
  BY <1>2, ReadLeaves
<1>4. name \in Names /\ At(cwd, name) = cwd \o <<name>> /\ At(cwd, name) \in disk.files
  BY <1>1, <1>2, ReadRight
<1>5. Place(k) = At(cwd, name)
  <2>1. cwd = Place(Top.filedir) /\ Top.filedir \in Path
    BY <1>1, <1>3, InPlace
  <2>2. Start \in Path
    BY <1>1, Tree
  <2>3. Place(At(Top.filedir, name)) = At(Place(Top.filedir), name)
    BY <1>4, <2>1, <2>2, Joining DEF Path, At, Place
  <2> QED BY <2>1, <2>3
<1>6. /\ DOMAIN filemap' = DOMAIN filemap \cup {k}
      /\ \A q \in DOMAIN filemap : filemap'[q] = filemap[q]
      /\ k \notin DOMAIN filemap => filemap'[k] = Content(At(cwd, name))
  <2>1. filemap' = (IF k \in DOMAIN filemap THEN filemap
                    ELSE [q \in DOMAIN filemap \cup {k} |->
                            IF q # k THEN filemap[q] ELSE Content(At(cwd, name))])
    BY <1>4 DEF Load, At
  <2> HIDE DEF k
  <2> QED BY <2>1
<1>7. Len(stack) \in 1..2
  BY <1>1, <1>3 DEF Shape
<1>8. Shape'
  BY <1>1, <1>2, <1>3, <1>7 DEF Shape
<1>9. LeftListed'
  BY <1>1, <1>2, <1>3 DEF LeftListed
<1>10. Named'
  BY <1>1, <1>2, <1>4, <1>5, <1>6 DEF Named, Content
<1>11. CASE Len(stack) = 1
  <2>1. stack[1].filedir = R /\ cwd = Htdocs /\ k = At(R, name)
    BY <1>1, <1>3, <1>11, Roots DEF Shape, Top
  <2>2. \A x \in Names : x # name /\ Unread(x) => Unread(x)'
    BY <1>3, <1>11 DEF Unread
  <2>3. Level1'
    BY <1>1, <1>2, <1>6, <2>1, <2>2, Zenon DEF Level1
  <2>4. \A x, y \in Names : UnreadIn(x, y) => Unread(x)
    BY <1>1, <1>3, <1>11, Roots DEF UnreadIn
  <2>5. \A y \in Names : At(At(Htdocs, name), y) \notin disk.files
    BY <1>1, <1>4, <2>1, InDirectory, Tree
  <2>6. Level2'
    BY <1>1, <1>2, <1>6, <2>2, <2>4, <2>5, Zenon DEF Level2, UnreadIn
  <2> QED BY <1>8, <1>9, <1>10, <2>3, <2>6 DEF LoadInv
<1>12. CASE Len(stack) = 2
  <2>1. PICK z \in Names : stack[2].filedir = At(R, z) /\ k = At(At(R, z), name)
    BY <1>1, <1>3, <1>12 DEF Shape, Top
  <2>2. \A x \in Names : Unread(x) => Unread(x)'
    BY <1>3, <1>12 DEF Unread
  <2>3. Level1'
    BY <1>1, <1>2, <1>6, <2>2, Zenon DEF Level1
  <2>4. \A x, y \in Names :
            UnreadIn(x, y) => UnreadIn(x, y)' \/ At(At(R, x), y) = k
    <3> SUFFICES ASSUME NEW x \in Names, NEW y \in Names, UnreadIn(x, y)
                 PROVE  UnreadIn(x, y)' \/ At(At(R, x), y) = k
      OBVIOUS
    <3>1. CASE Unread(x)
      BY <2>2, <3>1 DEF UnreadIn
    <3>2. CASE Len(stack) = 2 /\ stack[2].filedir = At(R, x) /\ y \in stack[2].left
      BY <1>3, <1>12, <2>1, <3>2 DEF UnreadIn, Top
    <3>3. call # At(R, x)
      BY <1>1, <1>3, Roots
    <3> QED BY <3>1, <3>2, <3>3 DEF UnreadIn
  <2>5. Level2'
    BY <1>1, <1>2, <1>6, <2>4, Zenon DEF Level2
  <2> QED BY <1>8, <1>9, <1>10, <2>3, <2>5 DEF LoadInv
<1> QED BY <1>7, <1>11, <1>12

\* What is behind where the server was started.
LEMMA Behind ==
    ASSUME NEW S, NEW d \in Seq(S), NEW k \in Seq(S)
    PROVE  SubSeq(d \o k, Len(d) + 1, Len(d \o k)) = k
OBVIOUS

\* The files below htdocs are in it or in a directory in it.
LEMMA TwoLevels ==
    ASSUME disk \in Trees, Plain(disk), NEW p \in disk.files, Beneath(Htdocs, p)
    PROVE  \/ \E x \in Names : p = At(Htdocs, x)
           \/ \E x, y \in Names : p = At(At(Htdocs, x), y)
<1>a. \A r \in Path : r # <<>> => \E q \in Path, y \in Names : r = At(q, y) /\ Parent(r) = q
  <2>1. \A r \in Path : r # <<>> =>
          \E q \in Path, y \in Names : r = At(q, y) /\ Parent(r) = q /\ r[Len(r)] = y
    BY Paths, Zenon
  <2> QED BY <2>1, Zenon
<1>b. /\ p \in Path /\ Htdocs \in Path /\ Parent(p) \in disk.dirs
      /\ disk.dirs \subseteq Path /\ Start \o <<Root>> = Htdocs
  BY Tree
<1>1. /\ p \in Path /\ Htdocs \in Path /\ Parent(p) \in disk.dirs /\ p # <<>>
      /\ disk.dirs \subseteq Path /\ Start \o <<Root>> = Htdocs
  <2>1. Len(Htdocs) \in Nat /\ Len(p) \in Nat /\ Len(p) > Len(Htdocs)
    BY <1>b DEF Beneath, Path
  <2> QED BY <1>b, <2>1
<1>2. PICK q \in Path, y \in Names : p = At(q, y) /\ Parent(p) = q
  BY <1>1, <1>a, Zenon
<1>3. q = Htdocs \/ Beneath(Htdocs, q)
  <2>1. \A d, r \in Path, x \in Names : Beneath(d, At(r, x)) => r = d \/ Beneath(d, r)
    BY Paths, Zenon
  <2> QED BY <1>1, <1>2, <2>1, Zenon
<1>4. CASE Beneath(Htdocs, q)
  <2>1. q \in disk.dirs /\ Len(q) = Len(Htdocs) + 1 /\ Len(Htdocs) \in Nat
    <3>1. \A r \in disk.dirs : Beneath(Htdocs, r) => Len(r) = Len(Htdocs) + 1
      BY <1>1 DEF Plain
    <3>2. Len(Htdocs) \in Nat
      BY <1>1 DEF Path
    <3> QED BY <1>1, <1>2, <1>4, <3>1, <3>2, Zenon
  <2>2. q # <<>>
    BY <2>1
  <2>3. PICK r \in Path, x \in Names : q = At(r, x)
    BY <1>a, <2>2, Zenon
  <2>4. Len(q) = Len(r) + 1 /\ Len(r) \in Nat
    BY <2>3, Paths, Zenon
  <2>5. r = Htdocs \/ Beneath(Htdocs, r)
    <3>1. \A d, t \in Path, z \in Names : Beneath(d, At(t, z)) => t = d \/ Beneath(d, t)
      BY Paths, Zenon
    <3> QED BY <1>1, <1>4, <2>3, <3>1, Zenon
  <2>6. ~Beneath(Htdocs, r)
    BY <2>1, <2>4 DEF Beneath
  <2> QED BY <1>2, <2>3, <2>5, <2>6, Zenon
<1> QED BY <1>2, <1>3, <1>4, Zenon

LEMMA LoadedRight ==
    ASSUME TypeOK, LoadInv, Plain(disk)
    PROVE  PlainTreesLoaded
<1>1. /\ disk \in Trees /\ Level1 /\ Level2 /\ Named
      /\ \A k \in DOMAIN filemap : k \in Path
  BY Facts DEF TypeOK
<1>2. \A k \in Path : SubSeq(Place(k), Len(Start) + 1, Len(Place(k))) = k
  BY <1>1, Tree, Behind DEF Place, Path
<1>3. ASSUME Loaded, NEW p \in Under(disk, Start \o <<Root>>)
      PROVE  SubSeq(p, Len(Start) + 1, Len(p)) \in DOMAIN filemap
  <2>1. p \in disk.files /\ Beneath(Htdocs, p)
    BY <1>1, <1>3, Tree DEF Under
  <2>2. \A x \in Names : ~Unread(x)
    BY <1>3 DEF Loaded, Unread
  <2>3. \A x, y \in Names : ~UnreadIn(x, y)
    BY <1>1, <1>3, <2>2, Roots DEF Loaded, UnreadIn
  <2>4. \E k \in DOMAIN filemap : p = Place(k)
    <3>1. CASE \E x \in Names : p = At(Htdocs, x)
      <4>1. PICK x \in Names : p = At(Htdocs, x)
        BY <3>1
      <4>2. At(R, x) \in DOMAIN filemap /\ Place(At(R, x)) = p
        BY <1>1, <2>1, <2>2, <4>1, Roots DEF Level1
      <4> QED BY <4>2
    <3>2. CASE \E x, y \in Names : p = At(At(Htdocs, x), y)
      <4>1. PICK x \in Names, y \in Names : p = At(At(Htdocs, x), y)
        BY <3>2
      <4>2. At(At(R, x), y) \in DOMAIN filemap
        BY <1>1, <2>1, <2>3, <4>1, Zenon DEF Level2
      <4>3. At(R, x) \in Path /\ Place(At(R, x)) = At(Htdocs, x) /\ Start \in Path
        BY <1>1, Roots, Tree
      <4>4. Place(At(At(R, x), y)) = At(Place(At(R, x)), y)
        BY <4>3, Joining DEF Path, At, Place
      <4> QED BY <4>1, <4>2, <4>3, <4>4
    <3> QED BY <1>1, <2>1, <3>1, <3>2, TwoLevels
  <2> QED BY <1>1, <1>2, <2>4
<1>4. ASSUME NEW k \in DOMAIN filemap
      PROVE  filemap[k] = IF Start \o k \in disk.locked THEN None ELSE Start \o k
  BY <1>1 DEF Named, Content, Place
<1> QED BY <1>3, <1>4 DEF PlainTreesLoaded, LoadsEveryFile

\* What has been loaded stays as it is while requests are answered.
LEMMA LoadedStep ==
    TypeOK /\ (Plain(disk) => LoadInv) /\ [SiteNext]_siteVars
        => (TypeOK /\ (Plain(disk) => LoadInv))'
<1> SUFFICES ASSUME TypeOK, Plain(disk) => LoadInv, [SiteNext]_siteVars
             PROVE  TypeOK' /\ (Plain(disk)' => LoadInv')
  BY Zenon
<1>1. [Next]_vars
  BY DEF SiteNext, LoadSite, Accept, Parse, Handle, siteVars, vars
<1>2. TypeOK'
  BY <1>1, TypesStep
<1>3. disk' = disk
  BY <1>1 DEF Next, Open, Return, Skip, Descend, Load, vars
<1>4. Plain(disk)' => Plain(disk)
  BY <1>3
<1>5. ASSUME Plain(disk) PROVE LoadInv'
  <2>1. LoadInv
    BY <1>5
  <2>2. CASE Open
    BY <1>5, <2>1, <2>2, OpenKeeps
  <2>3. CASE Return
    BY <2>1, <2>3, ReturnKeeps
  <2>4. ASSUME NEW name, Skip(name) PROVE LoadInv'
    BY <2>1, <2>4, SkipKeeps
  <2>5. ASSUME NEW name, Descend(name) PROVE LoadInv'
    BY <1>5, <2>1, <2>5, DescendKeeps
  <2>6. ASSUME NEW name, Load(name) PROVE LoadInv'
    BY <2>1, <2>6, LoadKeeps
  <2>7. CASE UNCHANGED vars
    BY <2>1, <2>7, NamedStill DEF vars, LoadInv, Shape, LeftListed, Level1, Level2, Unread, UnreadIn
  <2> QED BY <1>1, <2>2, <2>3, <2>4, <2>5, <2>6, <2>7 DEF Next
<1> QED BY <1>2, <1>4, <1>5

\* Of every plain tree, with any number of directories and files, FileSys::dfs makes an
\* entry for each file below htdocs, whatever order readdir lists them in and although
\* it leaves directories by chdir("..") in two places; and no entry, while requests are
\* answered, has another file's content (FileSys.cc:40-77).
THEOREM TreeLoaded == SiteSpec => []PlainTreesLoaded
<1>1. SiteInit => TypeOK /\ (Plain(disk) => LoadInv)
  BY TypesInit, LoadInit DEF SiteInit
<1>2. TypeOK /\ (Plain(disk) => LoadInv) => PlainTreesLoaded
  BY LoadedRight DEF PlainTreesLoaded
<1> QED BY <1>1, <1>2, LoadedStep, PTL DEF SiteSpec

-----------------------------------------------------------------------------
(* Requests *)

\* What the array and a request hold.
Held == Req!Cells \cup {Req!Nul}

LEMMA Given ==
    /\ BufferSize \in Nat \ {0} /\ MaxRequests \in Nat /\ Root \in Names
    /\ Frames \subseteq [1..BufferSize -> Held] /\ Messages \subseteq Seq(Held)
    /\ [i \in 1..BufferSize |-> Req!Nul] \in [1..BufferSize -> Held]
<1>1. /\ Frames \subseteq [1..BufferSize -> Req!Cells] /\ Messages \subseteq Seq(Req!Cells)
      /\ BufferSize \in Nat \ {0} /\ MaxRequests \in Nat
  BY SiteAssumption
<1>2. Req!Cells \subseteq Held /\ Req!Nul \in Held
  BY DEF Held
<1> HIDE DEF Held
<1>3. Seq(Req!Cells) \subseteq Seq(Held)
  BY <1>2
<1> QED BY <1>1, <1>2, <1>3, TreesAssumption

LEMMA Minimum ==
    ASSUME NEW S \in SUBSET Nat, S # {}
    PROVE  Req!Min(S) \in S /\ \A y \in S : Req!Min(S) <= y
<1>1. \E x \in S : \A y \in S : x <= y
  BY Least
<1> QED BY <1>1 DEF Req!Min

\* As far as recv can fill the array.
LEMMA Room == 
    ASSUME NEW n \in Nat
    PROVE  0..Req!Min({n, BufferSize}) = {k \in Nat : k <= n /\ k <= BufferSize}
<1>1. BufferSize \in Nat
  BY Given
<1>2. Req!Min({n, BufferSize}) \in {n, BufferSize} /\ \A y \in {n, BufferSize} : Req!Min({n, BufferSize}) <= y
  BY <1>1, Minimum
<1> QED BY <1>1, <1>2

\* The search for a blank, or for what is none, stops at the first.
LEMMA First ==
    ASSUME NEW i \in Nat, i <= BufferSize + 1, NEW blank \in BOOLEAN
    PROVE  LET f == Req!FirstFrom(i, blank) IN
           /\ f \in Nat /\ i <= f /\ f <= BufferSize + 1
           /\ \A j \in i..(f - 1) : ~((data[j] = Req!Blank) <=> blank)
           /\ f <= BufferSize => ((data[f] = Req!Blank) <=> blank)
<1> DEFINE S == {j \in i..BufferSize : (data[j] = Req!Blank) <=> blank}
           T == S \cup {BufferSize + 1}
           f == Req!Min(T)
<1>1. BufferSize \in Nat
  BY Given
<1>2. T \in SUBSET Nat /\ T # {} /\ S \subseteq i..BufferSize
  BY <1>1
<1>3. f \in T /\ \A y \in T : f <= y
  <2> HIDE DEF T
  <2> QED BY <1>2, Minimum
<1>4. f \in Nat /\ i <= f /\ f <= BufferSize + 1
  BY <1>1, <1>2, <1>3
<1>5. ASSUME NEW j \in i..(f - 1) PROVE ~((data[j] = Req!Blank) <=> blank)
  <2>1. j \in i..BufferSize /\ ~(f <= j)
    BY <1>1, <1>4
  <2>2. j \notin S
    BY <1>3, <2>1
  <2> QED BY <2>1, <2>2
<1>6. f <= BufferSize => ((data[f] = Req!Blank) <=> blank)
  BY <1>1, <1>3
<1>7. Req!FirstFrom(i, blank) = f
  BY DEF Req!FirstFrom
<1> QED BY <1>4, <1>5, <1>6, <1>7

\* The next token: no blank in it, nothing but blanks before it, a blank behind it.
LEMMA NextOne ==
    ASSUME cursor \in 1..BufferSize, Req!TokenEnd <= BufferSize
    PROVE  /\ Req!TokenStart \in 1..BufferSize /\ Req!TokenEnd \in 1..BufferSize
           /\ cursor <= Req!TokenStart /\ Req!TokenStart < Req!TokenEnd
           /\ \A j \in cursor..(Req!TokenStart - 1) : data[j] = Req!Blank
           /\ \A j \in Req!TokenStart..(Req!TokenEnd - 1) : data[j] # Req!Blank
           /\ data[Req!TokenEnd] = Req!Blank
<1>1. BufferSize \in Nat /\ cursor \in Nat /\ cursor <= BufferSize + 1 /\ cursor >= 1
  BY Given
<1> DEFINE from == Req!FirstFrom(cursor, FALSE)
           to == Req!FirstFrom(from, TRUE)
<1>2. /\ from \in Nat /\ cursor <= from /\ from <= BufferSize + 1
      /\ \A j \in cursor..(from - 1) : data[j] = Req!Blank
      /\ from <= BufferSize => data[from] # Req!Blank
  BY <1>1, First
<1> HIDE DEF from
<1>3. /\ to \in Nat /\ from <= to /\ to <= BufferSize + 1
      /\ \A j \in from..(to - 1) : data[j] # Req!Blank
      /\ to <= BufferSize => data[to] = Req!Blank
  BY <1>2, First
<1> HIDE DEF to
<1>4. Req!TokenStart = from /\ Req!TokenEnd = to
  BY DEF from, to, Req!TokenStart, Req!TokenEnd
<1>5. from # to
  BY <1>1, <1>2, <1>3, <1>4
<1> QED BY <1>1, <1>2, <1>3, <1>4, <1>5

\* If there is none, no token ends between the cursor and the end of the array.
LEMMA NoMore ==
    ASSUME cursor \in 1..BufferSize, Req!TokenEnd > BufferSize,
           NEW i \in Nat, NEW j \in Nat, cursor <= i, i < j, j <= BufferSize, data[i] # Req!Blank
    PROVE  data[j] # Req!Blank
<1>1. BufferSize \in Nat /\ cursor \in Nat /\ cursor <= BufferSize + 1 /\ cursor >= 1
  BY Given
<1> DEFINE from == Req!FirstFrom(cursor, FALSE)
           to == Req!FirstFrom(from, TRUE)
<1>2. /\ from \in Nat /\ cursor <= from /\ from <= BufferSize + 1
      /\ \A k \in cursor..(from - 1) : data[k] = Req!Blank
  BY <1>1, First
<1> HIDE DEF from
<1>3. /\ to \in Nat /\ \A k \in from..(to - 1) : data[k] # Req!Blank
  BY <1>2, First
<1> HIDE DEF to
<1>4. Req!TokenEnd = to
  BY DEF from, to, Req!TokenStart, Req!TokenEnd
<1>5. from <= i
  BY <1>1, <1>2
<1> QED BY <1>1, <1>2, <1>3, <1>4, <1>5

Token == [from : 1..BufferSize, to : 1..BufferSize]

\* What is known of a request at each stage of reading it.
ScanTypes ==
    /\ data \in [1..BufferSize -> Held] /\ sent \in Seq(Held)
    /\ arrived \in Nat /\ arrived <= Len(sent) /\ arrived <= BufferSize
    /\ cursor \in 1..BufferSize /\ tokens \in Seq(Token)
    /\ stage \in {"idle", "read", "tokens", "parsed", "done", "thrown"}
    /\ stage \in {"idle", "read"} => tokens = <<>> /\ cursor = 1
    /\ stage \in {"tokens", "thrown"} => Len(tokens) < 6
    /\ stage \in {"parsed", "done"} => Len(tokens) = 6
    /\ method = "uninitialized" <=> tokens = <<>>

\* The tokens are in order, before the cursor.
InOrder ==
    /\ \A i \in 1..Len(tokens) : tokens[i].from <= tokens[i].to /\ tokens[i].to < cursor
    /\ \A i, j \in 1..Len(tokens) : i < j => tokens[i].to < tokens[j].from

\* They are what is between blanks, and all of it up to the cursor.
Words ==
    /\ \A i \in 1..Len(tokens) :
        /\ \A j \in tokens[i].from..tokens[i].to : data[j] # Req!Blank
        /\ tokens[i].to + 1 \in 1..BufferSize /\ data[tokens[i].to + 1] = Req!Blank
        /\ tokens[i].from = 1 \/ data[tokens[i].from - 1] = Req!Blank
    /\ \A j \in 1..(cursor - 1) :
        data[j] # Req!Blank => \E i \in 1..Len(tokens) : j \in tokens[i].from..tokens[i].to
    /\ tokens = <<>> => cursor = 1
    /\ tokens # <<>> => data[cursor] = Req!Blank

\* In front of what recv put there.
InFront == stage \notin {"idle", "read"} => \A i \in 1..arrived : data[i] = sent[i]

\* When no token is left.
Exhausted ==
    stage = "thrown" =>
        \A i, j \in 1..BufferSize :
            cursor <= i /\ i < j /\ data[i] # Req!Blank => data[j] # Req!Blank

Scan == ScanTypes /\ InOrder /\ Words /\ InFront /\ Exhausted

LEMMA ScanInit == Req!Init => Scan
BY Given DEF Req!Init, Scan, ScanTypes, InOrder, Words, InFront, Exhausted

LEMMA ScanBegin == Req!Begin => Scan'
BY Given DEF Req!Begin, Scan, ScanTypes, InOrder, Words, InFront, Exhausted

LEMMA ScanRead == Scan /\ Req!Read => Scan'
<1> SUFFICES ASSUME Scan, Req!Read PROVE Scan'
  OBVIOUS
<1>1. /\ data \in [1..BufferSize -> Held] /\ sent \in Seq(Held) /\ Len(sent) \in Nat
      /\ tokens = <<>> /\ cursor = 1 /\ cursor \in 1..BufferSize /\ method = "uninitialized"
  BY DEF Scan, ScanTypes, Req!Read
<1>2. /\ arrived' \in 0..Req!Min({Len(sent), BufferSize}) /\ stage' = "tokens"
      /\ data' = [i \in 1..BufferSize |-> IF i <= arrived' THEN sent[i] ELSE data[i]]
      /\ UNCHANGED <<sent, cursor, tokens, method>>
  BY DEF Req!Read
<1>3. arrived' \in Nat /\ arrived' <= Len(sent) /\ arrived' <= BufferSize /\ BufferSize \in Nat
  BY <1>1, <1>2, Room, Given
<1>4. \A i \in 1..arrived' : sent[i] \in Held /\ i \in 1..BufferSize
  BY <1>1, <1>3
<1> HIDE DEF Held
<1>5. data' \in [1..BufferSize -> Held] /\ \A i \in 1..arrived' : data'[i] = sent[i]
  BY <1>1, <1>2, <1>3, <1>4
<1> QED BY <1>1, <1>2, <1>3, <1>5 DEF Scan, ScanTypes, InOrder, Words, InFront, Exhausted

LEMMA ScanNext == Scan /\ Req!NextToken => Scan'
<1> SUFFICES ASSUME Scan, Req!NextToken PROVE Scan'
  OBVIOUS
<1> DEFINE from == Req!TokenStart
           end == Req!TokenEnd
           token == [from |-> from, to |-> end - 1]
<1>1. /\ stage = "tokens" /\ end <= BufferSize /\ tokens' = Append(tokens, token) /\ cursor' = end
      /\ method' = (IF tokens = <<>> THEN Req!MethodOf(data[from]) ELSE method)
      /\ stage' = (IF Len(tokens') = 6 THEN "parsed" ELSE "tokens")
      /\ UNCHANGED <<data, sent, arrived>>
  BY DEF Req!NextToken
<1>2. ScanTypes /\ InOrder /\ Words /\ InFront /\ cursor \in 1..BufferSize /\ BufferSize \in Nat
  BY Given DEF Scan, ScanTypes
<1>3. /\ from \in 1..BufferSize /\ end \in 1..BufferSize /\ cursor <= from /\ from < end
      /\ \A j \in cursor..(from - 1) : data[j] = Req!Blank
      /\ \A j \in from..(end - 1) : data[j] # Req!Blank
      /\ data[end] = Req!Blank
  BY <1>1, <1>2, NextOne
<1> HIDE DEF from, end
<1>4. token \in Token /\ token.from = from /\ token.to = end - 1
  BY <1>2, <1>3 DEF Token
<1>5. tokens \in Seq(Token) /\ Len(tokens) \in Nat /\ Len(tokens) < 6
  BY <1>1, <1>2 DEF ScanTypes
<1> HIDE DEF token
<1>6. /\ tokens' \in Seq(Token) /\ Len(tokens') = Len(tokens) + 1
      /\ tokens'[Len(tokens) + 1] = token /\ tokens' # <<>>
      /\ \A i \in 1..Len(tokens) : tokens'[i] = tokens[i] /\ tokens[i] \in Token
  BY <1>1, <1>4, <1>5
<1>7. \A i \in 1..Len(tokens') : i \in 1..Len(tokens) \/ i = Len(tokens) + 1
  BY <1>5, <1>6
<1>8. method' # "uninitialized"
  BY <1>1, <1>2 DEF ScanTypes, Req!MethodOf
<1>9. ScanTypes'
  BY <1>1, <1>2, <1>3, <1>5, <1>6, <1>8 DEF ScanTypes
<1>10. InOrder'
  <2>1. \A i \in 1..Len(tokens) : tokens[i].from <= tokens[i].to /\ tokens[i].to < cursor
    BY <1>2 DEF InOrder
  <2>2. \A i \in 1..Len(tokens) : tokens[i].to < cursor' /\ tokens[i].to < from
        /\ tokens[i].from \in Nat /\ tokens[i].to \in Nat
    <3>1. \A i \in 1..Len(tokens) : tokens[i].from \in Nat /\ tokens[i].to \in Nat
      BY <1>2, <1>6, SMTT(30) DEF Token
    <3>2. cursor' = end /\ cursor < end /\ cursor \in Nat /\ end \in Nat /\ from \in Nat
      BY <1>1, <1>2, <1>3
    <3> QED BY <1>3, <2>1, <3>1, <3>2
  <2>3. \A i \in 1..Len(tokens') : tokens'[i].from <= tokens'[i].to /\ tokens'[i].to < cursor'
    BY <1>1, <1>3, <1>4, <1>6, <1>7, <2>1, <2>2
  <2>4. ASSUME NEW i \in 1..Len(tokens'), NEW j \in 1..Len(tokens'), i < j
        PROVE  tokens'[i].to < tokens'[j].from
    <3>1. i \in 1..Len(tokens)
      BY <1>5, <1>6, <2>4
    <3>2. CASE j \in 1..Len(tokens)
      BY <1>2, <1>6, <2>4, <3>1, <3>2 DEF InOrder
    <3>3. CASE j = Len(tokens) + 1
      BY <1>4, <1>6, <2>2, <3>1, <3>3
    <3> QED BY <1>7, <3>2, <3>3
  <2> QED BY <2>3, <2>4 DEF InOrder
<1>11. Words'
  <2>1. ASSUME NEW i \in 1..Len(tokens')
        PROVE  /\ \A j \in tokens'[i].from..tokens'[i].to : data[j] # Req!Blank
               /\ tokens'[i].to + 1 \in 1..BufferSize /\ data[tokens'[i].to + 1] = Req!Blank
               /\ tokens'[i].from = 1 \/ data[tokens'[i].from - 1] = Req!Blank
    <3>1. CASE i \in 1..Len(tokens)
      BY <1>2, <1>6, <3>1 DEF Words
    <3>2. CASE i = Len(tokens) + 1
      <4>1. tokens'[i].from = from /\ tokens'[i].to = end - 1 /\ (end - 1) + 1 = end
        BY <1>3, <1>4, <1>6, <3>2
      <4>2. from = 1 \/ data[from - 1] = Req!Blank
        <5>1. CASE from = cursor /\ tokens # <<>>
          BY <1>2, <1>3, <5>1 DEF Words
        <5>2. CASE from = cursor /\ tokens = <<>>
          BY <1>2, <5>2 DEF Words
        <5>3. CASE from # cursor
          <6>1. (from - 1) \in cursor..(from - 1)
            BY <1>2, <1>3, <5>3
          <6> QED BY <1>3, <6>1
        <5> QED BY <5>1, <5>2, <5>3
      <4> QED BY <1>3, <4>1, <4>2
    <3> QED BY <1>7, <3>1, <3>2
  <2>2. ASSUME NEW j \in 1..(end - 1), data[j] # Req!Blank
        PROVE  \E i \in 1..Len(tokens') : j \in tokens'[i].from..tokens'[i].to
    <3>1. CASE j \in 1..(cursor - 1)
      <4>1. PICK i \in 1..Len(tokens) : j \in tokens[i].from..tokens[i].to
        BY <1>2, <2>2, <3>1 DEF Words
      <4>2. tokens'[i] = tokens[i] /\ i \in 1..Len(tokens')
        BY <1>5, <1>6
      <4> QED BY <4>1, <4>2
    <3>2. CASE j \notin 1..(cursor - 1)
      <4>1. j \in from..(end - 1)
        BY <1>2, <1>3, <2>2, <3>2
      <4>2. Len(tokens) + 1 \in 1..Len(tokens')
        BY <1>5, <1>6
      <4> QED BY <1>4, <1>6, <4>1, <4>2
    <3> QED BY <3>1, <3>2
  <2> QED BY <1>1, <1>3, <1>6, <2>1, <2>2 DEF Words
<1>12. InFront' /\ Exhausted'
  BY <1>1, <1>2 DEF InFront, Exhausted
<1> QED BY <1>9, <1>10, <1>11, <1>12 DEF Scan

LEMMA ScanThrow == Scan /\ Req!Throw => Scan'
<1> SUFFICES ASSUME Scan, Req!Throw PROVE Scan'
  OBVIOUS
<1>1. /\ stage = "tokens" /\ Req!TokenEnd > BufferSize /\ stage' = "thrown"
      /\ UNCHANGED <<data, sent, arrived, cursor, tokens, method>>
  BY DEF Req!Throw
<1>2. cursor \in 1..BufferSize /\ BufferSize \in Nat
  BY Given DEF Scan, ScanTypes
<1>3. ASSUME NEW i \in 1..BufferSize, NEW j \in 1..BufferSize, cursor <= i, i < j, data[i] # Req!Blank
      PROVE  data[j] # Req!Blank
  <2>1. i \in Nat /\ j \in Nat /\ j <= BufferSize
    BY <1>2
  <2> QED BY <1>1, <1>2, <1>3, <2>1, NoMore
<1> QED BY <1>1, <1>3 DEF Scan, ScanTypes, InOrder, Words, InFront, Exhausted

LEMMA ScanDone ==
    ASSUME Scan, stage = "parsed", stage' = "done",
           UNCHANGED <<data, sent, arrived, cursor, tokens, method>>
    PROVE  Scan'
BY DEF Scan, ScanTypes, InOrder, Words, InFront, Exhausted

LEMMA ScanSame == Scan /\ UNCHANGED request => Scan'
BY DEF request, Scan, ScanTypes, InOrder, Words, InFront, Exhausted

LEMMA ScanTyped == Scan => Req!TypeOK
<1> SUFFICES ASSUME Scan PROVE Req!TypeOK
  OBVIOUS
<1>0. ScanTypes /\ InOrder
  BY DEF Scan
<1>a. sent \in Seq(Held) /\ tokens \in Seq(Token)
  BY <1>0 DEF ScanTypes
<1>1. ScanTypes /\ InOrder /\ BufferSize \in Nat /\ Len(sent) \in Nat /\ Len(tokens) \in Nat
      /\ DOMAIN tokens = 1..Len(tokens)
  BY <1>0, <1>a, Given
<1>b. arrived \in Nat /\ arrived <= Len(sent) /\ arrived <= BufferSize
  BY <1>0 DEF ScanTypes
<1>2. arrived \in 0..Req!Min({Len(sent), BufferSize})
  <2>1. 0..Req!Min({Len(sent), BufferSize}) = {k \in Nat : k <= Len(sent) /\ k <= BufferSize}
    BY <1>1, Room
  <2> HIDE DEF Req!Min
  <2> QED BY <1>b, <2>1
<1>3. Len(tokens) \in 0..6
  <2>1. tokens = <<>> \/ Len(tokens) < 6 \/ Len(tokens) = 6
    BY <1>0 DEF ScanTypes
  <2>2. Len(tokens) \in Nat
    BY <1>1
  <2>3. tokens = <<>> => Len(tokens) = 0
    OBVIOUS
  <2>4. \A n \in Nat : n = 0 \/ n < 6 \/ n = 6 => n \in 0..6
    OBVIOUS
  <2> QED BY <2>1, <2>2, <2>3, <2>4, Zenon
<1>4. ASSUME NEW i \in DOMAIN tokens
      PROVE  /\ tokens[i].from <= tokens[i].to /\ tokens[i].to < cursor
             /\ i > 1 => tokens[i - 1].to < tokens[i].from
  <2>1. i \in 1..Len(tokens)
    BY <1>1
  <2>2. i > 1 => i - 1 \in 1..Len(tokens) /\ i - 1 < i
    BY <1>1, <2>1
  <2> QED BY <1>1, <2>1, <2>2 DEF InOrder
<1>5. /\ stage \in {"idle", "read", "tokens", "parsed", "done", "thrown"}
      /\ cursor \in 1..BufferSize /\ (method = "uninitialized" <=> tokens = <<>>)
  BY <1>0 DEF ScanTypes
<1> QED BY <1>2, <1>3, <1>4, <1>5, Zenon DEF Req!TypeOK

-----------------------------------------------------------------------------
(* The tokens of the array are those of the request *)

\* A token, and where the blank behind it is.
Pair(i) == <<tokens[i].from, tokens[i].to + 1>>

\* What Ended says, of cells of the array.
LEMMA EndedIs ==
    ASSUME Scan, stage \notin {"idle", "read"}
    PROVE  /\ Req!Ended \in SUBSET (Nat \X Nat) /\ IsFiniteSet(Req!Ended)
           /\ \A a, b \in Nat : <<a, b>> \in Req!Ended <=>
                /\ 1 <= a /\ a < b /\ b <= arrived /\ data[b] = Req!Blank
                /\ \A i \in a..(b - 1) : data[i] # Req!Blank
                /\ a = 1 \/ data[a - 1] = Req!Blank
<1>1. arrived \in Nat /\ \A i \in 1..arrived : data[i] = sent[i]
  BY DEF Scan, ScanTypes, InFront
<1>2. IsFiniteSet(1..arrived)
  BY <1>1, FS_Interval
<1>3. IsFiniteSet((1..arrived) \X (1..arrived))
  BY <1>2, FS_Product
<1>4. Req!Ended \in SUBSET ((1..arrived) \X (1..arrived))
  BY DEF Req!Ended
<1>5. IsFiniteSet(Req!Ended)
  BY <1>3, <1>4, FS_Subset
<1>6. ASSUME NEW a \in Nat, NEW b \in Nat
      PROVE  <<a, b>> \in Req!Ended <=>
                /\ 1 <= a /\ a < b /\ b <= arrived /\ data[b] = Req!Blank
                /\ \A i \in a..(b - 1) : data[i] # Req!Blank
                /\ a = 1 \/ data[a - 1] = Req!Blank
  <2>1. <<a, b>> \in Req!Ended <=>
            /\ a \in 1..arrived /\ b \in 1..arrived /\ a < b /\ sent[b] = Req!Blank
            /\ \A i \in a..(b - 1) : sent[i] # Req!Blank
            /\ a = 1 \/ sent[a - 1] = Req!Blank
    BY DEF Req!Ended
  <2>2. CASE a \in 1..arrived /\ b \in 1..arrived /\ a < b
    <3>1. data[b] = sent[b] /\ (\A i \in a..(b - 1) : data[i] = sent[i])
          /\ (a # 1 => data[a - 1] = sent[a - 1])
      BY <1>1, <2>2
    <3> QED BY <1>1, <2>1, <2>2, <3>1
  <2>3. CASE ~(a \in 1..arrived /\ b \in 1..arrived /\ a < b)
    BY <1>1, <2>1, <2>3
  <2> QED BY <2>2, <2>3
<1> QED BY <1>1, <1>4, <1>5, <1>6

LEMMA TokenTypes ==
    ASSUME Scan
    PROVE  /\ cursor \in Nat /\ arrived \in Nat /\ Len(tokens) \in Nat
           /\ \A i \in 1..Len(tokens) :
                /\ tokens[i].from \in Nat /\ tokens[i].to \in Nat /\ 1 <= tokens[i].from
                /\ tokens[i].from <= tokens[i].to /\ tokens[i].to < cursor
           /\ \A i, j \in 1..Len(tokens) : i < j => tokens[i].to < tokens[j].from
<1>1. /\ tokens \in Seq(Token) /\ cursor \in 1..BufferSize /\ arrived \in Nat /\ InOrder
      /\ BufferSize \in Nat
  BY Given DEF Scan, ScanTypes
<1>2. \A i \in 1..Len(tokens) : tokens[i] \in Token
  BY <1>1
<1>3. \A t \in Token : t.from \in Nat /\ t.to \in Nat /\ 1 <= t.from
  BY <1>1 DEF Token
<1>4. cursor \in Nat /\ Len(tokens) \in Nat
  BY <1>1
<1> QED BY <1>1, <1>2, <1>3, <1>4 DEF InOrder

\* A token of the request before the cursor is one that was found.
LEMMA Found ==
    ASSUME Scan, stage \notin {"idle", "read"}, NEW p \in Req!Ended, p[1] < cursor
    PROVE  \E i \in 1..Len(tokens) : p = Pair(i)
<1>1. PICK a \in Nat, b \in Nat : p = <<a, b>>
  BY EndedIs
<1>2. /\ 1 <= a /\ a < b /\ b <= arrived /\ data[b] = Req!Blank
      /\ \A i \in a..(b - 1) : data[i] # Req!Blank
      /\ a = 1 \/ data[a - 1] = Req!Blank
  BY <1>1, EndedIs
<1>3. a \in 1..(cursor - 1) /\ data[a] # Req!Blank
  BY <1>1, <1>2, TokenTypes
<1>4. PICK i \in 1..Len(tokens) : a \in tokens[i].from..tokens[i].to
  BY <1>3 DEF Scan, Words
<1>5. /\ tokens[i].from \in Nat /\ tokens[i].to \in Nat /\ 1 <= tokens[i].from
      /\ \A j \in tokens[i].from..tokens[i].to : data[j] # Req!Blank
      /\ data[tokens[i].to + 1] = Req!Blank
  BY TokenTypes DEF Scan, Words
<1>6. a = tokens[i].from
  <2>1. a # tokens[i].from => a # 1 /\ (a - 1) \in tokens[i].from..tokens[i].to
    BY <1>4, <1>5
  <2> QED BY <1>2, <1>5, <2>1
<1>7. ~(b <= tokens[i].to)
  <2>1. b <= tokens[i].to => b \in tokens[i].from..tokens[i].to
    BY <1>2, <1>4, <1>5
  <2> QED BY <1>2, <1>5, <2>1
<1>8. ~(b > tokens[i].to + 1)
  <2>1. b > tokens[i].to + 1 => (tokens[i].to + 1) \in a..(b - 1)
    BY <1>2, <1>4, <1>5
  <2> QED BY <1>2, <1>5, <2>1
<1>9. b = tokens[i].to + 1
  BY <1>5, <1>7, <1>8
<1> QED BY <1>1, <1>6, <1>9 DEF Pair

\* And one that was found in front of what arrived is a token of the request.
LEMMA Real ==
    ASSUME Scan, stage \notin {"idle", "read"}, NEW i \in 1..Len(tokens), tokens[i].to + 1 <= arrived
    PROVE  Pair(i) \in Req!Ended
<1>1. /\ tokens[i].from \in Nat /\ tokens[i].to \in Nat /\ 1 <= tokens[i].from
      /\ tokens[i].from <= tokens[i].to
  BY TokenTypes
<1>2. /\ \A j \in tokens[i].from..tokens[i].to : data[j] # Req!Blank
      /\ data[tokens[i].to + 1] = Req!Blank
      /\ tokens[i].from = 1 \/ data[tokens[i].from - 1] = Req!Blank
  BY DEF Scan, Words
<1> DEFINE a == tokens[i].from
           b == tokens[i].to + 1
<1>3. a \in Nat /\ b \in Nat /\ a < b /\ b - 1 = tokens[i].to
  BY <1>1
<1>4. /\ 1 <= a /\ a < b /\ b <= arrived /\ data[b] = Req!Blank
      /\ \A k \in a..(b - 1) : data[k] # Req!Blank
      /\ a = 1 \/ data[a - 1] = Req!Blank
  BY <1>1, <1>2, <1>3
<1> HIDE DEF a, b
<1>5. <<a, b>> \in Req!Ended
  BY <1>3, <1>4, EndedIs
<1> QED BY <1>5 DEF Pair, a, b

\* A set of tokens that were found is no larger than their number.
LEMMA Counted ==
    ASSUME NEW n \in Nat, NEW S, \A p \in S : \E i \in 1..n : p = Pair(i)
    PROVE  Cardinality(S) <= n /\ Cardinality(S) \in Nat
<1> DEFINE T == {Pair(i) : i \in 1..n}
           f == [i \in 1..n |-> Pair(i)]
<1>1. f \in Surjection(1..n, T)
  BY DEF Surjection
<1>2. ExistsSurjection(1..n, T)
  BY <1>1 DEF ExistsSurjection
<1>3. Cardinality(T) <= n /\ IsFiniteSet(T)
  <2> HIDE DEF T
  <2> QED BY <1>2, FS_SurjCardinalityBound, FS_NatSurjection
<1>4. S \in SUBSET T
  OBVIOUS
<1> HIDE DEF T
<1>5. Cardinality(S) <= Cardinality(T) /\ IsFiniteSet(S)
  BY <1>3, <1>4, FS_Subset
<1>6. Cardinality(S) \in Nat /\ Cardinality(T) \in Nat
  BY <1>3, <1>5, FS_CardinalityType
<1> QED BY <1>3, <1>5, <1>6

\* The server ends only of a request of which fewer than six tokens have come.
LEMMA Few ==
    ASSUME Scan, stage = "thrown"
    PROVE  Cardinality(Req!Ended) < 6
<1>1. ASSUME NEW p \in Req!Ended PROVE p[1] < cursor
  <2>1. PICK a \in Nat, b \in Nat : p = <<a, b>>
    BY EndedIs
  <2>2. /\ 1 <= a /\ a < b /\ b <= arrived /\ data[b] = Req!Blank
        /\ \A i \in a..(b - 1) : data[i] # Req!Blank
    BY <2>1, EndedIs
  <2>3. data[a] # Req!Blank
    BY <2>2
  <2>4. a \in 1..BufferSize /\ b \in 1..BufferSize
    BY <2>2, TokenTypes, Given DEF Scan, ScanTypes
  <2>5. ~(cursor <= a)
    BY <2>2, <2>3, <2>4 DEF Scan, Exhausted
  <2> QED BY <2>1, <2>5, TokenTypes
<1>2. Len(tokens) \in Nat /\ Len(tokens) < 6
  BY TokenTypes DEF Scan, ScanTypes
<1>3. \A p \in Req!Ended : \E i \in 1..Len(tokens) : p = Pair(i)
  BY <1>1, Found
<1>4. Cardinality(Req!Ended) <= Len(tokens) /\ Cardinality(Req!Ended) \in Nat
  BY <1>2, <1>3, Counted
<1> QED BY <1>2, <1>4

LEMMA SameCount == ASSUME NEW S PROVE Req!Cardinality(S) = Cardinality(S)
BY DEF Cardinality, Req!Cardinality

LEMMA Two == ASSUME NEW x, NEW y, x # y PROVE Cardinality({x, y}) = 2 /\ IsFiniteSet({x, y})
<1>1. IsFiniteSet({x}) /\ Cardinality({x}) = 1
  BY FS_Singleton
<1>2. IsFiniteSet({x} \cup {y}) /\ Cardinality({x} \cup {y}) = 2
  BY <1>1, FS_AddElement
<1>3. {x, y} = {x} \cup {y}
  OBVIOUS
<1> QED BY <1>2, <1>3

\* With two tokens of the request there, the second that was found is its second.
LEMMA Second ==
    ASSUME Scan, stage \notin {"idle", "read"}, Len(tokens) = 6, Cardinality(Req!Ended) >= 2
    PROVE  tokens[2].to + 1 <= arrived /\ Req!Nth(2) = Pair(2)
<1> DEFINE upto(x) == {q \in Req!Ended : q[1] <= x}
<1>1. /\ cursor \in Nat /\ arrived \in Nat
      /\ \A i \in 1..6 : /\ tokens[i].from \in Nat /\ tokens[i].to \in Nat
                        /\ tokens[i].from <= tokens[i].to /\ tokens[i].to < cursor
      /\ \A i, j \in 1..6 : i < j => tokens[i].to < tokens[j].from
  BY TokenTypes
<1>2. \A p \in Req!Ended : /\ p \in Nat \X Nat /\ p[1] \in Nat /\ p[2] \in Nat
                           /\ p[1] < p[2] /\ p[2] <= arrived
  <2> TAKE p \in Req!Ended
  <2>1. PICK a \in Nat, b \in Nat : p = <<a, b>>
    BY EndedIs
  <2>2. a < b /\ b <= arrived
    BY <2>1, EndedIs
  <2> QED BY <2>1, <2>2
<1>3. \A i \in 1..6 : Pair(i)[1] = tokens[i].from /\ Pair(i)[2] = tokens[i].to + 1
  BY DEF Pair
<1>4. tokens[2].to + 1 <= arrived
  <2> SUFFICES ASSUME ~(tokens[2].to + 1 <= arrived) PROVE FALSE
    OBVIOUS
  <2>1. ASSUME NEW p \in Req!Ended PROVE \E i \in 1..1 : p = Pair(i)
    <3>1. p[1] < cursor
      BY <1>1, <1>2
    <3>2. PICK i \in 1..6 : p = Pair(i)
      BY <3>1, Found
    <3>3. ~(2 < i) /\ i # 2
      BY <1>1, <1>2, <1>3, <3>2
    <3> QED BY <3>2, <3>3
  <2>2. Cardinality(Req!Ended) <= 1 /\ Cardinality(Req!Ended) \in Nat
    BY <2>1, Counted
  <2> QED BY <2>2
<1>5. Pair(1) \in Req!Ended /\ Pair(2) \in Req!Ended /\ Pair(1) # Pair(2)
  <2>1. tokens[1].to + 1 <= arrived
    BY <1>1, <1>4
  <2>2. tokens[1].from # tokens[2].from
    BY <1>1
  <2> QED BY <1>3, <1>4, <2>1, <2>2, Real
<1>6. \A p \in Req!Ended : p = Pair(1) \/ p = Pair(2) \/ p[1] > tokens[2].from
  <2> TAKE p \in Req!Ended
  <2>1. CASE p[1] < cursor
    <3>1. PICK i \in 1..6 : p = Pair(i)
      BY <2>1, Found
    <3>2. i = 1 \/ i = 2 \/ tokens[2].to < tokens[i].from
      BY <1>1
    <3> QED BY <1>1, <1>3, <3>1, <3>2
  <2>2. CASE ~(p[1] < cursor)
    BY <1>1, <1>2, <2>2
  <2> QED BY <2>1, <2>2
<1>7. upto(Pair(2)[1]) = {Pair(1), Pair(2)}
  BY <1>1, <1>2, <1>3, <1>5, <1>6
<1>8. upto(Pair(1)[1]) = {Pair(1)}
  BY <1>1, <1>2, <1>3, <1>5, <1>6
<1>9. ASSUME NEW p \in Req!Ended, Cardinality(upto(p[1])) = 2
      PROVE  p = Pair(2)
  <2>1. p # Pair(1)
    <3>1. Cardinality({Pair(1)}) = 1
      BY FS_Singleton
    <3> QED BY <1>8, <1>9, <3>1
  <2>2. CASE p # Pair(2)
    <3>1. p[1] > tokens[2].from
      BY <1>6, <2>1, <2>2
    <3>2. {Pair(1), Pair(2)} \cup {p} \in SUBSET upto(p[1])
      BY <1>1, <1>2, <1>3, <1>5, <3>1
    <3>3. Cardinality({Pair(1), Pair(2)}) = 2 /\ IsFiniteSet({Pair(1), Pair(2)})
      BY <1>5, Two
    <3>4. p \notin {Pair(1), Pair(2)}
      BY <2>1, <2>2
    <3>5. Cardinality({Pair(1), Pair(2)} \cup {p}) = 3
      BY <3>3, <3>4, FS_AddElement
    <3>6. IsFiniteSet(upto(p[1]))
      <4>1. upto(p[1]) \in SUBSET Req!Ended
        OBVIOUS
      <4> HIDE DEF upto
      <4> QED BY <4>1, EndedIs, FS_Subset
    <3> HIDE DEF upto
    <3>7. 3 <= Cardinality(upto(p[1]))
      BY <3>2, <3>5, <3>6, FS_Subset
    <3> QED BY <1>9, <3>7
  <2> QED BY <2>2
<1>10. Cardinality(upto(Pair(2)[1])) = 2
  <2>1. Cardinality({Pair(1), Pair(2)}) = 2
    BY <1>5, Two
  <2> HIDE DEF upto
  <2> QED BY <1>7, <2>1
<1>11. \A p \in Req!Ended : Cardinality(upto(p[1])) = 2 <=> p = Pair(2)
  BY <1>9, <1>10
<1>12. (CHOOSE p \in Req!Ended : Cardinality(upto(p[1])) = 2) = Pair(2)
  <2> HIDE DEF upto
  <2> QED BY <1>5, <1>11
<1>13. Req!Nth(2) = Pair(2)
  BY <1>12, SameCount DEF Req!Nth
<1> QED BY <1>4, <1>13

LEMMA Pieces ==
    ASSUME NEW S, NEW s \in Seq(S), NEW t \in Seq(S), NEW m \in Nat, NEW n \in Nat,
           1 <= m, m <= n, n <= Len(s), n <= Len(t), \A i \in m..n : s[i] = t[i]
    PROVE  /\ SubSeq(s, m, n) = SubSeq(t, m, n)
           /\ SubSeq(s, m, n) \in Seq(S) /\ Len(SubSeq(s, m, n)) >= 1
<1>1. SubSeq(s, m, n) \in Seq(S) /\ SubSeq(t, m, n) \in Seq(S)
  OBVIOUS
<1>2. Len(SubSeq(s, m, n)) = n - m + 1 /\ Len(SubSeq(t, m, n)) = n - m + 1
  OBVIOUS
<1>3. \A i \in 1..(n - m + 1) : SubSeq(s, m, n)[i] = SubSeq(t, m, n)[i]
  OBVIOUS
<1>4. SubSeq(s, m, n) = SubSeq(t, m, n)
  BY <1>1, <1>2, <1>3, SeqEqual
<1> QED BY <1>1, <1>2, <1>4

\* The url that is looked up is a sequence of cells, and not empty.
LEMMA UrlIs ==
    ASSUME Scan, Len(tokens) = 6
    PROVE  Req!Url \in Seq(Held) /\ Len(Req!Url) \in Nat /\ Len(Req!Url) >= 1
<1>1. /\ tokens[2].from \in Nat /\ tokens[2].to \in Nat /\ 1 <= tokens[2].from
      /\ tokens[2].from <= tokens[2].to /\ tokens[2].to < cursor /\ cursor <= BufferSize
      /\ cursor \in Nat
  BY TokenTypes, Given DEF Scan, ScanTypes
<1>2. data \in Seq(Held) /\ Len(data) = BufferSize /\ BufferSize \in Nat
  BY Given DEF Scan, ScanTypes
<1> DEFINE m == tokens[2].from
           n == tokens[2].to
<1>3. m \in Nat /\ n \in Nat /\ 1 <= m /\ m <= n /\ n <= Len(data)
  BY <1>1, <1>2
<1>4. Req!Url = SubSeq(data, m, n)
  BY DEF Req!Url
<1> HIDE DEF m, n
<1>5. SubSeq(data, m, n) \in Seq(Held) /\ Len(SubSeq(data, m, n)) >= 1
  BY <1>2, <1>3, Pieces
<1>6. \A u \in Seq(Held) : Len(u) \in Nat
  OBVIOUS
<1> QED BY <1>4, <1>5, <1>6, Zenon

\* The url that is looked up, then, is the one that was sent.
LEMMA UrlRight ==
    ASSUME Scan, stage \notin {"idle", "read"}, Len(tokens) = 6, Cardinality(Req!Ended) >= 2
    PROVE  Req!Url = Req!UrlSent
<1>1. Req!Nth(2)[1] = tokens[2].from /\ Req!Nth(2)[2] - 1 = tokens[2].to
  BY Second, TokenTypes DEF Pair
<1>2. /\ tokens[2].from \in Nat /\ tokens[2].to \in Nat /\ 1 <= tokens[2].from
      /\ tokens[2].from <= tokens[2].to /\ tokens[2].to < cursor /\ cursor <= BufferSize
      /\ tokens[2].to + 1 <= arrived /\ arrived \in Nat /\ cursor \in Nat
  BY Second, TokenTypes, Given DEF Scan, ScanTypes
<1>3. /\ data \in Seq(Held) /\ Len(data) = BufferSize /\ BufferSize \in Nat
      /\ sent \in Seq(Held) /\ Len(sent) \in Nat /\ arrived <= Len(sent)
  BY Given DEF Scan, ScanTypes
<1>4. \A i \in tokens[2].from..tokens[2].to : data[i] = sent[i]
  BY <1>2 DEF Scan, InFront
<1> DEFINE m == tokens[2].from
           n == tokens[2].to
<1>5. m \in Nat /\ n \in Nat /\ 1 <= m /\ m <= n /\ n <= Len(data) /\ n <= Len(sent)
      /\ \A i \in m..n : data[i] = sent[i]
  BY <1>2, <1>3, <1>4
<1>6. Req!Url = SubSeq(data, m, n) /\ Req!UrlSent = SubSeq(sent, m, n)
  BY <1>1 DEF Req!Url, Req!UrlSent
<1> HIDE DEF m, n
<1>7. SubSeq(data, m, n) = SubSeq(sent, m, n)
  BY <1>3, <1>5, Pieces
<1> QED BY <1>6, <1>7, Zenon

-----------------------------------------------------------------------------
(* What is answered *)

\* The names there are in a url, and of files.
UrlNames == Names \cup {Index} \cup {c.name : c \in Held}

LEMMA BelowIt ==
    ASSUME NEW S, NEW d \in Seq(S), NEW w \in Seq(S), Len(w) >= 1
    PROVE  Beneath(d, d \o w)
<1>1. Len(d \o w) = Len(d) + Len(w) /\ Len(d) \in Nat /\ Len(w) \in Nat
  OBVIOUS
<1>2. SubSeq(d \o w, 1, Len(d)) = d
  OBVIOUS
<1> QED BY <1>1, <1>2 DEF Beneath

LEMMA Joined ==
    ASSUME NEW S, NEW d \in Seq(S), NEW v \in Seq(S), NEW w \in Seq(S)
    PROVE  d \o (v \o w) = (d \o v) \o w
BY ConcatAssociative

\* Where a url leads to is below htdocs.
LEMMA KeyIs ==
    ASSUME disk \in Trees, NEW url \in Seq(Held), Len(url) >= 1
    PROVE  /\ Beneath(Htdocs, Place(Key(url)))
           /\ SubSeq(Place(Key(url)), Len(Start) + 1, Len(Place(Key(url)))) = Key(url)
<1>1. Start \in Seq(UrlNames) /\ R \in Seq(UrlNames) /\ Htdocs = Start \o R
      /\ <<Index>> \in Seq(UrlNames)
  <2>1. Start \in Seq(Names) /\ Start \o <<Root>> = Htdocs /\ Root \in Names
    BY Tree, Given DEF Path
  <2>2. Names \subseteq UrlNames /\ Index \in UrlNames
    BY DEF UrlNames
  <2>3. Start \in Seq(UrlNames)
    BY <2>1, <2>2
  <2> QED BY <2>1, <2>2, <2>3 DEF R
<1>2. PICK w \in Seq(UrlNames) : Key(url) = R \o w /\ Len(w) >= 1
  <2>1. CASE url[Len(url)] = Req!Cell("segment", "")
    <3>1. Key(url) = <<Root, Index>>
      BY <2>1 DEF Key
    <3>2. <<Root, Index>> = R \o <<Index>> /\ Len(<<Index>>) >= 1
      BY DEF R
    <3> QED BY <1>1, <3>1, <3>2, Zenon
  <2>2. CASE url[Len(url)] # Req!Cell("segment", "")
    <3> DEFINE w == [i \in DOMAIN url |-> url[i].name]
    <3>1. DOMAIN url = 1..Len(url) /\ Len(url) \in Nat /\ \A i \in DOMAIN url : url[i] \in Held
      OBVIOUS
    <3>2. w \in [1..Len(url) -> UrlNames]
      BY <3>1 DEF UrlNames
    <3>3. Key(url) = R \o w
      BY <2>2 DEF Key, R
    <3> HIDE DEF w
    <3>4. w \in Seq(UrlNames) /\ Len(w) = Len(url)
      BY <3>1, <3>2
    <3> QED BY <3>3, <3>4
  <2> QED BY <2>1, <2>2
<1>3. Place(Key(url)) = Htdocs \o w
  <2>1. Start \o (R \o w) = (Start \o R) \o w
    BY <1>1, Joined
  <2> QED BY <1>1, <1>2, <2>1, Zenon DEF Place
<1>4. Htdocs \in Seq(UrlNames) /\ Key(url) \in Seq(UrlNames)
  BY <1>1, <1>2
<1>5. Beneath(Htdocs, Htdocs \o w)
  BY <1>2, <1>4, BelowIt
<1>6. SubSeq(Place(Key(url)), Len(Start) + 1, Len(Place(Key(url)))) = Key(url)
  BY <1>1, <1>4, Behind DEF Place
<1> QED BY <1>3, <1>5, <1>6

\* Nothing is asked for before everything is loaded, and what was loaded is what is
\* answered.
Answers ==
    /\ stage # "idle" => Loaded
    /\ nulls # {} => Loaded
    /\ nulls \cap DOMAIN filemap = {}
    /\ requests \in 0..MaxRequests
    /\ page = <<>> \/ \E x : page = <<x>>
    /\ stage \in {"read", "tokens", "parsed"} => page = <<>>
    /\ stage = "done" =>
        page = IF Key(Req!Url) \in DOMAIN filemap THEN <<filemap[Key(Req!Url)]>> ELSE <<>>

SiteInv == TypeOK /\ (Plain(disk) => LoadInv) /\ Scan /\ Answers

LEMMA SiteStart == SiteInit => SiteInv
<1> SUFFICES ASSUME SiteInit PROVE SiteInv
  OBVIOUS
<1>1. Init /\ Req!Init /\ nulls = {} /\ requests = 0 /\ page = <<>> /\ stage = "idle"
  BY DEF SiteInit, Req!Init
<1>2. Answers
  BY <1>1, Given DEF Answers
<1> QED BY <1>1, <1>2, TypesInit, LoadInit, ScanInit DEF SiteInv

\* When everything is loaded, nothing more is.
LEMMA LoadedStays == Loaded /\ [Next]_vars => UNCHANGED vars
BY DEF Loaded, Next, Open, Return, Skip, Descend, Load, ReadEntry

LEMMA SiteStep == SiteInv /\ [SiteNext]_siteVars => SiteInv'
<1> SUFFICES ASSUME SiteInv, [SiteNext]_siteVars PROVE SiteInv'
  OBVIOUS
<1>1. TypeOK' /\ (Plain(disk)' => LoadInv')
  BY LoadedStep DEF SiteInv
<1>2. Scan /\ Answers
  BY DEF SiteInv
<1>3. MaxRequests \in Nat
  BY Given
<1>4. CASE LoadSite
  <2>1. Next /\ UNCHANGED <<request, nulls, requests, page>>
    BY <1>4 DEF LoadSite
  <2>2. Scan'
    BY <1>2, <2>1, ScanSame
  <2>3. CASE Loaded
    <3>1. UNCHANGED vars
      BY <2>1, <2>3, LoadedStays
    <3> QED BY <1>1, <1>2, <2>1, <2>2, <3>1 DEF SiteInv, Answers, Loaded, vars, request, Req!Url
  <2>4. CASE ~Loaded
    <3>1. stage = "idle" /\ nulls = {}
      BY <1>2, <2>4 DEF Answers
    <3>2. stage' = "idle" /\ nulls' = {} /\ UNCHANGED <<requests, page>>
      BY <2>1, <3>1 DEF request
    <3>3. Answers'
      BY <1>2, <3>2 DEF Answers
    <3> QED BY <1>1, <2>2, <3>3 DEF SiteInv
  <2> QED BY <2>3, <2>4
<1>5. CASE Accept
  <2>1. Loaded /\ requests < MaxRequests /\ Req!Begin /\ requests' = requests + 1 /\ page' = <<>>
        /\ UNCHANGED <<vars, nulls>> /\ stage' = "read"
    BY <1>5 DEF Accept, Req!Begin
  <2>2. Scan'
    BY <2>1, ScanBegin
  <2>3. Loaded' /\ filemap' = filemap
    BY <2>1 DEF Loaded, vars
  <2>4. Answers'
    BY <1>2, <1>3, <2>1, <2>3 DEF Answers
  <2> QED BY <1>1, <2>2, <2>4 DEF SiteInv
<1>6. CASE Parse
  <2>1. (Req!Read \/ Req!NextToken \/ Req!Throw) /\ UNCHANGED <<vars, nulls, requests, page>>
    BY <1>6 DEF Parse
  <2>2. Scan'
    BY <1>2, <2>1, ScanRead, ScanNext, ScanThrow
  <2>3. stage \in {"read", "tokens"} /\ stage' \in {"tokens", "parsed", "thrown"}
    BY <2>1 DEF Req!Read, Req!NextToken, Req!Throw
  <2>4. Loaded' <=> Loaded
    BY <2>1 DEF Loaded, vars
  <2>5. Answers'
    BY <1>2, <2>1, <2>3, <2>4 DEF Answers, vars
  <2> QED BY <1>1, <2>2, <2>5 DEF SiteInv
<1>7. CASE Handle
  <2> DEFINE k == Key(Req!Url)
  <2>1. /\ stage = "parsed" /\ stage' = "done"
        /\ UNCHANGED <<vars, data, sent, arrived, cursor, tokens, method, requests>>
        /\ IF k \in DOMAIN filemap THEN page' = <<filemap[k]>> /\ UNCHANGED nulls
           ELSE nulls' = nulls \cup {k} /\ UNCHANGED page
    BY <1>7 DEF Handle
  <2>2. Scan'
    BY <1>2, <2>1, ScanDone, SMTT(30)
  <2>3. Req!Url' = Req!Url /\ Key(Req!Url)' = k /\ filemap' = filemap
    BY <2>1 DEF Req!Url, vars, Key
  <2>4. Loaded /\ Loaded'
    BY <1>2, <2>1 DEF Answers, Loaded, vars
  <2>5. page = <<>>
    BY <1>2, <2>1 DEF Answers
  <2> HIDE DEF k
  <2>6. Answers'
    BY <1>2, <2>1, <2>3, <2>4, <2>5 DEF Answers
  <2> QED BY <1>1, <2>2, <2>6 DEF SiteInv
<1>8. CASE UNCHANGED siteVars
  <2>1. UNCHANGED <<vars, request, nulls, requests, page>>
    BY <1>8 DEF siteVars
  <2>2. Scan'
    BY <1>2, <2>1, ScanSame, SMTT(30)
  <2>3. Answers'
    BY <1>2, <2>1 DEF Answers, Loaded, vars, request, Req!Url, Key
  <2> QED BY <1>1, <2>2, <2>3 DEF SiteInv
<1> QED BY <1>4, <1>5, <1>6, <1>7, <1>8 DEF SiteNext

\* What was looked up in vain is not in the map; the tokens of a request are apart, in
\* order and inside the array, whatever it held before (HttpRequest.cc:23-70, FileSys.hh:27).
THEOREM SiteTyping == SiteSpec => []SiteTypeOK
<1>1. SiteInv => SiteTypeOK
  <2> SUFFICES ASSUME SiteInv PROVE SiteTypeOK
    OBVIOUS
  <2>1. TypeOK /\ Scan /\ Answers
    BY DEF SiteInv
  <2>2. Len(page) \in 0..1
    BY <2>1 DEF Answers
  <2> QED BY <2>1, <2>2, ScanTyped DEF SiteTypeOK, Answers
<1> QED BY <1>1, SiteStart, SiteStep, PTL DEF SiteSpec

LEMMA AnsweredRight ==
    ASSUME SiteInv, stage = "done", Plain(disk), Cardinality(Req!Ended) >= 2
    PROVE  LET file == Start \o Key(Req!UrlSent)
           IN  page = IF file \in disk.locked THEN <<None>>
                      ELSE IF file \in disk.files THEN <<file>> ELSE <<>>
<1> DEFINE k == Key(Req!Url)
<1>1. /\ TypeOK /\ LoadInv /\ Scan /\ Loaded /\ disk \in Trees
      /\ page = IF k \in DOMAIN filemap THEN <<filemap[k]>> ELSE <<>>
  BY DEF SiteInv, Answers, TypeOK
<1>2. Len(tokens) = 6
  BY <1>1 DEF Scan, ScanTypes
<1>3. Req!UrlSent = Req!Url
  BY <1>1, <1>2, UrlRight
<1>4. Beneath(Htdocs, Place(k)) /\ SubSeq(Place(k), Len(Start) + 1, Len(Place(k))) = k
  BY <1>1, <1>2, UrlIs, KeyIs
<1> HIDE DEF k
<1>5. k \in DOMAIN filemap => Place(k) \in disk.files /\ filemap[k] = Content(Place(k))
  BY <1>1 DEF LoadInv, Named
<1>6. Place(k) \in disk.files => k \in DOMAIN filemap
  <2> SUFFICES ASSUME Place(k) \in disk.files PROVE k \in DOMAIN filemap
    OBVIOUS
  <2>1. Start \o <<Root>> = Htdocs
    BY <1>1, Tree
  <2>2. Place(k) \in Under(disk, Start \o <<Root>>)
    BY <1>4, <2>1 DEF Under
  <2>3. LoadsEveryFile
    BY <1>1, LoadedRight DEF PlainTreesLoaded
  <2> QED BY <1>1, <1>4, <2>2, <2>3 DEF LoadsEveryFile
<1>7. disk.locked \subseteq disk.files
  BY <1>1, Tree
<1>8. page = IF Place(k) \in disk.locked THEN <<None>>
             ELSE IF Place(k) \in disk.files THEN <<Place(k)>> ELSE <<>>
  BY <1>1, <1>5, <1>6, <1>7 DEF Content
<1>9. Place(k) = Start \o Key(Req!UrlSent)
  BY <1>3 DEF Place, k
<1> QED BY <1>8, <1>9

\* Whatever the tree, the requests and what the stacks of the threads hold: of a plain
\* tree, a request whose url has come with the blank behind it is answered with the file
\* it names below htdocs, and with no content of another, wherever recv cut it and
\* whatever stood in the array; and only a request of which fewer than six tokens have
\* come ends the server (HttpRequest.cc:23-98).
THEOREM Answered == SiteSpec => []RequestAnswered
<1>1. SiteInv => RequestAnswered
  <2> SUFFICES ASSUME SiteInv PROVE RequestAnswered
    OBVIOUS
  <2>1. stage = "thrown" => Cardinality(Req!Ended) < 6
    BY Few DEF SiteInv
  <2> QED BY <2>1, AnsweredRight DEF RequestAnswered
<1> QED BY <1>1, SiteStart, SiteStep, PTL DEF SiteSpec
=============================================================================
