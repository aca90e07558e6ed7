---------------------------- MODULE FileSysLoad ----------------------------
(***************************************************************************)
(* FileSys::dfs (FileSys.cc): the recursive descent that loads the files   *)
(* below htdocs before main starts.  It names files by the path it has     *)
(* descended, but opens everything relative to the current directory of    *)
(* the process, which it moves as it goes.                                 *)
(*                                                                         *)
(* A path is a sequence of names.  The recursion is a stack of frames, one *)
(* per directory being read.                                               *)
(***************************************************************************)
EXTENDS Integers, Sequences, FiniteSets

CONSTANTS
    Start,    \* the directory the server is started in
    Root,     \* the name of the directory to load: htdocs
    Names,    \* that files and directories may have
    Trees,    \* the file systems to load from
    None

Path == Seq(Names)
Parent(p) == IF p = <<>> THEN p ELSE SubSeq(p, 1, Len(p) - 1)
\* Below a directory.
Beneath(d, p) == Len(p) > Len(d) /\ SubSeq(p, 1, Len(d)) = d

\* A tree has directories and files.  A closed directory cannot be read (what S_IFDIR
\* & st_mode takes for a directory and is none, a socket, is one too), one that is shut
\* cannot be entered, a locked file cannot be opened.  What is in the tree is in a
\* directory of it.
IsTree(t) ==
    /\ t.closed \subseteq t.dirs /\ t.shut \subseteq t.dirs /\ t.locked \subseteq t.files
    /\ \A p \in t.shut : Beneath(Start, p)
    /\ t.dirs \cap t.files = {} /\ <<>> \in t.dirs
    /\ \A p \in t.dirs \cup t.files : p \in Path /\ Parent(p) \in t.dirs
    /\ Start \in t.dirs \ t.closed /\ Start \o <<Root>> \in t.dirs

ASSUME TreesAssumption ==
    /\ Names \cap {".", ".."} = {} /\ Root \in Names /\ None \notin Path
    /\ \A t \in Trees : IsTree(t)

VARIABLES
    disk,     \* the tree
    cwd,      \* current directory of the process
    call,     \* argument of the call of dfs that is about to run, or None
    stack,    \* the calls that are reading a directory, innermost last
    filemap   \* the entries made: key |-> the file whose content it holds, or None

vars == <<disk, cwd, call, stack, filemap>>

Top == stack[Len(stack)]
Below == SubSeq(stack, 1, Len(stack) - 1)

\* What readdir lists, in an order of its own.
Entries(t, d) ==
    {".", ".."} \cup {p[Len(p)] : p \in {q \in (t.dirs \cup t.files) \ {<<>>} : Parent(q) = d}}

\* Whether opendir and chdir succeed on a path: not when a directory on the way cannot
\* be entered.  One that can be opened need not let chdir in, nor the reverse.
Reached(t, p) == \A q \in t.shut : ~Beneath(q, p)
CanOpen(t, p) == p \in t.dirs \ t.closed /\ Reached(t, p)
CanEnter(t, p) == p \in t.dirs \ t.shut /\ Reached(t, p)

Init ==
    /\ disk \in Trees
    /\ cwd = Start
    /\ call = <<Root>>
    /\ stack = <<>>
    /\ filemap = <<>>

\* Mutant: chdir without a look at what opendir returned.
OpenUnchecked ==
    LET dir == cwd \o call IN
    /\ call # None
    /\ call' = None
    /\ cwd' = dir
    /\ stack' = IF CanOpen(disk, dir)
                THEN Append(stack, [filedir |-> call, left |-> Entries(disk, dir),
                                    mode |-> "uninitialized"])
                ELSE stack
    /\ UNCHANGED <<disk, filemap>>

\* Mutant: a directory that cannot be opened is tried again.
OpenRetried ==
    LET dir == cwd \o call IN
    /\ call # None
    /\ CanOpen(disk, dir)
    /\ call' = None
    /\ stack' = Append(stack, [filedir |-> call, left |-> Entries(disk, dir),
                               mode |-> "uninitialized"])
    /\ cwd' = IF CanEnter(disk, dir) THEN dir ELSE cwd
    /\ UNCHANGED <<disk, filemap>>

\* opendir and chdir to the same path; when opendir fails the call returns, when only
\* chdir does the directory is read from where the process is.
Open ==
    LET dir == cwd \o call IN
    /\ call # None
    /\ call' = None
    /\ IF CanOpen(disk, dir)
       THEN /\ stack' = Append(stack, [filedir |-> call, left |-> Entries(disk, dir),
                                       mode |-> "uninitialized"])
            /\ cwd' = IF CanEnter(disk, dir) THEN dir ELSE cwd
       ELSE UNCHANGED <<stack, cwd>>
    /\ UNCHANGED <<disk, filemap>>

\* What statbuf says after lstat(name): of something of that name in the current
\* directory, and if there is none, what it said before.
Modes(name) ==
    LET p == cwd \o <<name>> IN
    IF name \in {".", ".."} \/ p \in disk.dirs THEN {"dir"}
    ELSE IF p \in disk.files THEN {"file"}
    ELSE IF Top.mode = "uninitialized" THEN {"dir", "file"}
    ELSE {Top.mode}

ReadEntry(name, mode) ==
    /\ call = None /\ stack # <<>>
    /\ name \in Top.left /\ mode \in Modes(name)
    /\ stack' = Append(Below, [Top EXCEPT !.left = @ \ {name}, !.mode = mode])

\* The entries . and .. are skipped.
Skip(name) ==
    /\ name \in {".", ".."}
    /\ ReadEntry(name, "dir")
    /\ UNCHANGED <<disk, cwd, call, filemap>>

\* chdir("htdocs"), which fails unless there is one here, chdir(".."), dfs.
Descend(name) ==
    LET inner == cwd \o <<Root>> IN
    /\ name \notin {".", ".."}
    /\ ReadEntry(name, "dir")
    /\ cwd' = IF CanEnter(disk, inner) THEN cwd ELSE Parent(cwd)
    /\ call' = Append(Top.filedir, name)
    /\ UNCHANGED <<disk, filemap>>

\* What the constructor of the servlet reads: the file of that name in the current
\* directory.  One that does not open leaves the servlet without a content.
Content(p) == IF p \in disk.files \ disk.locked THEN p ELSE None

\* A servlet is made, and insert keeps an entry that is there.
Load(name) ==
    LET k == Append(Top.filedir, name)
    IN  /\ name \notin {".", ".."}
        /\ ReadEntry(name, "file")
        /\ filemap' = IF k \in DOMAIN filemap THEN filemap
                      ELSE [q \in DOMAIN filemap \cup {k} |->
                              IF q # k THEN filemap[q] ELSE Content(cwd \o <<name>>)]
        /\ UNCHANGED <<disk, cwd, call>>

\* Mutant: no chdir("..") before the return.
ReturnStaying ==
    /\ call = None /\ stack # <<>> /\ Top.left = {}
    /\ stack' = Below
    /\ UNCHANGED <<disk, cwd, call, filemap>>

\* The directory is read to its end: chdir("..") and return.
Return ==
    /\ call = None /\ stack # <<>> /\ Top.left = {}
    /\ stack' = Below
    /\ cwd' = Parent(cwd)
    /\ UNCHANGED <<disk, call, filemap>>

Next ==
    \/ Open \/ Return
    \/ \E name \in UNION {f.left : f \in {stack[i] : i \in DOMAIN stack}} :
          Skip(name) \/ Descend(name) \/ Load(name)

Spec == Init /\ [][Next]_vars /\ WF_vars(Next)

-----------------------------------------------------------------------------
Loaded == call = None /\ stack = <<>>

\* The files below a directory.
Under(t, d) == {p \in t.files : Beneath(d, p)}

Frame == [filedir : Path, left : SUBSET (Names \cup {".", ".."}), mode : {"uninitialized", "dir", "file"}]

TypeOK ==
    /\ disk \in Trees
    /\ cwd \in disk.dirs
    /\ call \in Path \cup {None}
    /\ stack \in Seq(Frame)
    /\ \A k \in DOMAIN filemap : k \in Path /\ filemap[k] \in Path \cup {None}

\* Every file below htdocs has an entry once the loading is over: "Recursively
\* descend through file system loading each file".
LoadsEveryFile ==
    Loaded => \A p \in Under(disk, Start \o <<Root>>) :
                  SubSeq(p, Len(Start) + 1, Len(p)) \in DOMAIN filemap

\* The trees the recursion is at home in: htdocs can be read and entered and so can what
\* is in it, which is at most one level of directories, none of them an htdocs that
\* chdir("htdocs") would find.
Plain(t) ==
    LET htdocs == Start \o <<Root>> IN
    /\ t.shut = {}
    /\ htdocs \notin t.closed
    /\ \A p \in t.dirs : Beneath(htdocs, p) =>
        /\ p \notin t.closed /\ p # Append(htdocs, Root)
        /\ Len(p) = Len(htdocs) + 1

\* Of a plain tree every file is loaded, in whatever order readdir lists them, and
\* an entry holds the content of the file it is named after, so that a url can only
\* be answered by the file it names; only a file that is locked has an entry with no
\* content of its own.
PlainTreesLoaded ==
    Plain(disk) =>
        /\ LoadsEveryFile
        /\ \A k \in DOMAIN filemap :
            filemap[k] = IF Start \o k \in disk.locked THEN None ELSE Start \o k

\* The loading ends, whatever is there to load.
LoadingEnds == <>Loaded
=============================================================================
