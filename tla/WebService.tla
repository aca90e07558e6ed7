----------------------------- MODULE WebService -----------------------------
(***************************************************************************)
(* What the web server promises to the clients of its two ports, without   *)
(* threads, descriptors or a file map: connections are taken, served side  *)
(* by side and ended; a connection gets at most one page, between being    *)
(* taken and being ended, and only one that was loaded.  A client that     *)
(* asked gets one that fits what it asked.  One that shut its side without *)
(* asking may get a page all the same, one that memory still names: what   *)
(* another client asked that is read into the same memory, or what the     *)
(* stack holds.  The service may go down at any time; then nothing is      *)
(* served any more.                                                        *)
(***************************************************************************)
EXTENDS Sequences

CONSTANTS
    Clients, Requests, None,
    Pages,    \* what was loaded
    Fits,     \* Fits[c][r]: the pages that answer request r of client c
    Before,   \* Before[c]: the clients whose requests are read where c's are
    Stack     \* Stack[c]: the pages that may be named there before any request

VARIABLES
    up,      \* whether the service runs
    phase,   \* of each connection: "waiting", "taken" or "ended"
    asked,   \* what the client asked, None before
    shut,    \* whether it will ask nothing any more
    answer   \* the pages it received

vars == <<up, phase, asked, shut, answer>>

Init ==
    /\ up = TRUE
    /\ phase = [c \in Clients |-> "waiting"]
    /\ asked = [c \in Clients |-> None]
    /\ shut = [c \in Clients |-> FALSE]
    /\ answer = [c \in Clients |-> <<>>]

Ask(c) ==
    /\ asked[c] = None /\ ~shut[c]
    /\ \E r \in Requests : asked' = [asked EXCEPT ![c] = r]
    /\ UNCHANGED <<up, phase, shut, answer>>

Shut(c) ==
    /\ ~shut[c]
    /\ shut' = [shut EXCEPT ![c] = TRUE]
    /\ UNCHANGED <<up, phase, asked, answer>>

Take(c) ==
    /\ phase[c] = "waiting"
    /\ phase' = [phase EXCEPT ![c] = "taken"]
    /\ UNCHANGED <<up, asked, shut, answer>>

Leftover(c) ==
    Stack[c] \cup UNION {Fits[d][asked[d]] : d \in {e \in Before[c] : asked[e] # None}}

Answer(c) ==
    /\ phase[c] = "taken" /\ answer[c] = <<>>
    /\ \E p \in Pages :
        /\ \/ asked[c] # None /\ p \in Fits[c][asked[c]]
           \/ asked[c] = None /\ shut[c] /\ p \in Leftover(c)
        /\ answer' = [answer EXCEPT ![c] = <<p>>]
    /\ UNCHANGED <<up, phase, asked, shut>>

End(c) ==
    /\ phase[c] \in {"waiting", "taken"}
    /\ phase' = [phase EXCEPT ![c] = "ended"]
    /\ UNCHANGED <<up, asked, shut, answer>>

GoDown ==
    /\ up' = FALSE
    /\ UNCHANGED <<phase, asked, shut, answer>>

Next ==
    /\ up
    /\ GoDown \/ \E c \in Clients : Ask(c) \/ Shut(c) \/ Take(c) \/ Answer(c) \/ End(c)

Spec == Init /\ [][Next]_vars
=============================================================================
