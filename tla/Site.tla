-------------------------------- MODULE Site --------------------------------
(***************************************************************************)
(* A site from its files to the reply: FileSys loads the tree (FileSysLoad)*)
(* before main starts; then requests come one after the other, and what    *)
(* the tokenizer takes for the url of each (RequestTokens) is looked up in *)
(* the map that was loaded.  Threads at once are in HttpServer.            *)
(***************************************************************************)
EXTENDS FileSysLoad

CONSTANTS
    BufferSize, Frames, Messages,   \* of RequestTokens
    Served,        \* the trees that requests are made of
    Index,         \* the name of index.html
    MaxRequests    \* how many requests there are

VARIABLES
    stage, data, sent, arrived, cursor, tokens, method,   \* of RequestTokens
    nulls,      \* keys that were looked up in vain: their entry is the null pointer
    requests,   \* taken so far
    page        \* what the last one was sent: one content, which may be None, or nothing

request == <<stage, data, sent, arrived, cursor, tokens, method>>
siteVars == <<vars, request, nulls, requests, page>>

Req == INSTANCE RequestTokens

ASSUME SiteAssumption ==
    /\ Served \subseteq Trees
    /\ BufferSize \in Nat \ {0} /\ MaxRequests \in Nat
    /\ Frames \subseteq [1..BufferSize -> Req!Cells] /\ Messages \subseteq Seq(Req!Cells)
    /\ \A t \in Served : \A p \in t.files : \A m \in Messages : \A i \in DOMAIN m :
        m[i].kind = "word" => m[i].name # p[Len(p)]

\* The key of a url: what ends in '/' is answered with /index.html.
Key(url) ==
    IF url[Len(url)] = Req!Cell("segment", "") THEN <<Root, Index>>
    ELSE <<Root>> \o [i \in DOMAIN url |-> url[i].name]

SiteInit ==
    /\ Init /\ Req!Init
    /\ nulls = {} /\ requests = 0 /\ page = <<>>

LoadSite ==
    /\ Next
    /\ UNCHANGED <<request, nulls, requests, page>>

\* The next connection is accepted.
Accept ==
    /\ Loaded /\ disk \in Served /\ requests < MaxRequests
    /\ Req!Begin
    /\ requests' = requests + 1 /\ page' = <<>>
    /\ UNCHANGED <<vars, nulls>>

\* read and tokenlize.
Parse ==
    /\ Req!Read \/ Req!NextToken \/ Req!Throw
    /\ UNCHANGED <<vars, nulls, requests, page>>

\* handler: access makes an entry for what has none, and a servlet sends its content.
Handle ==
    LET k == Key(Req!Url) IN
    /\ stage = "parsed"
    /\ IF k \in DOMAIN filemap THEN page' = <<filemap[k]>> /\ UNCHANGED nulls
       ELSE nulls' = nulls \cup {k} /\ UNCHANGED page
    /\ stage' = "done"
    /\ UNCHANGED <<vars, data, sent, arrived, cursor, tokens, method, requests>>

SiteNext == LoadSite \/ Accept \/ Parse \/ Handle

SiteSpec == SiteInit /\ [][SiteNext]_siteVars /\ WF_siteVars(LoadSite)

-----------------------------------------------------------------------------
(* Properties *)

SiteTypeOK ==
    /\ TypeOK /\ Req!TypeOK
    /\ nulls \cap DOMAIN filemap = {}
    /\ requests \in 0..MaxRequests /\ Len(page) \in 0..1

\* What a request is answered with depends on the tree and on its own url alone, once
\* the blank behind the url has come with the first recv, whatever was in the array
\* before, wherever the request was cut, and whatever was looked up earlier: the file
\* of that name below htdocs, with its own content, or nothing (HttpRequest.cc:65-78).
\* And only a request of which fewer than six tokens have come ends the server
\* (HttpRequest.cc:34).
RequestAnswered ==
    /\ stage = "done" /\ Plain(disk) /\ Cardinality(Req!Ended) >= 2 =>
        LET file == Start \o Key(Req!UrlSent)
        IN  page = IF file \in disk.locked THEN <<None>>
                   ELSE IF file \in disk.files THEN <<file>> ELSE <<>>
    /\ stage = "thrown" => Cardinality(Req!Ended) < 6
=============================================================================
