---------------------------- MODULE MCHttpServer ----------------------------
(* Values for the constants of HttpServer. *)
EXTENDS HttpServer

CONSTANTS a, b, d, s, t

McUrls == {"/index.html", "/", "/nope"}
McTwoUrls == {"/index.html", "/nope"}
McOneUrl == {"/index.html"}
McPages == {"/index.html", "/"}
McSlash == {"/"}
McIndex == "/index.html"
McLoaded == {<<"path", "/index.html">>}
McKinds == {"full", "terse", "bare", "overlong"}
McFull == {"full"}
McBare == {"bare"}
McTwo == {"full", "bare"}
=============================================================================
