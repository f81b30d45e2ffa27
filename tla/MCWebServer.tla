----------------------------- MODULE MCWebServer -----------------------------
(* An instance of WebServer for TLC.                                       *)
EXTENDS WebServer

CONSTANTS c1, c2, r1, r2
TwoCookies == {c1, c2}
TwoRequests == {r1, r2}
=============================================================================
