---------------------------- MODULE MCBrowserAuth ----------------------------
(***************************************************************************)
(* An instance of BrowserAuth for TLC: a page that asks for every path     *)
(* with every method and at most one flaw, and a second one of the same    *)
(* user that logs in and out.  A flaw that is looked for before the        *)
(* session is combined with no session only.                               *)
(***************************************************************************)
EXTENDS BrowserAuth

CONSTANTS page, other, t1, t2, u1, u2

PageRequests ==
    [path : Paths, method : Methods, flaws : {{}}, token : Tokens \cup {NoToken}]
        \cup
    [path : Paths, method : Methods, flaws : {{f} : f \in Flaws}, token : {NoToken}]
        \cup
    [path : Paths, method : Methods, flaws : {{"body"}, {"notOwner"}, {"noOrigin"}}, token : Tokens]

LoginRequests ==
    [path : {"login"}, method : {"POST"}, flaws : {{}}, token : {NoToken}]
        \cup
    [path : {"logout"}, method : {"POST"}, flaws : {{}}, token : Tokens]

MCRequests == [c \in Clients |-> IF c = page THEN PageRequests ELSE LoginRequests]
=============================================================================
