---------------------------- MODULE MCBrowserHost ----------------------------
(* A small instance of BrowserHost for TLC: a turn of a conversation, which   *)
(* repeats and must find its tab retained, and a turn without a conversation, *)
(* in two helper processes that are alike.                                    *)
EXTENDS BrowserHost, TLC

CONSTANTS first, other, conversation, h1, h2

Keys == first :> conversation @@ other :> None
TwoHelpers == {h1, h2}
Alike == Permutations(TwoHelpers)
=============================================================================
