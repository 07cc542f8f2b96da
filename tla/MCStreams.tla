----------------------------- MODULE MCStreams ------------------------------
(***************************************************************************)
(* Streams for TLC: the sizes.                                             *)
(***************************************************************************)
EXTENDS Streams

CONSTANTS x1, x2

MCClientTools == {{}, {"function"}, {"function", "xname", "web_search"}, {"x_search"}, {"image_generation"}}

(* Tags whole and cut, in either case, and calls in every syntax.            *)
MCDialects == {{"text", "lt", "rest", "open", "call", "other", "close"},
               {"text", "lt", "LT", "rest", "call", "close"},
               {"open", "json", "invoke", "call", "other", "close"}}

MCImage == {x1, x2}

(* Every endpoint with a task; a stream whose channel holds two events, and  *)
(* a write to Redis that fails.                                              *)
Wish(kind, tokens, pools) == [kind |-> kind, wants |-> tokens, all |-> FALSE, pools |-> pools]
MCListed == [a |-> "active", c |-> "expired"]
MCRequests == {Wish("nsfw", {}, <<>>), Wish("refresh", {"a", "c"}, <<>>), Wish("refresh", {"c"}, <<>>),
               Wish("clear", {"a", "c"}, <<>>), Wish("sync", {}, <<>>), Wish("add", {"x", "y", "z"}, <<>>),
               Wish("replace", {}, <<1, 0>>), Wish("buildImport", {"x"}, <<>>),
               Wish("billing", {}, <<>>), Wish("renew", {"a"}, <<>>), Wish("cleanup", {}, <<>>)}
=============================================================================
