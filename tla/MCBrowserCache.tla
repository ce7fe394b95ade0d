---------------------------- MODULE MCBrowserCache ----------------------------
(***************************************************************************)
(* BrowserCache for TLC: the calls of one kind, and the URLs, are alike.   *)
(***************************************************************************)
EXTENDS BrowserCache, TLC

BrowserSymmetry ==
    Permutations(Fetches) \cup Permutations(Prefetches)
        \cup Permutations(Clears) \cup Permutations(Urls)
================================================================================
