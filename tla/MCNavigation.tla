---------------------------- MODULE MCNavigation ----------------------------
(***************************************************************************)
(* A page of HTML and one of JSON that links preload and the application   *)
(* prefetches; two navigations, a prefetch, a submit.                      *)
(***************************************************************************)
EXTENDS Navigation, TLC

Symmetric == Permutations(Navs)

\* Bound: requests and navigations under way at a time.
Busy ==
  Cardinality({n \in Navs : nav[n] # None})
  + Cardinality({u \in Preloaded : preloadInflight[u] # None})
  + Cardinality({r \in Reqs : fetches[r] # None})
  + Cardinality({s \in Subs : submits[s] # None})

AtMostThree == Busy <= 3

=============================================================================
