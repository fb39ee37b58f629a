-------------------------- MODULE MCSearchService --------------------------
(* SearchService for TLC: two engines, the second one the fallback.        *)
EXTENDS SearchService, TLC

CONSTANTS bing, google

Asked(e, n, lang, query) == [engine |-> e, limit |-> n, lang |-> lang, query |-> query]

\* Two searches that differ in the engine alone, and two that differ in where the
\* language ends: those share a key.
MCSearches ==
    {Asked(bing, 5, <<"en">>, <<"foo", "bar">>),
     Asked(google, 5, <<"en">>, <<"foo", "bar">>),
     Asked(bing, 5, <<"en", "foo">>, <<"bar">>)}

Symmetry == Permutations(Requests)
=============================================================================
