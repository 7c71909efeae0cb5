----------------------------- MODULE MCWebSearch -----------------------------
EXTENDS WebSearch

CONSTANTS s1, s2, weather, prices, scores

(* The same page with and without a tracking parameter, two more pages of  *)
(* its domain and a javascript: link.                                      *)
MCPage == [u1 |-> "p1", u1utm |-> "p1", u2 |-> "p2", u3 |-> "p3", js |-> "none"]
MCDomain == [p1 |-> "d", p2 |-> "d", p3 |-> "d"]
MCFound == << {<<"u1", "js">>}, {<<"u1utm", "u2", "u3">>} >>

MCSearches == {s1, s2}
MCQueries == {weather, prices, scores}
Symmetric == Permutations(MCSearches) \union Permutations(MCQueries)
=============================================================================
