------------------------------ MODULE MCRouter ------------------------------
(* Setups for Router: a pool of two workers that fail, and a tree under    *)
(* requests whose texts are prefixes of each other.                        *)
EXTENDS Router

Base ==
    [workers |-> {"w1", "w2"}, clients |-> {"c1", "c2"}, threshold |-> 2, tries |-> 2, aborts |-> FALSE,
     prompts |-> {<<"a">>}, outputs |-> {<<<<"b">>>>}, merges |-> FALSE,
     limits |-> [max_cache_size |-> 3, gc_threshold_k |-> 1, integer_versions |-> TRUE],
     generates |-> 0, proxies |-> 0, crashes |-> 0, checks |-> FALSE, versions |-> 0]

\* Workers crash and come back, clients leave, and the checks go on.
PoolLines == {[Base EXCEPT !.proxies = 2, !.crashes = 2, !.checks = TRUE],
              [Base EXCEPT !.generates = 1, !.proxies = 1, !.crashes = 1, !.aborts = TRUE]}

\* One worker; the weights are updated while requests are under way.
TreeBase == [Base EXCEPT !.workers = {"w1"}, !.prompts = {<<"a">>, <<"a", "b", "c">>},
                         !.outputs = {<<<<"b">>, <<"c">>>>, <<<<"d">>>>}, !.versions = 2, !.limits.max_cache_size = 4]
TreeLines == {[TreeBase EXCEPT !.generates = 3],
              [TreeBase EXCEPT !.generates = 3, !.merges = TRUE, !.limits.integer_versions = FALSE]}

RouterLines == PoolLines \cup TreeLines
=============================================================================
