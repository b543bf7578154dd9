---------------------------- MODULE MCAnswerPath ----------------------------
(* Instances of AnswerPath for TLC.                                          *)
EXTENDS AnswerPath, TLC

CONSTANTS q1, q2, q3, u1, u2, b1

First    == [upstreams |-> u1, dnssec |-> FALSE, cache |-> b1, rest |-> 0]
\* The same but for the rate limit, the upstreams, DNSSEC and the cache.
Changes  == {[First EXCEPT !.rest = 1], [First EXCEPT !.upstreams = u2],
             [First EXCEPT !.dnssec = TRUE], [First EXCEPT !.cache = Off]}

QuerySymmetry == Permutations(Queries)
=============================================================================
