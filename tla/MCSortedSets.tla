----------------------------- MODULE MCSortedSets -----------------------------
(* Small sets of commands for SortedSets. *)
EXTENDS SortedSets

Inf == MaxScore + 1
MCScores == -Inf .. Inf

Add(pairs) == [op |-> "ZADD", pairs |-> pairs, nx |-> FALSE, xx |-> FALSE, ch |-> FALSE]
Incr(op, m, by) == [op |-> op, member |-> m, by |-> by, nx |-> FALSE, xx |-> FALSE]
Range_(min, max, minex, maxex) == [min |-> min, max |-> max, minex |-> minex, maxex |-> maxex]

MCRanges ==
    {Range_(-Inf, Inf, FALSE, FALSE), Range_(0, 1, TRUE, FALSE), Range_(0, 1, FALSE, TRUE),
     Range_(1, Inf, FALSE, TRUE), Range_(1, 0, FALSE, FALSE)}

\* Member 1 changes its score and with it its place, from the first to the last; the
\* others keep theirs (2 comes after 3 and 4) and come and go.
MCCmds ==
    {Add(<< <<0, 1>> >>), Add(<< <<1, 2>> >>), Add(<< <<0, 3>> >>), Add(<< <<0, 4>> >>),
     Add(<< <<Inf, 1>> >>),
     [Add(<< <<1, 1>> >>) EXCEPT !.nx = TRUE],
     [Add(<< <<1, 1>>, <<NotFloat, 2>> >>) EXCEPT !.xx = TRUE],
     [Add(<< <<1, 1>>, <<0, 1>> >>) EXCEPT !.ch = TRUE],
     Incr("ZINCRBY", 1, 1), Incr("ZINCRBY", 1, NotFloat), Incr("ZADDINCR", 1, 1),
     [Incr("ZADDINCR", 1, 1) EXCEPT !.nx = TRUE],
     [Incr("ZADDINCR", 1, -Inf) EXCEPT !.xx = TRUE],
     [op |-> "ZREMRANGEBYRANK", start |-> 1, stop |-> -1],
     [op |-> "ZREMRANGEBYRANK", start |-> -2, stop |-> 0],
     [op |-> "ZREMRANGEBYSCORE", range |-> Range_(0, 1, TRUE, FALSE)],
     [op |-> "ZREMRANGEBYSCORE", range |-> Range_(-Inf, 1, FALSE, TRUE)]}
    \cup {[op |-> "ZREM", members |-> <<m, 2>>] : m \in Members}
    \cup {[op |-> "ZPOP", count |-> n, greatest |-> g] : n \in {0, 2}, g \in BOOLEAN}
=============================================================================
