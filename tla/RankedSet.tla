------------------------------- MODULE RankedSet -------------------------------
(***************************************************************************)
(* What a sorted set promises, without a skip list: s is the function from *)
(* its members to their scores, and its order is that of (score, member).  *)
(* A command gives [score |-> the new function, reply |-> its answer].     *)
(***************************************************************************)
EXTENDS Integers, Sequences, SequencesExt

CONSTANT MaxScore    \* the largest finite score; greater ones are infinite

Finite(n) == -MaxScore <= n /\ n <= MaxScore

Less(k1, k2) == k1[1] < k2[1] \/ (k1[1] = k2[1] /\ k1[2] < k2[2])

\* The pairs <<score, member>> of s in ascending order.
Order(s) ==
    LET keys == {<<s[m], m>> : m \in DOMAIN s}
    IN  [i \in 1 .. Cardinality(keys) |->
            CHOOSE k \in keys : Cardinality({j \in keys : Less(j, k)}) = i - 1]

Ordered(s, rev) == IF rev THEN Reverse(Order(s)) ELSE Order(s)

Outcome(s, reply) == [score |-> s, reply |-> reply]

With(s, m, n) == [x \in DOMAIN s \cup {m} |-> IF x = m THEN n ELSE s[x]]
Without(s, gone) == [x \in DOMAIN s \ gone |-> s[x]]
Named(pairs) == {pairs[i][2] : i \in DOMAIN pairs}

-----------------------------------------------------------------------------
\* Either all scores are numbers and the pairs are taken one by one, or nothing is.  The
\* reply counts the members that are new at the end or, with ch, also each change of
\* score on the way.
Add(s, pairs, nx, xx, ch) ==
    LET Skips(f, m) == IF m \in DOMAIN f THEN nx ELSE xx
        After(i) == FoldLeft(LAMBDA f, p : IF Skips(f, p[2]) THEN f ELSE With(f, p[2], p[1]),
                             s, SubSeq(pairs, 1, i))
        changed == {i \in DOMAIN pairs : After(i) # After(i - 1)}
    IN  IF \E i \in DOMAIN pairs : pairs[i][1] \notin Int THEN Outcome(s, "notfloat")
        ELSE Outcome(After(Len(pairs)),
                     IF ch THEN Cardinality(changed)
                     ELSE Cardinality(DOMAIN After(Len(pairs)) \ DOMAIN s))

\* A sum that is not finite is refused and changes nothing.
Increment(s, m, by) ==
    LET old == IF m \in DOMAIN s THEN s[m] ELSE 0 IN
    IF Finite(old) /\ Finite(by) /\ Finite(old + by)
    THEN Outcome(With(s, m, old + by), <<old + by>>)
    ELSE Outcome(s, "overflow")

Discard(s, gone) == Outcome(Without(s, gone), Cardinality(gone \cap DOMAIN s))

\* Take the count smallest or greatest members out, in that order.
Pop(s, count, greatest) ==
    LET out == SubSeq(Ordered(s, greatest), 1, Min({count, Cardinality(DOMAIN s)}))
    IN  Outcome(Without(s, Named(out)), out)

-----------------------------------------------------------------------------
\* The place of a member, counted from 0.
Place(s, m, rev) == Cardinality({x \in DOMAIN s : LET before == Less(<<s[x], x>>, <<s[m], m>>)
                                                  IN  x # m /\ before # rev})

\* The places start..stop; a negative place counts from the end.
Slice(s, start, stop, rev) ==
    LET n == Cardinality(DOMAIN s)
        Norm(i) == IF i < 0 THEN i + n ELSE i
        asc == Ordered(s, rev)
        places == {i \in DOMAIN asc : Norm(start) <= i - 1 /\ i - 1 <= Norm(stop)}
    IN  [i \in 1 .. Cardinality(places) |-> asc[Min(places) + i - 1]]

InRange(n, r) ==
    /\ r.min < n \/ (r.min = n /\ ~r.minex)
    /\ n < r.max \/ (n = r.max /\ ~r.maxex)

\* The members of a score range, of which offset are skipped and count are taken.
Slab(s, r, rev, offset, count) ==
    LET hits == SelectSeq(Ordered(s, rev), LAMBDA p : InRange(p[1], r))
        rest == SubSeq(hits, offset + 1, Len(hits))
    IN  IF count < 0 \/ count >= Len(rest) THEN rest ELSE SubSeq(rest, 1, count)
=============================================================================
