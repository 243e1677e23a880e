------------------------------- MODULE SkipList -------------------------------
(***************************************************************************)
(* class SkipList (zskiplist.cpp) as functions of its state                *)
(*     sl = [node |-> ..., level |-> ..., length |-> ...]                  *)
(* A node is named by its key <<score, member>>, the header by Header;     *)
(* node[n] holds the two arrays forward and span of n.  Level i of this    *)
(* model is index i - 1 of the code.  Scores and members are numbers.      *)
(* Spans and ranks are unsigned long, so that they are counted modulo      *)
(* Word.                                                                   *)
(***************************************************************************)
EXTENDS Integers, Sequences, SequencesExt

CONSTANTS
    kMaxLevel,
    Word,            \* the number of values of an unsigned long
    Header, Null

ASSUME SkipListAssumption ==
    /\ kMaxLevel \in Nat \ {0}
    /\ Word \in Nat \ {0, 1}
    /\ Header # Null

EmptyList ==
    [node |-> [n \in {Header} |-> [forward |-> [i \in 1 .. kMaxLevel |-> Null],
                                   span |-> [i \in 1 .. kMaxLevel |-> 0]]],
     level |-> 1, length |-> 0]

Nodes(sl) == DOMAIN sl.node \ {Header}

Forward(sl, n, i) == sl.node[n].forward[i]
Span(sl, n, i) == sl.node[n].span[i]

KeyLess(k1, k2) == k1[1] < k2[1] \/ (k1[1] = k2[1] /\ k1[2] < k2[2])

-----------------------------------------------------------------------------
\* The inner loop of every search: along level i while the next node is one to step
\* onto, adding up the spans on the way.
RECURSIVE Reach(_, _, _, _)
Reach(sl, i, at, onto) ==
    LET next == Forward(sl, at.node, i)
    IN  IF next \in onto
        THEN Reach(sl, i, [node |-> next, rank |-> (at.rank + Span(sl, at.node, i)) % Word], onto)
        ELSE at

\* The outer loop: down from level i.  At each level the node where the search leaves it
\* and the rank summed up so far.
RECURSIVE DescendFrom(_, _, _, _)
DescendFrom(sl, i, at, onto) ==
    IF i = 0 THEN <<>>
    ELSE LET here == Reach(sl, i, at, onto) IN Append(DescendFrom(sl, i - 1, here, onto), here)

Descend(sl, onto) == DescendFrom(sl, sl.level, [node |-> Header, rank |-> 0], onto)

Before(sl, key) == Descend(sl, {n \in Nodes(sl) : KeyLess(n, key)})

Candidate(sl, path) == Forward(sl, path[1].node, 1)

HasKey(sl, key) == Candidate(sl, Before(sl, key)) = key

-----------------------------------------------------------------------------
\* Mutant of SpliceIn: the links above the new tower are not lengthened.
SpliceInLow(sl, n, i, key, lvl, update, rank) ==
    IF i <= lvl THEN (rank[1] - rank[i] + 1) % Word ELSE Span(sl, n, i)

\* The span that Insert leaves at level i of the predecessor n of key.
SpliceIn(sl, n, i, key, lvl, update, rank) ==
    IF i <= lvl THEN (rank[1] - rank[i] + 1) % Word ELSE (Span(sl, n, i) + 1) % Word

\* Insert with RandomLevel() = lvl.
Insert(sl, key, lvl) ==
    LET path == Before(sl, key)
        top == IF lvl > sl.level THEN lvl ELSE sl.level
        update == [i \in 1 .. top |-> IF i <= sl.level THEN path[i].node ELSE Header]
        rank == [i \in 1 .. top |-> IF i <= sl.level THEN path[i].rank ELSE 0]
        span == [i \in 1 .. top |-> IF i <= sl.level THEN Span(sl, update[i], i) ELSE sl.length]
        Splices(n, i) == i <= top /\ update[i] = n
        tower == [forward |-> [i \in 1 .. lvl |-> Forward(sl, update[i], i)],
                  span |-> [i \in 1 .. lvl |-> (span[i] - (rank[1] - rank[i])) % Word]]
        Relinked(n) ==
            [forward |-> [i \in DOMAIN sl.node[n].forward |->
                             IF Splices(n, i) /\ i <= lvl THEN key ELSE Forward(sl, n, i)],
             span |-> [i \in DOMAIN sl.node[n].span |->
                          IF Splices(n, i) THEN SpliceIn(sl, n, i, key, lvl, update, rank)
                          ELSE Span(sl, n, i)]]
    IN  IF Candidate(sl, path) = key THEN sl
        ELSE [node |-> [n \in DOMAIN sl.node \cup {key} |-> IF n = key THEN tower ELSE Relinked(n)],
              level |-> top, length |-> sl.length + 1]

-----------------------------------------------------------------------------
\* The span that DeleteNode leaves at level i of the predecessor n of x.  A link that
\* becomes the last of its level is set to 0, and a last link that is passed loses 1:
\* what a last link holds is meaningless, and nobody reads it.
SpliceOut(sl, n, i, x) ==
    CASE Forward(sl, n, i) # x -> (Span(sl, n, i) - 1) % Word
      [] Forward(sl, n, i) = x /\ Forward(sl, x, i) = Null -> 0
      [] OTHER -> (Span(sl, n, i) + Span(sl, x, i) - 1) % Word

\* Mutant of LevelOf: level_ is never lowered.
LevelOfKept(level, header) == level

\* The loop that lowers level_ past the empty levels of the header.
LevelOf(level, header) ==
    LET used == {i \in 1 .. level : header.forward[i] # Null}
    IN  IF used = {} THEN 1 ELSE Max(used)

DeleteNode(sl, x) ==
    LET path == Before(sl, x)
        Splices(n, i) == i <= sl.level /\ path[i].node = n
        Unlinked(n) ==
            [forward |-> [i \in DOMAIN sl.node[n].forward |->
                             IF Splices(n, i) /\ Forward(sl, n, i) = x THEN Forward(sl, x, i)
                             ELSE Forward(sl, n, i)],
             span |-> [i \in DOMAIN sl.node[n].span |->
                          IF Splices(n, i) THEN SpliceOut(sl, n, i, x) ELSE Span(sl, n, i)]]
    IN  [node |-> [n \in DOMAIN sl.node \ {x} |-> Unlinked(n)],
         level |-> LevelOf(sl.level, Unlinked(Header)), length |-> sl.length - 1]

Erase(sl, key) == IF HasKey(sl, key) THEN DeleteNode(sl, key) ELSE sl

\* PopMin and PopMax take these nodes out with DeleteNode; Null and Header mean that
\* there is none.
First(sl) == Forward(sl, Header, 1)
Greatest(sl) == Descend(sl, Nodes(sl))[1].node

-----------------------------------------------------------------------------
\* SIZE_MAX, which says that a key is not there.
NoRank == Word - 1

\* Mutant of Rank: the count from 1 is returned.
RankFromOne(sl, key) ==
    LET path == Descend(sl, {n \in Nodes(sl) : n = key \/ KeyLess(n, key)})
        hits == {i \in DOMAIN path : path[i].node = key}
    IN  IF hits = {} THEN NoRank ELSE path[Max(hits)].rank

\* The walk steps onto the key and ends at the highest level that does.
Rank(sl, key) ==
    LET path == Descend(sl, {n \in Nodes(sl) : n = key \/ KeyLess(n, key)})
        hits == {i \in DOMAIN path : path[i].node = key}
    IN  IF hits = {} THEN NoRank ELSE (path[Max(hits)].rank - 1) % Word

RevRank(sl, key) ==
    LET r == Rank(sl, key) IN IF r = NoRank \/ r >= sl.length THEN NoRank ELSE sl.length - 1 - r

\* The nodes after n, along the lowest level.
After(sl, n) ==
    LET from[x \in DOMAIN sl.node] ==
            LET next == Forward(sl, x, 1) IN IF next = Null THEN <<>> ELSE <<next>> \o from[next]
    IN  from[n]

RangeByRank(sl, start, stop, rev) ==
    LET from == Max({0, IF start < 0 THEN start + sl.length ELSE start})
        to == Min({sl.length - 1, IF stop < 0 THEN stop + sl.length ELSE stop})
        asc == After(sl, Header)
    IN  IF from > to THEN <<>>
        ELSE IF rev THEN Reverse(SubSeq(asc, sl.length - to, sl.length - from))
        ELSE SubSeq(asc, from + 1, to + 1)

\* A ScoreRange is [min, max, minex, maxex].
Below(r, n) == IF r.minex THEN n[1] <= r.min ELSE n[1] < r.min
Above(r, n) == IF r.maxex THEN n[1] >= r.max ELSE n[1] > r.max

\* The nodes of a sequence up to the first above the range, without those below it.
Within(nodes, r) ==
    LET over == {i \in DOMAIN nodes : Above(r, nodes[i])}
        upto == IF over = {} THEN nodes ELSE SubSeq(nodes, 1, Min(over) - 1)
    IN  SelectSeq(upto, LAMBDA n : ~Below(r, n))

\* Mutant of RangeByScore: a reverse range takes its window from the low end.
RangeByScoreLow(sl, r, rev, offset, count) ==
    LET asc == Within(After(sl, Header), r)
        taken == SubSeq(asc, offset + 1, IF count > 0 THEN Min({Len(asc), offset + count}) ELSE Len(asc))
    IN  IF count = 0 THEN <<>> ELSE IF rev THEN Reverse(taken) ELSE taken

\* LIMIT offset count; a negative count is no limit.  A reverse range counts from the
\* high end, and with a negative offset its iterators leave the array.
RangeByScore(sl, r, rev, offset, count) ==
    LET start == Descend(sl, {n \in Nodes(sl) : n[1] < r.min})[1].node
        skip == Max({0, offset})
        up == Within(After(sl, start), r)
        asc == SelectSeq(After(sl, Header), LAMBDA n : ~Below(r, n) /\ ~Above(r, n))
        end == Len(asc) - offset
    IN  CASE count = 0 -> <<>>
          [] count # 0 /\ ~rev ->
               SubSeq(up, skip + 1, IF count > 0 THEN Min({Len(up), skip + count}) ELSE Len(up))
          [] count # 0 /\ rev /\ end <= 0 -> <<>>
          [] OTHER -> IF offset < 0 THEN Null
                      ELSE Reverse(SubSeq(asc, (IF count > 0 THEN Max({0, end - count}) ELSE 0) + 1, end))

CountInRange(sl, r) == Len(Within(After(sl, Header), r))
=============================================================================
