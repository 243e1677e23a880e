------------------------------ MODULE SortedSets ------------------------------
(***************************************************************************)
(* The sorted-set commands of commands.cpp on one key.  A ZSetValue is     *)
(* [sl |-> skip list, dict |-> function from members to scores], and NoKey *)
(* stands for a key that is not there.  The typed lookup is that of        *)
(* CommandBase and is left out.                                            *)
(*                                                                         *)
(* A handler gives [z |-> value, reply |-> reply].  Scores are integers;   *)
(* those beyond MaxScore are the infinities.                               *)
(***************************************************************************)
EXTENDS SkipList

CONSTANTS
    Members, Scores, MaxScore,
    NotFloat,        \* what ParseDoubleStrict rejects
    NoKey,
    Cmds,            \* the commands that change the set
    Ranges,          \* score ranges that are asked for
    Levels           \* the levels RandomLevel draws

ASSUME SortedSetsAssumption ==
    /\ Members \subseteq Nat /\ Scores \subseteq Int
    /\ MaxScore \in Nat
    /\ NotFloat \notin Int
    /\ Levels \subseteq 1 .. kMaxLevel

VARIABLE z

R == INSTANCE RankedSet

ZResult(v, reply) == [z |-> v, reply |-> reply]

EmptyZSet == [sl |-> EmptyList, dict |-> [m \in {} |-> 0]]

ZSetCreate(v) == IF v = NoKey THEN EmptyZSet ELSE v

-----------------------------------------------------------------------------
\* Mutant of Put: the old node is not erased.
PutTwice(v, m, n, lvl) ==
    [sl |-> Insert(v.sl, <<n, m>>, lvl),
     dict |-> [x \in DOMAIN v.dict \cup {m} |-> IF x = m THEN n ELSE v.dict[x]]]

\* Give member m the score n: the old node is erased, a new one inserted, and the
\* dictionary follows.
Put(v, m, n, lvl) ==
    LET cleared == IF m \in DOMAIN v.dict THEN Erase(v.sl, <<v.dict[m], m>>) ELSE v.sl
    IN  [sl |-> Insert(cleared, <<n, m>>, lvl),
         dict |-> [x \in DOMAIN v.dict \cup {m} |-> IF x = m THEN n ELSE v.dict[x]]]

\* Take the nodes of a sequence out of both.
Drop(v, keys) ==
    [sl |-> FoldLeft(Erase, v.sl, keys),
     dict |-> [x \in DOMAIN v.dict \ {keys[i][2] : i \in DOMAIN keys} |-> v.dict[x]]]

\* Mutant of AddPair: a score that stays the same is counted as a change.
AddPairAlways(st, p, lvl, cmd) ==
    LET m == p[2]
        exists == m \in DOMAIN st.z.dict
    IN  IF st.failed \/ p[1] = NotFloat THEN [st EXCEPT !.failed = TRUE]
        ELSE IF IF exists THEN cmd.nx ELSE cmd.xx THEN st
        ELSE [z |-> Put(st.z, m, p[1], lvl), failed |-> FALSE,
              added |-> IF exists THEN st.added ELSE st.added + 1,
              changed |-> st.changed + 1]

\* One turn of the loop of ZADD, on [z, added, changed, failed].
AddPair(st, p, lvl, cmd) ==
    LET m == p[2]
        exists == m \in DOMAIN st.z.dict
        skip == IF exists THEN cmd.nx \/ st.z.dict[m] = p[1] ELSE cmd.xx
    IN  CASE st.failed \/ p[1] = NotFloat -> [st EXCEPT !.failed = TRUE]
          [] ~st.failed /\ p[1] # NotFloat /\ skip -> st
          [] OTHER -> [z |-> Put(st.z, m, p[1], lvl), failed |-> FALSE,
                       added |-> IF exists THEN st.added ELSE st.added + 1,
                       changed |-> st.changed + 1]

\* cmd.pairs are <<score, member>>, and lvls the levels drawn.  When a score is no
\* number the pairs before it stay, and so does a key that was created.
ZADD(v, cmd, lvls) ==
    LET start == [z |-> ZSetCreate(v), added |-> 0, changed |-> 0, failed |-> FALSE]
        end == FoldLeft(LAMBDA st, i : AddPair(st, cmd.pairs[i], lvls[i], cmd), start,
                        [i \in DOMAIN cmd.pairs |-> i])
    IN  ZResult(end.z, IF end.failed THEN "notfloat" ELSE IF cmd.ch THEN end.changed ELSE end.added)

Finite(n) == -MaxScore <= n /\ n <= MaxScore

\* ZINCRBY, and ZADD INCR without NX or XX.
ZINCRBY(v, cmd, lvls) ==
    LET made == ZSetCreate(v)
        old == IF cmd.member \in DOMAIN made.dict THEN made.dict[cmd.member] ELSE 0
        sum == old + cmd.by
    IN  CASE cmd.by = NotFloat -> ZResult(IF cmd.op = "ZADDINCR" THEN made ELSE v, "notfloat")
          [] cmd.by # NotFloat /\ ~(Finite(old) /\ Finite(cmd.by) /\ Finite(sum)) -> ZResult(made, "overflow")
          [] OTHER -> ZResult(Put(made, cmd.member, sum, lvls[1]), <<sum>>)

\* ZADD INCR: the test for NX and XX is the other way round from that of plain ZADD.
ZADDINCR(v, cmd, lvls) ==
    LET exists == cmd.member \in DOMAIN ZSetCreate(v).dict
    IN  IF cmd.by # NotFloat /\ (IF exists THEN cmd.xx ELSE cmd.nx) THEN ZResult(ZSetCreate(v), "nil")
        ELSE ZINCRBY(v, cmd, lvls)

\* Of a missing key the code takes dict.end() through a null pointer, twice, and finds the
\* two equal: the map's end is a constant.
ZREM(v, cmd, lvls) ==
    LET Take(st, m) == IF m \notin DOMAIN st.z.dict THEN st
                       ELSE [z |-> Drop(st.z, << <<st.z.dict[m], m>> >>), n |-> st.n + 1]
        end == FoldLeft(Take, [z |-> v, n |-> 0], cmd.members)
    IN  IF v = NoKey THEN ZResult(v, 0) ELSE ZResult(end.z, end.n)

\* ZPOPMIN and ZPOPMAX: pop from the skip list, then erase from the dictionary, cmd.count
\* times or until nothing is left.
PopOne(st, greatest) ==
    LET x == IF greatest THEN Greatest(st.z.sl) ELSE First(st.z.sl)
    IN  IF x \in {Header, Null} THEN st
        ELSE [z |-> [sl |-> DeleteNode(st.z.sl, x),
                     dict |-> [m \in DOMAIN st.z.dict \ {x[2]} |-> st.z.dict[m]]],
              out |-> Append(st.out, x)]

ZPOP(v, cmd, lvls) ==
    LET end == FoldLeft(LAMBDA st, i : PopOne(st, cmd.greatest), [z |-> v, out |-> <<>>],
                        [i \in 1 .. cmd.count |-> i])
    IN  IF v = NoKey THEN ZResult(v, <<>>) ELSE ZResult(end.z, end.out)

ZREMRANGEBYRANK(v, cmd, lvls) ==
    IF v = NoKey THEN ZResult(v, 0)
    ELSE LET victims == RangeByRank(v.sl, cmd.start, cmd.stop, FALSE)
         IN  ZResult(Drop(v, victims), Len(victims))

ZREMRANGEBYSCORE(v, cmd, lvls) ==
    IF v = NoKey THEN ZResult(v, 0)
    ELSE LET victims == RangeByScore(v.sl, cmd.range, FALSE, 0, -1)
         IN  ZResult(Drop(v, victims), Len(victims))

Exec(v, cmd, lvls) ==
    CASE cmd.op = "ZADD"             -> ZADD(v, cmd, lvls)
      [] cmd.op = "ZADDINCR"         -> ZADDINCR(v, cmd, lvls)
      [] cmd.op = "ZINCRBY"          -> ZINCRBY(v, cmd, lvls)
      [] cmd.op = "ZREM"             -> ZREM(v, cmd, lvls)
      [] cmd.op = "ZPOP"             -> ZPOP(v, cmd, lvls)
      [] cmd.op = "ZREMRANGEBYRANK"  -> ZREMRANGEBYRANK(v, cmd, lvls)
      [] cmd.op = "ZREMRANGEBYSCORE" -> ZREMRANGEBYSCORE(v, cmd, lvls)

-----------------------------------------------------------------------------
Init == z = NoKey

\* The levels that a command can draw, one for each pair it may insert.
Draws(cmd) == IF cmd.op = "ZADD" THEN [DOMAIN cmd.pairs -> Levels]
              ELSE IF cmd.op \in {"ZADDINCR", "ZINCRBY"} THEN [{1} -> Levels]
              ELSE {<<>>}

Command(cmd) == \E lvls \in Draws(cmd) : z' = Exec(z, cmd, lvls).z

\* The key is deleted, renamed away or expires.
Delete == z' = NoKey

Next == Delete \/ \E cmd \in Cmds : Command(cmd)

Spec == Init /\ [][Next]_z

-----------------------------------------------------------------------------
\* The state as the properties see it: a missing key is an empty set.
Value == ZSetCreate(z)
list == Value.sl
dict == Value.dict

Height(n) == Len(list.node[n].forward)

\* The nodes after n that are at least i high, of which forward[i] must be the first.
Beyond(n, i) == {m \in Nodes(list) : (n = Header \/ KeyLess(n, m)) /\ Height(m) >= i}

\* Through any commands, the links of each level lead from node to node in the order of
\* (score, member) and pass over no node of that height; level_ is the height of the
\* highest node.
LinksOrdered ==
    /\ \A n \in DOMAIN list.node : \A i \in 1 .. Height(n) :
          LET next == list.node[n].forward[i]
          IN  IF Beyond(n, i) = {} THEN next = Null
              ELSE /\ next \in Beyond(n, i)
                   /\ \A m \in Beyond(n, i) : m = next \/ KeyLess(next, m)
    /\ list.level = Max({1} \cup {Height(n) : n \in Nodes(list)})
    /\ list.length = Cardinality(Nodes(list))

\* The span of every link is the number of nodes it goes forward ("# of nodes skipped",
\* zskiplist.h:22), although the spans of the last links of the levels are not kept and
\* may even wrap around below zero.
SpansExact ==
    \A n \in DOMAIN list.node : \A i \in 1 .. Height(n) :
       LET next == list.node[n].forward[i]
       IN  next # Null =>
             list.node[n].span[i] = Cardinality({m \in Beyond(n, 1) : m = next \/ KeyLess(m, next)})

\* The dictionary and the skip list hold the same members with the same scores, each
\* once, after every command: also one that fails half-way.
IndexesAgree == Nodes(list) = {<<dict[m], m>> : m \in DOMAIN dict}

-----------------------------------------------------------------------------
\* What RankedSet says of a command.
Promise(cmd) ==
    CASE cmd.op = "ZADD" -> R!Add(dict, cmd.pairs, cmd.nx, cmd.xx, cmd.ch)
      [] cmd.op = "ZADDINCR" ->
           IF cmd.by = NotFloat THEN R!Outcome(dict, "notfloat")
           ELSE IF (cmd.nx /\ cmd.member \in DOMAIN dict) \/ (cmd.xx /\ cmd.member \notin DOMAIN dict)
           THEN R!Outcome(dict, "nil") ELSE R!Increment(dict, cmd.member, cmd.by)
      [] cmd.op = "ZINCRBY" -> IF cmd.by = NotFloat THEN R!Outcome(dict, "notfloat")
                               ELSE R!Increment(dict, cmd.member, cmd.by)
      [] cmd.op = "ZREM" -> R!Discard(dict, ToSet(cmd.members))
      [] cmd.op = "ZPOP" -> R!Pop(dict, cmd.count, cmd.greatest)
      [] cmd.op = "ZREMRANGEBYRANK" -> R!Discard(dict, R!Named(R!Slice(dict, cmd.start, cmd.stop, FALSE)))
      [] cmd.op = "ZREMRANGEBYSCORE" -> R!Discard(dict, {m \in DOMAIN dict : R!InRange(dict[m], cmd.range)})

\* Where the code departs from the promise.  ZADD with a score that is no number behind
\* others that are has taken those already (commands.cpp:1943), and ZADD INCR has the
\* tests for NX and XX the wrong way round (1951).
Bad(cmd) == {i \in DOMAIN cmd.pairs : cmd.pairs[i][1] = NotFloat}
Partial(cmd) == cmd.op = "ZADD" /\ Bad(cmd) # {}
Inverted(cmd) == cmd.op = "ZADDINCR" /\ cmd.by # NotFloat /\ (cmd.nx \/ cmd.xx)

\* Every command leaves the scores and sends the reply that a plain ordered set would,
\* whatever levels are drawn: counts of added and changed members, popped members in
\* order, sums, refusals.  Not so the two departures.  The partial ZADD is refused as
\* promised, but leaves what ZADD of the pairs before the bad score would leave; of
\* ZADD INCR with NX or XX only this is claimed, that it increments the member as it
\* should or leaves everything as it was.
CommandsPromise ==
    \A cmd \in Cmds : \A lvls \in Draws(cmd) :
       LET promise == Promise(cmd)
           r == Exec(z, cmd, lvls)
           after == ZSetCreate(r.z).dict
       IN  CASE Partial(cmd) ->
                  /\ r.reply = promise.reply
                  /\ LET before == SubSeq(cmd.pairs, 1, Min(Bad(cmd)) - 1)
                     IN  after = R!Add(dict, before, cmd.nx, cmd.xx, cmd.ch).score
             [] Inverted(cmd) -> after \in {dict, R!Increment(dict, cmd.member, cmd.by).score}
             [] OTHER -> r.reply = promise.reply /\ after = promise.score

\* ZRANK and ZREVRANK find a member through the dictionary and its place through the
\* spans; they agree with the order.
RanksAgree ==
    \A m \in DOMAIN dict : /\ Rank(list, <<dict[m], m>>) = R!Place(dict, m, FALSE)
                           /\ RevRank(list, <<dict[m], m>>) = R!Place(dict, m, TRUE)

\* The places that are asked for: in, at and beyond both ends.
Positions == LET n == Cardinality(Members) IN {-n - 1, -n, -2, -1, 0, 1, n - 1, n}

\* ZRANGE, ZREVRANGE, ZRANGEBYSCORE, ZREVRANGEBYSCORE and ZCOUNT give the members of
\* the window in order, for every window, range, offset and count (offsets that are not
\* negative).
RangesAgree ==
    /\ \A start, stop \in Positions, rev \in BOOLEAN :
          RangeByRank(list, start, stop, rev) = R!Slice(dict, start, stop, rev)
    /\ \A r \in Ranges, rev \in BOOLEAN, offset \in 0 .. 1, count \in {-1, 0, 2} :
          RangeByScore(list, r, rev, offset, count) = R!Slab(dict, r, rev, offset, count)
    /\ \A r \in Ranges : CountInRange(list, r) = Len(R!Slab(dict, r, FALSE, 0, -1))
=============================================================================
