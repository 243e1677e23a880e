------------------------------ MODULE MCDispatch ------------------------------
(* Small sets of commands for Dispatch. *)
EXTENDS Dispatch

\* The keys are strings of digits, so that patterns tell them apart.
a == <<1, 2>>
b == <<1, 1, 2>>
c == <<Star, 2>>
ThreeKeys == {a, b, c}
TwoKeys == {a, b}
OneKey == {a}
MCKeySize(k) == Len(k)
MCLLMin == -8

\* The clients are interchangeable: no action or property names one.
ClientSymmetry == Permutations(Clients)

One == <<1>>
X == <<Letter>>

Op(op) == [op |-> op]
OnKey(op, k) == [op |-> op, key |-> k]
Plain == [op |-> "SET", val |-> One, nx |-> FALSE, xx |-> FALSE, keepttl |-> FALSE,
          get |-> FALSE, ex |-> 0, px |-> 0]
SetTo(k, v) == [Plain EXCEPT !.val = v] @@ [key |-> k]
Incr(k, n) == [op |-> "INCRBY", key |-> k, n |-> n]

\* Transactions: two clients, one key in two databases.
TxCmds ==
    {Op("MULTI"), Op("EXEC"), Op("DISCARD"), Op("QUIT"), Op("unknown"), Op("txarity"),
     SetTo(a, One), Op("FLUSHALL"), [op |-> "SELECT", n |-> 1], [op |-> "SELECT", n |-> 2],
     [op |-> "SHUTDOWN", how |-> "nosave"]}

\* Strings, keys and deadlines: one client works on key a, and b is there to be
\* renamed and read together with a.
Expire(n, at, unit) == [op |-> "EXPIRE", key |-> a, n |-> n, at |-> at, unit |-> unit]
Setex(n) == [op |-> "SETEX", key |-> a, val |-> One, n |-> n, unit |-> 1]
Float(v, size) == [op |-> "INCRBYFLOAT", key |-> a, val |-> v, size |-> size]
Push(k, v, left) == [op |-> "PUSH", key |-> k, vals |-> v, left |-> left]
StringReads ==
    {OnKey("GET", a), OnKey("STRLEN", a), OnKey("TYPE", a), OnKey("MEMORY", a),
     [op |-> "TTL", key |-> a, unit |-> 1], [op |-> "TTL", key |-> a, unit |-> Second],
     [op |-> "GETRANGE", key |-> a, from |-> -2, to |-> 0],
     [op |-> "MGET", keys |-> <<a, b>>], [op |-> "EXISTS", keys |-> <<a, a>>],
     Op("DBSIZE")}
StringWrites ==
    {SetTo(a, One), [SetTo(a, X) EXCEPT !.nx = TRUE, !.px = 1],
     [SetTo(a, One) EXCEPT !.xx = TRUE, !.get = TRUE, !.keepttl = TRUE],
     [SetTo(a, One) EXCEPT !.nx = TRUE, !.xx = TRUE], [SetTo(b, One) EXCEPT !.ex = 1],
     [op |-> "SETNX", key |-> a, val |-> X], Setex(1), Setex(0), Setex(LLMax),
     [op |-> "GETSET", key |-> a, val |-> One], OnKey("GETDEL", a),
     [op |-> "SETRANGE", key |-> a, n |-> 1, val |-> One],
     [op |-> "SETRANGE", key |-> a, n |-> 2, val |-> One],
     [op |-> "APPEND", key |-> a, val |-> One],
     [op |-> "SETRANGE", key |-> a, n |-> LLMax, val |-> One],
     [SetTo(a, One) EXCEPT !.ex = LLMax], [SetTo(a, One) EXCEPT !.px = LLMax],
     Incr(a, 1), Incr(a, -1), Incr(a, LLMax), Incr(a, NotInt),
     Float(One, "finite"), Float(X, "finite"), Float(One, "infinite"), Float(One, "wide"),
     [op |-> "MSET", keys |-> <<a, b>>, val |-> One],
     [op |-> "MSETNX", keys |-> <<b, a>>, val |-> One]}
KeyWrites ==
    {[op |-> "DEL", keys |-> <<a, b>>], OnKey("RANDOMKEY", a), OnKey("PERSIST", a),
     [op |-> "RENAME", key |-> a, to |-> b], [op |-> "RENAME", key |-> a, to |-> a],
     Expire(1, FALSE, 1), Expire(1, TRUE, Second), Expire(NotInt, TRUE, 1),
     Expire(LLMax, FALSE, 1), Expire(LLMin, TRUE, Second), Expire(LLMin, TRUE, 1),
     Op("FLUSHDB")}

StringCmds == StringReads \cup StringWrites \cup KeyWrites

\* Lists: elements 1 and 2, one list with a deadline at most.
Pop(k, n, left) == [op |-> "POP", key |-> k, n |-> n, left |-> left]
Move(k, to, left, toleft) == [op |-> "LMOVE", key |-> k, to |-> to, left |-> left, toleft |-> toleft]
ListReads ==
    {OnKey("LLEN", a), [op |-> "LRANGE", key |-> a, from |-> -2, to |-> 1],
     [op |-> "LINDEX", key |-> a, n |-> -1], [op |-> "LINDEX", key |-> a, n |-> NotInt],
     OnKey("GET", a)}
ListWrites ==
    {Push(a, <<1, 2>>, TRUE), Push(a, One, FALSE), Pop(a, -1, TRUE), Pop(a, 2, FALSE),
     Pop(a, NotInt, TRUE), Move(a, b, TRUE, FALSE), Move(b, a, FALSE, TRUE), Move(a, a, TRUE, FALSE),
     [op |-> "LSET", key |-> a, n |-> 1, val |-> 2], [op |-> "LSET", key |-> a, n |-> -2, val |-> 1],
     [op |-> "LREM", key |-> a, n |-> 1, val |-> 1], [op |-> "LREM", key |-> a, n |-> -1, val |-> 1],
     [op |-> "LREM", key |-> a, n |-> 0, val |-> 2], [op |-> "LREM", key |-> a, n |-> LLMin, val |-> 1],
     [op |-> "LINSERT", key |-> a, pivot |-> 2, val |-> 1, before |-> TRUE],
     [op |-> "LINSERT", key |-> a, pivot |-> 1, val |-> 2, before |-> FALSE],
     [op |-> "LTRIM", key |-> a, from |-> 1, to |-> -1],
     [op |-> "LTRIM", key |-> a, from |-> 0, to |-> NotInt],
     [op |-> "RENAME", key |-> b, to |-> a], Expire(1, FALSE, 1), SetTo(b, One),
     [op |-> "DEL", keys |-> <<a>>]}
ListCmds == ListReads \cup ListWrites

\* Hashes: fields 1 and 2.
OnField(op, x) == [op |-> op, key |-> a, field |-> x]
Hset(pairs, hm) == [op |-> "HSET", key |-> a, pairs |-> pairs, hm |-> hm]
HashFloat(v, size) == OnField("HINCRBYFLOAT", 1) @@ [val |-> v, size |-> size]
HashCmds ==
    {Hset(<< <<1, One>>, <<2, X>> >>, FALSE), Hset(<< <<1, X>>, <<1, One>> >>, FALSE), Hset(<< <<2, X>> >>, TRUE)}
    \cup {OnField(op, 1) : op \in {"HGET", "HEXISTS", "HSTRLEN"}}
    \cup {[op |-> "HGETALL", key |-> a, what |-> w] : w \in {"all", "keys", "vals"}}
    \cup {[op |-> "HDEL", key |-> a, fields |-> f] : f \in {{1}, {1, 2}}}
    \cup {OnField("HINCRBY", 1) @@ [n |-> n] : n \in {2, -1, NotInt}}
    \cup {HashFloat(One, "finite"), HashFloat(X, "finite"), HashFloat(One, "infinite"), HashFloat(One, "wide"),
          [op |-> "HMGET", key |-> a, fields |-> <<2, 1, 2>>], OnKey("HLEN", a),
          OnField("HSETNX", 1) @@ [val |-> X], OnField("HSETNX", 2) @@ [val |-> One]}

\* Sets: members 1 and 2, drawn in either order.
Draws == {<<1, 2>>, <<2, 1>>}
SetAlgebra(keys, w) == [op |-> "SETOP", keys |-> keys, what |-> w]
StoreIn(to, keys, w) == [op |-> "SETSTORE", to |-> to, keys |-> keys, what |-> w]
SetCmds ==
    {[op |-> op, key |-> a, vals |-> m] : op \in {"SADD", "SREM"}, m \in {{1}, {1, 2}}}
    \cup {OnKey(op, a) : op \in {"SMEMBERS", "SCARD"}}
    \cup {OnKey("SISMEMBER", a) @@ [val |-> 2]}
    \cup {[op |-> "SPOP", key |-> a, n |-> n, draw |-> s] : n \in {-1, 0, 1, 2, NotInt}, s \in Draws}
    \cup {[op |-> "SRANDMEMBER", key |-> a, one |-> n = 0, n |-> n, draw |-> s] :
             n \in {0, 1, -1, LLMin, NotInt}, s \in Draws}
    \cup {[op |-> "SMOVE", key |-> k, to |-> to, val |-> 1] : k \in TwoKeys, to \in TwoKeys}
    \cup {SetAlgebra(keys, w) : keys \in {<<a, b>>, <<a, a>>, <<b, a, b>>}, w \in {"union", "inter", "diff"}}
    \cup {StoreIn(a, <<a, b>>, "union"), StoreIn(b, <<a, b>>, "inter"), StoreIn(b, <<a, a>>, "diff")}

\* Patterns of up to three places, and the two orders of a walk over the table.
Patterns == UNION {[1 .. n -> {1, Star, Question}] : n \in 0 .. 3} \cup {<<Star, 1, 2>>, <<1, Star, 2>>, <<2>>}
Scan(n, count, pattern, order) == [op |-> "SCAN", n |-> n, count |-> count, pattern |-> pattern, order |-> order]
ListingCmds ==
    {[op |-> "KEYS", pattern |-> p] : p \in Patterns}
    \cup {Scan(0, n, p, s) : n \in {-1, 0, 1}, p \in {<<Star, 1, 2>>, <<Star, 2>>}, s \in {<<c, a, b>>, <<b, a, c>>}}
    \cup {Scan(1, -1, <<Star>>, <<a, b, c>>), Scan(0, NotInt, <<Star>>, <<a, b, c>>)}

HandlerCmds == StringCmds \cup ListCmds \cup HashCmds \cup SetCmds \cup ListingCmds

\* The keyspaces on which the handlers are tried: values of every type under a and b, with
\* and without a deadline, empty ones included; and a key with a star in it.
ValuesOfA ==
    {String(s) : s \in {<<>>, One, X, <<Minus, 1>>}} \cup {List(s) : s \in {<<>>, <<1>>, <<1, 2>>, <<2, 1>>}}
    \cup {Hash(f) : f \in {<<>>, 1 :> One, 1 :> X @@ 2 :> One}} \cup {SetOf(m) : m \in {{}, {1}, {1, 2}}}
ValuesOfB == {String(One), List(One), SetOf({1}), SetOf({2})}
Entries(values) == {Missing} \cup [val : values, exp : {0, 1}]
Snapshot(e, f, g) == [d \in Dbs |-> a :> e @@ b :> f @@ c :> g]
HandlerSnapshots ==
    {Snapshot(e, f, Missing) : e \in Entries(ValuesOfA), f \in Entries(ValuesOfB)}
    \cup {Snapshot(e, e, [val |-> String(One), exp |-> 0]) : e \in Entries({String(One)})}
Nothing == {EmptyTables}

\* Commands whose effects the handlers meet besides.
DataCmds ==
    {[op |-> "APPEND", key |-> a, val |-> One], Push(a, One, FALSE), Expire(1, FALSE, 1),
     [op |-> "SPOP", key |-> a, n |-> -1, draw |-> <<1, 2>>], [op |-> "DEL", keys |-> <<a, b>>]}
=============================================================================
