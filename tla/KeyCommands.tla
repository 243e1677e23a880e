----------------------------- MODULE KeyCommands -----------------------------
(* The handlers of the generic key, TTL and keyspace commands (commands.cpp). *)
EXTENDS CommandBase

\* DEL and UNLINK: Delete does not ask whether the key has expired.
DEL(ks, d, t, u, cmd) ==
    Result(FoldLeft(LAMBDA s, k : Delete(s, d, k), ks, cmd.keys),
           Int64(Cardinality(ToSet(cmd.keys) \cap Present(ks, d))))

EXISTS(ks, d, t, u, cmd) ==
    LET Reading(i) == IF i = 1 THEN t ELSE u
        index == [i \in DOMAIN cmd.keys |-> i]
    IN  Result(FoldLeft(LAMBDA s, i : Lookup(s, d, cmd.keys[i], Reading(i)), ks, index),
               Int64(Len(SelectSeq(index, LAMBDA i :
                        Found(ks, d, cmd.keys[i], Reading(i)) # Missing))))

StaleKeys(ks, d, t) == {k \in Keys : Stale(ks.table[d][k], t)}

\* Mutant of GlobMatch: a star gives up after its first try.
GlobMatchGreedy(pattern, str) ==
    LET go[p \in 1 .. Len(pattern) + 1, s \in 1 .. Len(str) + 1] ==
            IF s > Len(str) THEN \A i \in p .. Len(pattern) : pattern[i] = Star
            ELSE IF p > Len(pattern) THEN FALSE
            ELSE IF pattern[p] = Question \/ pattern[p] = str[s] THEN go[p + 1, s + 1]
            ELSE IF pattern[p] = Star THEN IF p = Len(pattern) THEN TRUE ELSE go[p + 1, s]
            ELSE FALSE
    IN  go[1, 1]

\* At position p of the pattern and s of the string; the last star was met at starp, and
\* stands for the string up to stars (0 for none).
GlobMatch(pattern, str) ==
    LET go[p \in 1 .. Len(pattern) + 1, s \in 1 .. Len(str) + 1,
           starp \in 0 .. Len(pattern), stars \in 0 .. Len(str) + 1] ==
            IF s > Len(str) THEN \A i \in p .. Len(pattern) : pattern[i] = Star
            ELSE IF p <= Len(pattern) /\ pattern[p] \in {Question, str[s]} THEN go[p + 1, s + 1, starp, stars]
            ELSE IF p <= Len(pattern) /\ pattern[p] = Star THEN go[p + 1, s, p, s]
            ELSE IF starp # 0 THEN go[starp + 1, stars + 1, starp, stars + 1]
            ELSE FALSE
    IN  go[1, 1, 0, 0]

\* KEYS deletes the stale keys it meets with Delete, so that total_expired_ misses them.
KEYS(ks, d, t, u, cmd) ==
    Result(FoldSet(LAMBDA k, s : Delete(s, d, k), ks, StaleKeys(ks, d, t)),
           <<"keys", {k \in Present(ks, d) \ StaleKeys(ks, d, t) : GlobMatch(cmd.pattern, k)}>>)

\* cmd.order is the order in which the table is walked; cmd.count is -1 without COUNT.
\* The walk breaks after a live key once count keys have been taken, so that COUNT 0
\* still takes the first.
SCAN(ks, d, t, u, cmd) ==
    LET live == SelectSeq(cmd.order, LAMBDA k : k \in Present(ks, d) \ StaleKeys(ks, d, t))
        Taken(i) == {live[j] : j \in {h \in 1 .. i : GlobMatch(cmd.pattern, live[h])}}
        breaks == {i \in DOMAIN live : cmd.count >= 0 /\ Cardinality(Taken(i)) >= cmd.count}
    IN  CASE cmd.n # 0 -> Result(ks, Error("cursor"))
          [] cmd.n = 0 /\ cmd.count = NotInt -> Result(ks, ErrNotInt)
          [] OTHER -> Result(ks, <<"keys", Taken(Min(breaks \cup {Len(live)}))>>)

\* cmd.key is the random pick, if it is in the table.
RANDOMKEY(ks, d, t, u, cmd) ==
    LET k == IF cmd.key \in Present(ks, d) THEN cmd.key
             ELSE CHOOSE j \in Present(ks, d) : TRUE
    IN  CASE Present(ks, d) = {} -> Result(ks, Nil)
          [] OTHER -> IF Stale(ks.table[d][k], t) THEN Result(Delete(ks, d, k), Nil)
                      ELSE Result(ks, <<"key", k>>)

TYPE(ks, d, t, u, cmd) ==
    LET e == Found(ks, d, cmd.key, t) IN
    Result(Lookup(ks, d, cmd.key, t), <<"type", IF e = Missing THEN "none" ELSE e.val.type>>)

\* The value is moved out of the entry before the entry is deleted, so that Delete
\* pays back the size of an empty value.
RENAME(ks, d, t, u, cmd) ==
    LET e == Found(ks, d, cmd.key, t)
        looked == Lookup(ks, d, cmd.key, t)
        moved == Rewrite(looked, d, cmd.key, IF e.val.type = "set" THEN {} ELSE <<>>)
    IN  CASE e = Missing -> Result(looked, Error("nokey"))
          [] e # Missing /\ cmd.key = cmd.to -> Result(looked, OK)
          [] OTHER -> Result(Set(Delete(moved, d, cmd.key), d, cmd.to, e.val, e.exp), OK)

\* EXPIRE, PEXPIRE, EXPIREAT and PEXPIREAT: at is the ...AT form, unit Second or 1.
CmdExpire(ks, d, t, u, cmd) ==
    LET e == Found(ks, d, cmd.key, t)
        looked == Lookup(ks, d, cmd.key, t)
        base == IF cmd.at THEN 0 ELSE u
    IN  CASE cmd.n = NotInt -> Result(ks, ErrNotInt)
          [] cmd.n # NotInt /\ e = Missing -> Result(looked, Int64(0))
          [] OTHER -> IF Overflows(base, cmd.n, cmd.unit) THEN Result(looked, Undefined)
                      ELSE Result(Poke(looked, d, cmd.key, [e EXCEPT !.exp = base + cmd.n * cmd.unit]), Int64(1))

\* TTL rounds up to seconds.
TTL(ks, d, t, u, cmd) ==
    LET e == Found(ks, d, cmd.key, t)
        rem == e.exp - u
    IN  Result(Lookup(ks, d, cmd.key, t),
               CASE e = Missing -> Int64(-2)
                 [] e # Missing /\ e.exp = 0 -> Int64(-1)
                 [] OTHER -> Int64(IF rem <= 0 THEN -2
                                   ELSE (rem + cmd.unit - 1) \div cmd.unit))

PERSIST(ks, d, t, u, cmd) ==
    LET e == Found(ks, d, cmd.key, t)
        looked == Lookup(ks, d, cmd.key, t)
    IN  CASE e = Missing -> Result(looked, Int64(0))
          [] OTHER -> IF e.exp = 0 THEN Result(looked, Int64(0))
                      ELSE Result(Poke(looked, d, cmd.key, [e EXCEPT !.exp = 0]), Int64(1))

DBSIZE(ks, d, t, u, cmd) == Result(ks, Int64(Cardinality(Present(ks, d))))

FLUSHDB(ks, d, t, u, cmd) == Result(FlushDb(ks, d), OK)

FLUSHALL(ks, d, t, u, cmd) == Result(FlushAll(ks), OK)

MEMORYUSAGE(ks, d, t, u, cmd) ==
    LET e == Found(ks, d, cmd.key, t) IN
    Result(Lookup(ks, d, cmd.key, t),
           IF e = Missing THEN Nil ELSE Int64(EntrySize(cmd.key, e)))
=============================================================================
