----------------------------- MODULE HashCommands -----------------------------
(* The handlers of the hash commands (commands.cpp). *)
EXTENDS CommandBase

WithHash(ks, d, t, k, Then(_, _)) == WithTyped(ks, d, t, k, "hash", Then)

\* A hash as the handlers see it when a missing key counts as empty.
Fields(e) == IF e = Missing THEN <<>> ELSE e.val.data

FieldReply(f, x) == IF x \in DOMAIN f THEN Bulk(f[x]) ELSE Nil

\* HSET and HMSET (cmd.hm); cmd.pairs are <<field, value>>.
HSET(ks, d, t, u, cmd) ==
    LET Store(made, before, after) ==
            Result(Rewrite(made, d, cmd.key, after),
                   IF cmd.hm THEN OK ELSE Int64(Cardinality(DOMAIN after \ DOMAIN before)))
    IN  WithMade(ks, d, t, cmd.key, Hash(<<>>), LAMBDA made, f :
            Store(made, f, FoldLeft(LAMBDA g, p : (p[1] :> p[2]) @@ g, f, cmd.pairs)))

\* For a missing key HGET, HMGET and HSTRLEN compare with the end of a hash that h, which
\* is null, does not point to; end() of an unordered_map reads nothing, so that the field
\* counts as absent.
HGET(ks, d, t, u, cmd) ==
    WithHash(ks, d, t, cmd.key, LAMBDA looked, e : Result(looked, FieldReply(Fields(e), cmd.field)))

HMGET(ks, d, t, u, cmd) ==
    WithHash(ks, d, t, cmd.key, LAMBDA looked, e :
        Result(looked, Array([i \in DOMAIN cmd.fields |-> FieldReply(Fields(e), cmd.fields[i])])))

\* HGETALL, HKEYS and HVALS (cmd.what).  Fields come in order; the values of HVALS, which
\* come in their own order, are given as a bag.
HGETALL(ks, d, t, u, cmd) ==
    LET Listing(f) ==
            LET names == SetToSortSeq(DOMAIN f, <)
            IN  CASE cmd.what = "all"  -> Array([i \in DOMAIN names |-> <<names[i], f[names[i]]>>])
                  [] cmd.what = "keys" -> Array(names)
                  [] cmd.what = "vals" -> <<"bag", [v \in {f[x] : x \in DOMAIN f} |->
                                                     Cardinality({x \in DOMAIN f : f[x] = v})]>>
    IN  WithHash(ks, d, t, cmd.key, LAMBDA looked, e : Result(looked, Listing(Fields(e))))

\* cmd.fields is a set.  A missing key leaves h null, and the handler erases from it.
HDEL(ks, d, t, u, cmd) ==
    LET Erase(looked, e) ==
            IF e = Missing THEN Result(looked, Undefined)
            ELSE Result(Rewrite(looked, d, cmd.key, Restrict(Fields(e), DOMAIN Fields(e) \ cmd.fields)),
                        Int64(Cardinality(DOMAIN Fields(e) \cap cmd.fields)))
    IN  WithHash(ks, d, t, cmd.key, Erase)

HEXISTS(ks, d, t, u, cmd) ==
    WithHash(ks, d, t, cmd.key, LAMBDA looked, e :
        Result(looked, Int64(IF cmd.field \in DOMAIN Fields(e) THEN 1 ELSE 0)))

HLEN(ks, d, t, u, cmd) ==
    WithHash(ks, d, t, cmd.key, LAMBDA looked, e : Result(looked, Int64(Cardinality(DOMAIN Fields(e)))))

HSTRLEN(ks, d, t, u, cmd) ==
    WithHash(ks, d, t, cmd.key, LAMBDA looked, e :
        Result(looked, Int64(IF cmd.field \in DOMAIN Fields(e) THEN Len(Fields(e)[cmd.field]) ELSE 0)))

\* Store the string s in a field of the hash that was found or made.
PutField(ks, d, cmd, s) ==
    Rewrite(ks, d, cmd.key, (cmd.field :> s) @@ ks.table[d][cmd.key].val.data)

HSETNX(ks, d, t, u, cmd) ==
    WithMade(ks, d, t, cmd.key, Hash(<<>>), LAMBDA made, f :
        IF cmd.field \in DOMAIN f THEN Result(made, Int64(0))
        ELSE Result(PutField(made, d, cmd, cmd.val), Int64(1)))

\* cmd.n is the increment, parsed before the key is created.
HINCRBY(ks, d, t, u, cmd) ==
    LET Add(made, cur) ==
            IF cur = NotInt THEN Result(made, Error("hashnotint"))
            ELSE IF ~InRange(cur + cmd.n) THEN Result(made, ErrNotInt)
            ELSE Result(PutField(made, d, cmd, Decimal(cur + cmd.n)), Int64(cur + cmd.n))
    IN  IF cmd.n = NotInt THEN Result(ks, ErrNotInt)
        ELSE WithMade(ks, d, t, cmd.key, Hash(<<>>), LAMBDA made, f :
                 Add(made, IF cmd.field \in DOMAIN f THEN ParseIntStrict(f[cmd.field]) ELSE 0))

\* cmd.size as for INCRBYFLOAT.  The argument is parsed first; an infinite sum is refused
\* after the key has been created.
HINCRBYFLOAT(ks, d, t, u, cmd) ==
    LET Store(made, res) == Result(PutField(made, d, cmd, res), Bulk(res))
        Add(made, old) ==
            IF ~IsNumber(old) THEN Result(made, Error("hashnotfloat"))
            ELSE IF cmd.size = "infinite" THEN Result(made, Error("overflow"))
            ELSE IF cmd.size = "wide" THEN Result(made, Undefined)
            ELSE Store(made, Decimal(ToNumber(old) + ToNumber(cmd.val)))
    IN  IF ~IsNumber(cmd.val) THEN Result(ks, Error("notfloat"))
        ELSE WithMade(ks, d, t, cmd.key, Hash(<<>>), LAMBDA made, f :
                 Add(made, IF cmd.field \in DOMAIN f THEN f[cmd.field] ELSE <<0>>))
=============================================================================
