------------------------------- MODULE Commands -------------------------------
(***************************************************************************)
(* The body of Dispatch (commands.cpp) for the commands that only work on  *)
(* the keyspace: which handler each command runs.                          *)
(***************************************************************************)
EXTENDS StringCommands, KeyCommands, ListCommands, HashCommands, SetCommands

\* One name stands for the commands that share a handler: INCRBY for INCR, DECR
\* and DECRBY, SETEX for PSETEX, DEL for UNLINK, EXPIRE for its three variants, TTL
\* for PTTL, PUSH, POP and LMOVE for the left and the right forms, HSET for HMSET,
\* HGETALL for HKEYS and HVALS, SETOP and SETSTORE for the three set operations.
Exec(ks, d, t, u, cmd) ==
    CASE cmd.op = "GET"         -> GET(ks, d, t, u, cmd)
      [] cmd.op = "SET"         -> CmdSet(ks, d, t, u, cmd)
      [] cmd.op = "SETNX"       -> SETNX(ks, d, t, u, cmd)
      [] cmd.op = "SETEX"       -> SETEX(ks, d, t, u, cmd)
      [] cmd.op = "GETSET"      -> GETSET(ks, d, t, u, cmd)
      [] cmd.op = "GETDEL"      -> GETDEL(ks, d, t, u, cmd)
      [] cmd.op = "GETRANGE"    -> GETRANGE(ks, d, t, u, cmd)
      [] cmd.op = "SETRANGE"    -> SETRANGE(ks, d, t, u, cmd)
      [] cmd.op = "STRLEN"      -> STRLEN(ks, d, t, u, cmd)
      [] cmd.op = "APPEND"      -> APPEND(ks, d, t, u, cmd)
      [] cmd.op = "INCRBY"      -> CmdIncrBy(ks, d, t, u, cmd)
      [] cmd.op = "INCRBYFLOAT" -> INCRBYFLOAT(ks, d, t, u, cmd)
      [] cmd.op = "MGET"        -> MGET(ks, d, t, u, cmd)
      [] cmd.op = "MSET"        -> MSET(ks, d, t, u, cmd)
      [] cmd.op = "MSETNX"      -> MSETNX(ks, d, t, u, cmd)
      [] cmd.op = "DEL"         -> DEL(ks, d, t, u, cmd)
      [] cmd.op = "EXISTS"      -> EXISTS(ks, d, t, u, cmd)
      [] cmd.op = "KEYS"        -> KEYS(ks, d, t, u, cmd)
      [] cmd.op = "SCAN"        -> SCAN(ks, d, t, u, cmd)
      [] cmd.op = "RANDOMKEY"   -> RANDOMKEY(ks, d, t, u, cmd)
      [] cmd.op = "TYPE"        -> TYPE(ks, d, t, u, cmd)
      [] cmd.op = "RENAME"      -> RENAME(ks, d, t, u, cmd)
      [] cmd.op = "EXPIRE"      -> CmdExpire(ks, d, t, u, cmd)
      [] cmd.op = "TTL"         -> TTL(ks, d, t, u, cmd)
      [] cmd.op = "PERSIST"     -> PERSIST(ks, d, t, u, cmd)
      [] cmd.op = "DBSIZE"      -> DBSIZE(ks, d, t, u, cmd)
      [] cmd.op = "FLUSHDB"     -> FLUSHDB(ks, d, t, u, cmd)
      [] cmd.op = "FLUSHALL"    -> FLUSHALL(ks, d, t, u, cmd)
      [] cmd.op = "MEMORY"      -> MEMORYUSAGE(ks, d, t, u, cmd)
      [] cmd.op = "PUSH"        -> CmdPush(ks, d, t, u, cmd)
      [] cmd.op = "POP"         -> CmdPop(ks, d, t, u, cmd)
      [] cmd.op = "LLEN"        -> LLEN(ks, d, t, u, cmd)
      [] cmd.op = "LRANGE"      -> LRANGE(ks, d, t, u, cmd)
      [] cmd.op = "LINDEX"      -> LINDEX(ks, d, t, u, cmd)
      [] cmd.op = "LSET"        -> LSET(ks, d, t, u, cmd)
      [] cmd.op = "LREM"        -> LREM(ks, d, t, u, cmd)
      [] cmd.op = "LINSERT"     -> LINSERT(ks, d, t, u, cmd)
      [] cmd.op = "LTRIM"       -> LTRIM(ks, d, t, u, cmd)
      [] cmd.op = "LMOVE"       -> CmdLMove(ks, d, t, u, cmd)
      [] cmd.op = "HSET"        -> HSET(ks, d, t, u, cmd)
      [] cmd.op = "HGET"        -> HGET(ks, d, t, u, cmd)
      [] cmd.op = "HMGET"       -> HMGET(ks, d, t, u, cmd)
      [] cmd.op = "HGETALL"     -> HGETALL(ks, d, t, u, cmd)
      [] cmd.op = "HDEL"        -> HDEL(ks, d, t, u, cmd)
      [] cmd.op = "HEXISTS"     -> HEXISTS(ks, d, t, u, cmd)
      [] cmd.op = "HLEN"        -> HLEN(ks, d, t, u, cmd)
      [] cmd.op = "HSTRLEN"     -> HSTRLEN(ks, d, t, u, cmd)
      [] cmd.op = "HSETNX"      -> HSETNX(ks, d, t, u, cmd)
      [] cmd.op = "HINCRBY"     -> HINCRBY(ks, d, t, u, cmd)
      [] cmd.op = "HINCRBYFLOAT" -> HINCRBYFLOAT(ks, d, t, u, cmd)
      [] cmd.op = "SADD"        -> SADD(ks, d, t, u, cmd)
      [] cmd.op = "SREM"        -> SREM(ks, d, t, u, cmd)
      [] cmd.op = "SMEMBERS"    -> SMEMBERS(ks, d, t, u, cmd)
      [] cmd.op = "SISMEMBER"   -> SISMEMBER(ks, d, t, u, cmd)
      [] cmd.op = "SCARD"       -> SCARD(ks, d, t, u, cmd)
      [] cmd.op = "SPOP"        -> SPOP(ks, d, t, u, cmd)
      [] cmd.op = "SRANDMEMBER" -> SRANDMEMBER(ks, d, t, u, cmd)
      [] cmd.op = "SMOVE"       -> SMOVE(ks, d, t, u, cmd)
      [] cmd.op = "SETOP"       -> CmdSetOp(ks, d, t, u, cmd)
      [] cmd.op = "SETSTORE"    -> CmdSetOpStore(ks, d, t, u, cmd)

\* IsWriteCommand, on the commands above.
Writes == {"SET", "SETNX", "SETEX", "GETSET", "SETRANGE", "APPEND", "INCRBY", "INCRBYFLOAT",
           "MSET", "MSETNX", "DEL", "RENAME", "EXPIRE", "PERSIST", "GETDEL", "PUSH", "POP",
           "LSET", "LREM", "LINSERT", "LTRIM", "LMOVE", "HSET", "HDEL", "HSETNX", "HINCRBY",
           "HINCRBYFLOAT", "SADD", "SREM", "SPOP", "SMOVE", "SETSTORE", "FLUSHDB", "FLUSHALL"}
=============================================================================
