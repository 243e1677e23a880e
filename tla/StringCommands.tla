---------------------------- MODULE StringCommands ----------------------------
(* The handlers of the string commands (commands.cpp). *)
EXTENDS CommandBase

CONSTANT MaxBulk     \* proto-max-bulk-len

GetReply(e) ==
    CASE Kind(e, "string") = "missing"   -> Nil
      [] Kind(e, "string") = "wrongtype" -> WrongType
      [] Kind(e, "string") = "found"     -> Bulk(e.val.data)

\* A string as the handlers see it when a missing key counts as empty.
Content(e) == IF e = Missing THEN <<>> ELSE e.val.data

GET(ks, d, t, u, cmd) ==
    Result(Lookup(ks, d, cmd.key, t), GetReply(Found(ks, d, cmd.key, t)))

\* ex and px are 0 when the option is absent.
CmdSet(ks, d, t, u, cmd) ==
    LET e == Found(ks, d, cmd.key, t)
        looked == Lookup(ks, d, cmd.key, t)
        syntax == (cmd.nx /\ cmd.xx) \/ cmd.ex \notin Nat \/ cmd.px \notin Nat
        wraps == (cmd.ex # 0 /\ Overflows(u, cmd.ex, Second)) \/ (cmd.px # 0 /\ Overflows(u, cmd.px, 1))
        skip == (e # Missing /\ cmd.nx) \/ (e = Missing /\ cmd.xx)
        exp == CASE cmd.px # 0 -> u + cmd.px
                 [] cmd.px = 0 /\ cmd.ex # 0 -> u + cmd.ex * Second
                 [] OTHER -> IF e # Missing /\ cmd.keepttl THEN e.exp ELSE 0
    IN  CASE syntax -> Result(ks, Error("syntax"))
          [] ~syntax /\ cmd.get /\ Kind(e, "string") = "wrongtype" -> Result(looked, WrongType)
          [] OTHER -> IF ~skip /\ wraps THEN Result(looked, Undefined) ELSE
                      Result(IF skip THEN looked ELSE Set(looked, d, cmd.key, String(cmd.val), exp),
                             IF cmd.get THEN GetReply(e) ELSE IF skip THEN Nil ELSE OK)

SETNX(ks, d, t, u, cmd) ==
    LET looked == Lookup(ks, d, cmd.key, t) IN
    IF Found(ks, d, cmd.key, t) # Missing THEN Result(looked, Int64(0))
    ELSE Result(Set(looked, d, cmd.key, String(cmd.val), 0), Int64(1))

\* SETEX and PSETEX: unit is Second or 1.  The old entry is not looked at.
SETEX(ks, d, t, u, cmd) ==
    IF cmd.n \notin Nat \ {0} THEN Result(ks, ErrNotInt)
    ELSE IF Overflows(t, cmd.n, cmd.unit) THEN Result(ks, Undefined)
    ELSE Result(Set(ks, d, cmd.key, String(cmd.val), t + cmd.n * cmd.unit), OK)

\* Mutant of GETSET: the new value is stored before the type of the old one is checked.
GETSETFirst(ks, d, t, u, cmd) ==
    Result(Set(Lookup(ks, d, cmd.key, t), d, cmd.key, String(cmd.val), 0),
           GetReply(Found(ks, d, cmd.key, t)))

GETSET(ks, d, t, u, cmd) ==
    LET e == Found(ks, d, cmd.key, t)
        looked == Lookup(ks, d, cmd.key, t)
    IN  Result(IF IsError(GetReply(e)) THEN looked ELSE Set(looked, d, cmd.key, String(cmd.val), 0),
               GetReply(e))

GETDEL(ks, d, t, u, cmd) ==
    LET e == Found(ks, d, cmd.key, t)
        looked == Lookup(ks, d, cmd.key, t)
    IN  Result(IF Kind(e, "string") = "found" THEN Delete(looked, d, cmd.key) ELSE looked,
               GetReply(e))

\* Characters from..to of s, counted from 0; negative positions count from the end.
GetRange(s, from, to) ==
    LET len == Len(s)
        start == Max({0, IF from < 0 THEN from + len ELSE from})
        end == Min({len - 1, IF to < 0 THEN to + len ELSE to})
    IN  IF start > end \/ end < 0 THEN <<>> ELSE SubSeq(s, start + 1, end + 1)

GETRANGE(ks, d, t, u, cmd) ==
    LET e == Found(ks, d, cmd.key, t) IN
    Result(Lookup(ks, d, cmd.key, t),
           CASE Kind(e, "string") = "wrongtype" -> WrongType
             [] Kind(e, "string") # "wrongtype" /\ NotInt \in {cmd.from, cmd.to} -> ErrNotInt
             [] OTHER -> Bulk(GetRange(Content(e), cmd.from, cmd.to)))

\* resize with NUL characters, then replace.
Overlay(s, offset, v) ==
    [i \in 1 .. Max({Len(s), offset + Len(v)}) |->
        IF i \in offset + 1 .. offset + Len(v) THEN v[i - offset]
        ELSE IF i <= Len(s) THEN s[i] ELSE Nul]

\* The end of the handlers that write a string in place: made is the keyspace in
\* which the entry exists, data its new content.
InPlace(made, d, k, data) == Result(Rewrite(made, d, k, data), Int64(Len(data)))

SETRANGE(ks, d, t, u, cmd) ==
    CASE cmd.n \notin Nat -> Result(ks, Error("range"))
      [] cmd.n \in Nat /\ ~InRange(cmd.n + Len(cmd.val)) -> Result(ks, Undefined)
      [] cmd.n \in Nat /\ cmd.n + Len(cmd.val) \in MaxBulk + 1 .. LLMax -> Result(ks, Error("toolong"))
      [] OTHER -> WithMade(ks, d, t, cmd.key, String(<<>>), LAMBDA made, data :
                      InPlace(made, d, cmd.key, Overlay(data, cmd.n, cmd.val)))

STRLEN(ks, d, t, u, cmd) ==
    LET e == Found(ks, d, cmd.key, t) IN
    Result(Lookup(ks, d, cmd.key, t),
           IF Kind(e, "string") = "wrongtype" THEN WrongType ELSE Int64(Len(Content(e))))

APPEND(ks, d, t, u, cmd) ==
    WithMade(ks, d, t, cmd.key, String(<<>>), LAMBDA made, data : InPlace(made, d, cmd.key, data \o cmd.val))

\* INCR, DECR, INCRBY and DECRBY: cmd.n is the increment, NotInt if the argument
\* does not parse or cannot be negated.
CmdIncrBy(ks, d, t, u, cmd) ==
    LET Add(made, cur) ==
            IF cur = NotInt \/ ~InRange(cur + cmd.n) THEN Result(made, ErrNotInt)
            ELSE Result(Rewrite(made, d, cmd.key, Decimal(cur + cmd.n)), Int64(cur + cmd.n))
    IN  IF cmd.n = NotInt THEN Result(ks, ErrNotInt)
        ELSE WithMade(ks, d, t, cmd.key, String(<<>>), LAMBDA made, data :
                 Add(made, IF data = <<>> THEN 0 ELSE ParseIntStrict(data)))

\* The argument is parsed after the entry has been created.  cmd.size is the size of the
\* argument and with it of the sum: infinite, finite, or wide, when the sum has from 111 to
\* 126 characters before the point and FormatLongDouble reads past its buffer.
INCRBYFLOAT(ks, d, t, u, cmd) ==
    LET Store(made, res) == Result(Rewrite(made, d, cmd.key, res), Bulk(res))
        Add(made, data) ==
            IF (data # <<>> /\ ~IsNumber(data)) \/ ~IsNumber(cmd.val)
            THEN Result(made, Error("notfloat"))
            ELSE IF cmd.size = "infinite" THEN Result(made, Error("overflow"))
            ELSE IF cmd.size = "wide" THEN Result(made, Undefined)
            ELSE Store(made, Decimal((IF data = <<>> THEN 0 ELSE ToNumber(data)) + ToNumber(cmd.val)))
    IN  WithMade(ks, d, t, cmd.key, String(<<>>), Add)

\* Several lookups in a row: the first key at t, the others at u.
Reading(i, t, u) == IF i = 1 THEN t ELSE u
LookupAll(ks, d, keys, t, u) ==
    FoldLeft(LAMBDA s, i : Lookup(s, d, keys[i], Reading(i, t, u)), ks,
             [i \in DOMAIN keys |-> i])

MGET(ks, d, t, u, cmd) ==
    Result(LookupAll(ks, d, cmd.keys, t, u),
           Array([i \in DOMAIN cmd.keys |->
                     LET e == Found(ks, d, cmd.keys[i], Reading(i, t, u))
                     IN  IF Kind(e, "string") = "found" THEN Bulk(e.val.data) ELSE Nil]))

SetAll(ks, d, keys, v) == FoldLeft(LAMBDA s, k : Set(s, d, k, String(v), 0), ks, keys)

MSET(ks, d, t, u, cmd) == Result(SetAll(ks, d, cmd.keys, cmd.val), OK)

\* The lookups stop at the first key that exists.
MSETNX(ks, d, t, u, cmd) ==
    LET hits == {i \in DOMAIN cmd.keys : Found(ks, d, cmd.keys[i], Reading(i, t, u)) # Missing}
    IN  IF hits # {} THEN Result(LookupAll(ks, d, SubSeq(cmd.keys, 1, Min(hits)), t, u), Int64(0))
        ELSE Result(SetAll(LookupAll(ks, d, cmd.keys, t, u), d, cmd.keys, cmd.val), Int64(1))
=============================================================================
