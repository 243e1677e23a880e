----------------------------- MODULE ListCommands -----------------------------
(* The handlers of the list commands (commands.cpp). *)
EXTENDS CommandBase

\* A list as the handlers see it when a missing key counts as empty.
Elements(e) == IF e = Missing THEN <<>> ELSE e.val.data

WithList(ks, d, t, k, Then(_, _)) == WithTyped(ks, d, t, k, "list", Then)

PushAll(l, vals, left) == IF left THEN Reverse(vals) \o l ELSE l \o vals

CmdPush(ks, d, t, u, cmd) ==
    LET Store(made, l) == Result(Rewrite(made, d, cmd.key, l), Int64(Len(l)))
    IN  WithMade(ks, d, t, cmd.key, List(<<>>), LAMBDA made, l : Store(made, PushAll(l, cmd.vals, cmd.left)))

\* cmd.n is -1 without a count.  An empty list stays in the table.
CmdPop(ks, d, t, u, cmd) ==
    LET Pop(looked, e) ==
            LET l == Elements(e)
                n == Min({IF cmd.n = -1 THEN 1 ELSE cmd.n, Len(l)})
                taken == IF cmd.left THEN SubSeq(l, 1, n) ELSE Reverse(SubSeq(l, Len(l) - n + 1, Len(l)))
                rest == IF cmd.left THEN SubSeq(l, n + 1, Len(l)) ELSE SubSeq(l, 1, Len(l) - n)
            IN  IF l = <<>> THEN Result(looked, Nil)
                ELSE Result(Rewrite(looked, d, cmd.key, rest),
                            IF cmd.n = -1 THEN Bulk(taken) ELSE Array(taken))
    IN  IF cmd.n = NotInt THEN Result(ks, ErrNotInt) ELSE WithList(ks, d, t, cmd.key, Pop)

LLEN(ks, d, t, u, cmd) ==
    WithList(ks, d, t, cmd.key, LAMBDA looked, e : Result(looked, Int64(Len(Elements(e)))))

\* The window start..stop clipped to a list of length len; empty when stop < start.
ListIndexRange(start, stop, len) ==
    [start |-> Max({0, IF start < 0 THEN start + len ELSE start}),
     stop |-> Min({len - 1, IF stop < 0 THEN stop + len ELSE stop})]

Window(l, from, to) ==
    LET w == ListIndexRange(from, to, Len(l)) IN SubSeq(l, w.start + 1, w.stop + 1)

LRANGE(ks, d, t, u, cmd) ==
    WithList(ks, d, t, cmd.key, LAMBDA looked, e :
        Result(looked, IF NotInt \in {cmd.from, cmd.to} THEN ErrNotInt
                       ELSE Array(Window(Elements(e), cmd.from, cmd.to))))

\* The position of LINDEX and LSET, counted from 1, or 0 when out of range.
Position(l, idx) ==
    LET i == (IF idx < 0 THEN idx + Len(l) ELSE idx) + 1
    IN  IF i \in DOMAIN l THEN i ELSE 0

LINDEX(ks, d, t, u, cmd) ==
    WithList(ks, d, t, cmd.key, LAMBDA looked, e :
        Result(looked, IF cmd.n = NotInt THEN ErrNotInt
                       ELSE IF Position(Elements(e), cmd.n) = 0 THEN Nil
                       ELSE Bulk(<<Elements(e)[Position(Elements(e), cmd.n)]>>)))

LSET(ks, d, t, u, cmd) ==
    LET Store(looked, e) ==
            LET l == Elements(e)
                i == Position(l, cmd.n)
            IN  CASE cmd.n = NotInt -> Result(looked, ErrNotInt)
                  [] cmd.n # NotInt /\ l = <<>> -> Result(looked, Error("nokey"))
                  [] OTHER -> IF i = 0 THEN Result(looked, Error("range"))
                              ELSE Result(Rewrite(looked, d, cmd.key, [l EXCEPT ![i] = cmd.val]), OK)
    IN  WithList(ks, d, t, cmd.key, Store)

\* LREM: the first n occurrences, the last -n, or all of them for 0.
Victims(l, n, val) ==
    LET hits == {i \in DOMAIN l : l[i] = val}
        Before(i) == Cardinality({j \in hits : j < i})
        After(i) == Cardinality({j \in hits : j > i})
    IN  IF n = 0 THEN hits
        ELSE IF n > 0 THEN {i \in hits : Before(i) < n} ELSE {i \in hits : After(i) < -n}

\* The smallest long long cannot be negated.
LREM(ks, d, t, u, cmd) ==
    LET Remove_(looked, e) ==
            LET l == Elements(e)
                gone == Victims(l, cmd.n, cmd.val)
                keep == SetToSortSeq(DOMAIN l \ gone, <)
            IN  CASE cmd.n = NotInt -> Result(looked, ErrNotInt)
                  [] cmd.n # NotInt /\ e = Missing -> Result(looked, Int64(0))
                  [] OTHER -> IF cmd.n = LLMin THEN Result(looked, Undefined)
                              ELSE Result(Rewrite(looked, d, cmd.key, [i \in DOMAIN keep |-> l[keep[i]]]),
                                          Int64(Cardinality(gone)))
    IN  WithList(ks, d, t, cmd.key, Remove_)

LINSERT(ks, d, t, u, cmd) ==
    LET Insert(looked, e) ==
            LET l == Elements(e)
                hits == {i \in DOMAIN l : l[i] = cmd.pivot}
                at == IF cmd.before THEN Min(hits) ELSE Min(hits) + 1
                r == InsertAt(l, at, cmd.val)
            IN  CASE e = Missing -> Result(looked, Int64(0))
                  [] e # Missing /\ hits = {} -> Result(looked, Int64(-1))
                  [] OTHER -> Result(Rewrite(looked, d, cmd.key, r), Int64(Len(r)))
    IN  WithList(ks, d, t, cmd.key, Insert)

\* LTRIM deletes a list it empties.
LTRIM(ks, d, t, u, cmd) ==
    LET Trim(looked, e) ==
            LET w == Window(Elements(e), cmd.from, cmd.to)
            IN  CASE NotInt \in {cmd.from, cmd.to} -> Result(looked, ErrNotInt)
                  [] NotInt \notin {cmd.from, cmd.to} /\ Elements(e) = <<>> -> Result(looked, OK)
                  [] OTHER -> Result(IF w = <<>> THEN Delete(looked, d, cmd.key)
                                     ELSE Rewrite(looked, d, cmd.key, w), OK)
    IN  WithList(ks, d, t, cmd.key, Trim)

\* LMOVE and RPOPLPUSH.  Source and destination are looked up one after the other.
\* When they are the same key and its deadline passes in between, the second
\* lookup frees the list that the first one returned, and the handler goes on to
\* use it.
CmdLMove(ks, d, t, u, cmd) ==
    LET Move(made, l, dst) ==
            LET v == IF cmd.left THEN Head(l) ELSE Last(l)
                rest == IF cmd.left THEN Tail(l) ELSE Front(l)
                onto == IF cmd.key = cmd.to THEN rest ELSE Elements(dst)
            IN  Result(Rewrite(Rewrite(made, d, cmd.key, rest), d, cmd.to, PushAll(onto, <<v>>, cmd.toleft)),
                       Bulk(<<v>>))
        Both(both, src, dst) ==
            IF src # Missing /\ both.table[d][cmd.key] = Missing THEN Result(both, Undefined)
            ELSE IF Elements(src) = <<>> THEN Result(both, Nil)
            ELSE Move(IF dst = Missing THEN Set(both, d, cmd.to, List(<<>>), 0) ELSE both, Elements(src), dst)
    IN  WithList(ks, d, t, cmd.key, LAMBDA first, src :
            WithList(first, d, u, cmd.to, LAMBDA both, dst : Both(both, src, dst)))
=============================================================================
