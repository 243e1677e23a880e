----------------------------- MODULE SetCommands -----------------------------
(* The handlers of the set commands (commands.cpp). *)
EXTENDS CommandBase

WithSet(ks, d, t, k, Then(_, _)) == WithTyped(ks, d, t, k, "set", Then)

\* A set as the handlers see it when a missing key counts as empty.
Members(e) == IF e = Missing THEN {} ELSE e.val.data

SetMembersSorted(m) == SetToSortSeq(m, <)

\* cmd.vals is a set, here and in SREM.
SADD(ks, d, t, u, cmd) ==
    WithMade(ks, d, t, cmd.key, SetOf({}), LAMBDA made, m :
        Result(Rewrite(made, d, cmd.key, m \cup cmd.vals), Int64(Cardinality(cmd.vals \ m))))

\* A missing key leaves sp null, and the handler erases from it.
SREM(ks, d, t, u, cmd) ==
    LET Erase(looked, e) ==
            IF e = Missing THEN Result(looked, Undefined)
            ELSE Result(Rewrite(looked, d, cmd.key, Members(e) \ cmd.vals),
                        Int64(Cardinality(Members(e) \cap cmd.vals)))
    IN  WithSet(ks, d, t, cmd.key, Erase)

SMEMBERS(ks, d, t, u, cmd) ==
    WithSet(ks, d, t, cmd.key, LAMBDA looked, e : Result(looked, Array(SetMembersSorted(Members(e)))))

SISMEMBER(ks, d, t, u, cmd) ==
    WithSet(ks, d, t, cmd.key, LAMBDA looked, e :
        Result(looked, Int64(IF cmd.val \in Members(e) THEN 1 ELSE 0)))

SCARD(ks, d, t, u, cmd) ==
    WithSet(ks, d, t, cmd.key, LAMBDA looked, e : Result(looked, Int64(Cardinality(Members(e)))))

\* The generator is cmd.draw, which lists the possible members: the members of m in the
\* order in which they are drawn.
Drawn(m, cmd) == SelectSeq(cmd.draw, LAMBDA x : x \in m)

\* Mutant of SPOP: a missing key is not tested for.
SPOPUnchecked(ks, d, t, u, cmd) ==
    LET Pop(looked, e) ==
            LET n == Min({IF cmd.n = -1 THEN 1 ELSE cmd.n, Cardinality(Members(e))})
                out == SubSeq(Drawn(Members(e), cmd), 1, n)
            IN  CASE cmd.n = NotInt -> Result(looked, ErrNotInt)
                  [] OTHER -> IF e = Missing THEN Result(looked, Undefined)
                              ELSE IF Members(e) = {} THEN Result(looked, Nil)
                              ELSE Result(Rewrite(looked, d, cmd.key, Members(e) \ ToSet(out)),
                                          IF cmd.n = -1 THEN Bulk(out) ELSE Array(out))
    IN  WithSet(ks, d, t, cmd.key, Pop)

\* cmd.n is -1 without a count; a negative count is NotInt.  An empty set stays.
SPOP(ks, d, t, u, cmd) ==
    LET Pop(looked, e) ==
            LET n == Min({IF cmd.n = -1 THEN 1 ELSE cmd.n, Cardinality(Members(e))})
                out == SubSeq(Drawn(Members(e), cmd), 1, n)
            IN  CASE cmd.n = NotInt -> Result(looked, ErrNotInt)
                  [] OTHER -> IF Members(e) = {} THEN Result(looked, Nil)
                              ELSE Result(Rewrite(looked, d, cmd.key, Members(e) \ ToSet(out)),
                                          IF cmd.n = -1 THEN Bulk(out) ELSE Array(out))
    IN  WithSet(ks, d, t, cmd.key, Pop)

\* cmd.one without a count.  A negative count draws with repetitions, as a bag; the
\* smallest one cannot be negated.
SRANDMEMBER(ks, d, t, u, cmd) ==
    LET Repeated(s) == [i \in 1 .. -cmd.n |-> s[((i - 1) % Len(s)) + 1]]
        Pick(looked, e) ==
            LET out == Drawn(Members(e), cmd)
            IN  Result(looked,
                  CASE ~cmd.one /\ cmd.n = NotInt -> ErrNotInt
                    [] cmd.one -> IF out = <<>> THEN Nil ELSE Bulk(<<out[1]>>)
                    [] OTHER ->
                         IF cmd.n >= 0
                         THEN Array(SetMembersSorted(ToSet(SubSeq(out, 1, Min({cmd.n, Len(out)})))))
                         ELSE IF out = <<>> THEN Nil
                         ELSE IF cmd.n = LLMin THEN Undefined
                         ELSE <<"bag", [x \in ToSet(Repeated(out)) |->
                                          Cardinality({i \in 1 .. -cmd.n : Repeated(out)[i] = x})]>>)
    IN  WithSet(ks, d, t, cmd.key, Pick)

\* Source and destination are looked up one after the other.  When they are the same key
\* and its deadline passes in between, the handler uses the set that was freed.
SMOVE(ks, d, t, u, cmd) ==
    LET Move(made, src, dst) ==
            Result(Rewrite(Rewrite(made, d, cmd.key, Members(src) \ {cmd.val}), d, cmd.to,
                           Members(dst) \cup {cmd.val}), Int64(1))
        Both(both, src, dst) ==
            IF src # Missing /\ both.table[d][cmd.key] = Missing THEN Result(both, Undefined)
            ELSE IF cmd.val \notin Members(src) THEN Result(both, Int64(0))
            ELSE IF cmd.key = cmd.to THEN Result(both, Int64(1))
            ELSE Move(GetOrCreate(both, d, cmd.to, u, SetOf({})), src, dst)
    IN  WithSet(ks, d, t, cmd.key, LAMBDA first, src :
            WithSet(first, d, u, cmd.to, LAMBDA both, dst : Both(both, src, dst)))

-----------------------------------------------------------------------------
\* Mutant of NextSet: SINTER passes over a missing key.
NextSetSkips(st, d, k, now, op) ==
    LET looked == Lookup(st.ks, d, k, now)
        kind == Kind(looked.table[d][k], "set")
    IN  CASE kind = "found" -> [st EXCEPT !.ks = looked, !.held = Append(@, k)]
          [] kind = "wrongtype" -> [st EXCEPT !.ks = looked, !.end = "wrongtype"]
          [] OTHER -> [st EXCEPT !.ks = looked]

\* One turn of the loop of EvalSetOp, on [ks, held, end]: held are the keys whose sets it
\* points to, end says that the loop has returned.
NextSet(st, d, k, now, op) ==
    LET looked == Lookup(st.ks, d, k, now)
        kind == Kind(looked.table[d][k], "set")
    IN  CASE st.end # "no" -> st
          [] st.end = "no" /\ kind = "found" -> [st EXCEPT !.ks = looked, !.held = Append(@, k)]
          [] st.end = "no" /\ kind = "wrongtype" -> [st EXCEPT !.ks = looked, !.end = "wrongtype"]
          [] OTHER -> [st EXCEPT !.ks = looked, !.end = IF op = "inter" THEN "empty" ELSE "no"]

Combine(op, base, others) ==
    CASE op = "union" -> base \cup UNION others
      [] op = "inter" -> {x \in base : \A o \in others : x \in o}
      [] op = "diff"  -> base \ UNION others

\* What the loop has left behind as [ks, set, end]: the set, unless end is "wrongtype".  The
\* base is the first key that is there.  A set that a later lookup of its key has freed is
\* still used.
Gathered(st, d, op) ==
    LET Held(i) == Members(st.ks.table[d][st.held[i]])
        freed == \E i \in DOMAIN st.held : st.ks.table[d][st.held[i]] = Missing
        set == IF st.held = <<>> \/ st.end = "empty" THEN {}
               ELSE Combine(op, Held(1), {Held(i) : i \in 2 .. Len(st.held)})
    IN  [ks |-> st.ks, set |-> set, end |-> IF st.end = "no" /\ freed THEN "freed" ELSE st.end]

EvalSetOp(ks, d, t, u, keys, op) ==
    Gathered(FoldLeft(LAMBDA st, i : NextSet(st, d, keys[i], IF i = 1 THEN t ELSE u, op),
                      [ks |-> ks, held |-> <<>>, end |-> "no"], [i \in DOMAIN keys |-> i]), d, op)

CmdSetOp(ks, d, t, u, cmd) ==
    LET Answer(r) == Result(r.ks, CASE r.end = "wrongtype" -> WrongType
                                    [] r.end = "freed" -> Undefined
                                    [] OTHER -> Array(SetMembersSorted(r.set)))
    IN  Answer(EvalSetOp(ks, d, t, u, cmd.keys, cmd.what))

\* The result replaces whatever cmd.to holds, also when it is empty.
CmdSetOpStore(ks, d, t, u, cmd) ==
    LET Store(r) == CASE r.end = "wrongtype" -> Result(r.ks, WrongType)
                      [] r.end = "freed" -> Result(r.ks, Undefined)
                      [] OTHER -> Result(Set(r.ks, d, cmd.to, SetOf(r.set), 0), Int64(Cardinality(r.set)))
    IN  Store(EvalSetOp(ks, d, t, u, cmd.keys, cmd.what))
==================================================
