------------------------------- MODULE Keyspace -------------------------------
(***************************************************************************)
(* The Database object as the event loop drives it: the calls of commands, *)
(* one at a time, the active expire cycle of PeriodicTasks, and a clock    *)
(* that moves between any two calls.                                       *)
(***************************************************************************)
EXTENDS Database

CONSTANTS
    Deadlines,     \* the deadlines callers give: 0 for none, otherwise any time
    Times,         \* the readings of the clock
    MaxExpired,    \* bound on total_expired_
    MaxUsed,       \* bound on used_, which drifts without limit
    MaxDrift       \* bound on how far used_ drifts once it does

ASSUME KeyspaceAssumption ==
    /\ Times \subseteq Nat
    /\ Deadlines \subseteq Int
    /\ MaxExpired \in Nat
    /\ MaxUsed \in Nat /\ MaxDrift \in Nat
    /\ kSampleWindow \in Nat \ {0}
    /\ Missing \notin Entry
    /\ \A k \in Keys : KeySize(k) \in Nat
    /\ \A v \in Values : ValueSize(v) \in Nat

VARIABLES
    ks,       \* the state of the Database
    now,      \* NowMs()
    answer,   \* the last call and what it returned
    drifted   \* history: some command changed the size of an entry in place

vars == <<ks, now, answer, drifted>>

TableOK ==
    /\ DOMAIN ks = {"table", "used", "expired"}
    /\ ks.table \in Tables
    /\ now \in Times
    /\ drifted \in BOOLEAN

TypeOK ==
    /\ TableOK
    /\ ks.used \in 0 .. MaxUsed
    /\ ks.expired \in 0 .. MaxExpired
    /\ answer \in {<<"none">>} \cup ({"cleared"} \X SUBSET Dbs)
                  \cup ({"removed"} \X Dbs \X Keys \X BOOLEAN)
                  \cup ({"put", "updated"} \X Dbs \X Keys \X Entry)
                  \cup ({"found"} \X Dbs \X Keys \X (Entry \cup {Missing}))

Init ==
    /\ ks = EmptyState
    /\ now \in Times
    /\ answer = <<"none">>
    /\ drifted = FALSE

-----------------------------------------------------------------------------
CallLookup(d, k) ==
    /\ ks' = Lookup(ks, d, k, now)
    /\ answer' = <<"found", d, k, ks'.table[d][k]>>
    /\ UNCHANGED <<now, drifted>>

CallSet(d, k, v, exp) ==
    /\ ks' = Set(ks, d, k, v, exp)
    /\ answer' = <<"put", d, k, [val |-> v, exp |-> exp]>>
    /\ UNCHANGED <<now, drifted>>

CallDelete(d, k) ==
    /\ ks' = Delete(ks, d, k)
    /\ answer' = <<"removed", d, k, ks.table[d][k] # Missing>>
    /\ UNCHANGED <<now, drifted>>

\* A command looks a key up and, if it is there, writes through the pointer:
\* a new value (APPEND, INCR, HSET, LPUSH, ...) or a new deadline (EXPIRE, PERSIST).
WriteInPlace(d, k, e) ==
    LET found == Lookup(ks, d, k, now) IN
    /\ found.table[d][k] # Missing
    /\ ks' = Poke(found, d, k, e)
    /\ answer' = <<"updated", d, k, e>>
    /\ drifted' = (drifted \/ ValueSize(e.val) # ValueSize(found.table[d][k].val))
    /\ UNCHANGED now

CallFlushDb(d) ==
    /\ ks' = FlushDb(ks, d)
    /\ answer' = <<"cleared", {d}>>
    /\ UNCHANGED <<now, drifted>>

CallFlushAll ==
    /\ ks' = FlushAll(ks)
    /\ answer' = <<"cleared", Dbs>>
    /\ UNCHANGED <<now, drifted>>

\* The cycle reads the clock once per database; all of it is one step here.
CallActiveExpireCycle ==
    \E scan \in [Dbs -> SUBSET Keys] :
       /\ \A d \in Dbs : scan[d] \in Windows(ks, d)
       /\ ks' = ActiveExpireCycle(ks, scan, now)
       /\ UNCHANGED <<now, answer, drifted>>

Tick ==
    \E t \in Times :
       /\ t > now
       /\ now' = t
       /\ answer' = <<"none">>
       /\ UNCHANGED <<ks, drifted>>

Call ==
    \/ \E d \in Dbs, k \in Keys :
          \/ CallLookup(d, k)
          \/ CallDelete(d, k)
          \/ \E v \in Values, exp \in Deadlines :
                \/ CallSet(d, k, v, exp)
                \/ WriteInPlace(d, k, [val |-> v, exp |-> exp])
    \/ \E d \in Dbs : CallFlushDb(d)
    \/ CallFlushAll
    \/ CallActiveExpireCycle

Within ==
    /\ ks'.expired <= MaxExpired /\ ks'.used <= MaxUsed
    /\ drifted' => ks'.used - Account(ks', [d \in Dbs |-> Keys]) \in -MaxDrift .. MaxDrift

Next == (Call /\ Within) \/ Tick

Spec == Init /\ [][Next]_vars

-----------------------------------------------------------------------------
\* Until a command resizes an entry in place, used_memory() is exactly what the
\* entries occupy: Lookup, Set, Delete, FLUSH* and the expire cycle each pay back
\* what was paid in, through any sequence of replacements and expirations.
UsedExact ==
    ~drifted => ks.used = Account(ks, [d \in Dbs |-> Keys])

Vanished == {dk \in Dbs \X Keys : /\ ks.table[dk[1]][dk[2]] # Missing
                                  /\ ks'.table[dk[1]][dk[2]] = Missing}

Discarded ==
    \/ CallFlushAll
    \/ \E d \in Dbs : CallFlushDb(d) \/ \E k \in Keys : CallDelete(d, k)

\* A key leaves the tables without a Delete or a flush only when its deadline has
\* passed, and every such removal is counted once in total_expired_, whether a
\* lookup or the active cycle took the key.
ExpiryCounted ==
    [][\/ Discarded /\ ks'.expired = ks.expired
       \/ /\ \A dk \in Vanished : Stale(ks.table[dk[1]][dk[2]], now)
          /\ ks'.expired - ks.expired = Cardinality(Vanished)]_vars

\* The Database implements a store whose keys disappear at their deadline: no
\* call sees a stale entry or misses a live one, whatever the two expiry
\* mechanisms have or have not collected.
Live == [d \in Dbs |-> [k \in Keys |->
            IF Stale(ks.table[d][k], now) THEN Missing ELSE ks.table[d][k]]]

Abstract == INSTANCE ExpiringStore WITH store <- Live

Implements == Abstract!Spec
=============================================================================
