------------------------------- MODULE Database -------------------------------
(***************************************************************************)
(* The operations of class Database (db.cpp) as functions of its state     *)
(*     ks = [table |-> ..., used |-> ..., expired |-> ...]                 *)
(* where table[d][k] is the entry of key k in database d, or Missing,      *)
(* used is used_ (the memory account) and expired is total_expired_.       *)
(* An entry is [val, exp]; exp = 0 means that the key never expires.       *)
(* `now' is the clock reading of the call.                                 *)
(***************************************************************************)
EXTENDS Integers, FiniteSetsExt

CONSTANTS
    Dbs, Keys, Values,
    KeySize(_),      \* key.size()
    ValueSize(_),    \* ValueSize(value)
    kSampleWindow,   \* entries one ActiveExpireCycle visits per database
    Missing          \* no entry

Entry == [val : Values, exp : Int]
Tables == [Dbs -> [Keys -> Entry \cup {Missing}]]

EmptyTables == [d \in Dbs |-> [k \in Keys |-> Missing]]
EmptyState == [table |-> EmptyTables, used |-> 0, expired |-> 0]

EntrySize(k, e) == 48 + KeySize(k) + ValueSize(e.val)

\* Mutant of MemSub: plain subtraction.
MemSubPlain(used, n) == used - n

\* MemSub never goes below zero.
MemSub(used, n) == IF used >= n THEN used - n ELSE 0

Present(ks, d) == {k \in Keys : ks.table[d][k] # Missing}
Stale(e, now) == e # Missing /\ e.exp # 0 /\ now >= e.exp

\* What is left of the account once key k's entry, if any, is paid back.
Unaccount(ks, d, k) ==
    IF ks.table[d][k] = Missing THEN ks.used
    ELSE MemSub(ks.used, EntrySize(k, ks.table[d][k]))

\* The account of a set of keys of each database, as the entries are now.
Account(ks, scan) ==
    MapThenSumSet(LAMBDA d : MapThenSumSet(LAMBDA k : EntrySize(k, ks.table[d][k]),
                                           scan[d] \cap Present(ks, d)), Dbs)

Delete(ks, d, k) ==
    [ks EXCEPT !.table[d][k] = Missing, !.used = Unaccount(ks, d, k)]

\* Mutants of Lookup: the deadline is not looked at, or the removal is not counted.
LookupRaw(ks, d, k, now) == ks
LookupUncounted(ks, d, k, now) == IF Stale(ks.table[d][k], now) THEN Delete(ks, d, k) ELSE ks

\* Lookup drops a stale entry.  What it returns is Lookup(...).table[d][k].
Lookup(ks, d, k, now) ==
    IF Stale(ks.table[d][k], now)
    THEN [Delete(ks, d, k) EXCEPT !.expired = @ + 1]
    ELSE ks

\* Mutant of Set: the entry that is replaced is not paid back.
SetUnpaid(ks, d, k, v, exp) ==
    LET e == [val |-> v, exp |-> exp] IN
    [ks EXCEPT !.table[d][k] = e, !.used = @ + EntrySize(k, e)]

Set(ks, d, k, v, exp) ==
    LET e == [val |-> v, exp |-> exp] IN
    [ks EXCEPT !.table[d][k] = e, !.used = Unaccount(ks, d, k) + EntrySize(k, e)]

\* A command writes through the pointer that Lookup returned: the entry changes
\* and the account does not.
Poke(ks, d, k, e) == [ks EXCEPT !.table[d][k] = e]

\* Take a set of keys out of each database.
DropAll(ks, scan) ==
    [ks EXCEPT !.table = [d \in Dbs |-> [k \in Keys |->
                             IF k \in scan[d] THEN Missing ELSE ks.table[d][k]]],
               !.used = MemSub(@, Account(ks, scan))]

FlushDb(ks, d) == DropAll(ks, [e \in Dbs |-> IF e = d THEN Keys ELSE {}])

FlushAll(ks) == DropAll(ks, [d \in Dbs |-> Keys])

\* The sets of keys that one ActiveExpireCycle can visit in database d.  The
\* order of the hash table is arbitrary, so a window is a set of the right size:
\* the walk starts at a random offset below both the size and kSampleWindow and
\* goes on to the end of the table or to kSampleWindow entries.
Windows(ks, d) ==
    LET size == Cardinality(Present(ks, d))
        lengths == {Min({size - offset, kSampleWindow}) :
                       offset \in 0 .. Min({size, kSampleWindow}) - 1}
    IN  IF size = 0 THEN {{}} ELSE {s \in SUBSET Present(ks, d) : Cardinality(s) \in lengths}

StaleIn(ks, scan, now) ==
    [d \in Dbs |-> {k \in scan[d] : Stale(ks.table[d][k], now)}]

ActiveExpireCycle(ks, scan, now) ==
    LET dead == StaleIn(ks, scan, now) IN
    [DropAll(ks, dead) EXCEPT
        !.expired = @ + MapThenSumSet(LAMBDA d : Cardinality(dead[d]), Dbs)]
=============================================================================
