---------------------------- MODULE KeyspaceProofs ----------------------------
(***************************************************************************)
(* The Database object implements ExpiringStore, for every set of          *)
(* databases, keys, values, deadlines and clock readings.                  *)
(***************************************************************************)
EXTENDS Keyspace, TLAPS

\* What each operation of the Database does to the tables, and that it leaves the
\* shape of the state alone.
Shape(s) == DOMAIN s = {"table", "used", "expired"} /\ s.table \in Tables

Seen(s, d, k, t) == IF Stale(s.table[d][k], t) THEN Missing ELSE s.table[d][k]

LEMMA DeleteTable ==
  ASSUME NEW s, Shape(s), NEW d \in Dbs, NEW k \in Keys
  PROVE  /\ Shape(Delete(s, d, k))
         /\ Delete(s, d, k).table = [s.table EXCEPT ![d][k] = Missing]
  BY DEF Shape, Delete, Tables

LEMMA LookupTable ==
  ASSUME NEW s, Shape(s), NEW d \in Dbs, NEW k \in Keys, NEW t
  PROVE  /\ Shape(Lookup(s, d, k, t))
         /\ Lookup(s, d, k, t).table = [s.table EXCEPT ![d][k] = Seen(s, d, k, t)]
<1>1. CASE Stale(s.table[d][k], t)
  <2>1. Lookup(s, d, k, t) = [Delete(s, d, k) EXCEPT !.expired = @ + 1]
    BY <1>1 DEF Lookup
  <2> QED BY <1>1, <2>1, DeleteTable DEF Shape, Seen
<1>2. CASE ~Stale(s.table[d][k], t)
  BY <1>2 DEF Lookup, Shape, Seen, Tables
<1> QED BY <1>1, <1>2

LEMMA SetTable ==
  ASSUME NEW s, Shape(s), NEW d \in Dbs, NEW k \in Keys,
         NEW v \in Values, NEW exp \in Int
  PROVE  /\ Shape(Set(s, d, k, v, exp))
         /\ Set(s, d, k, v, exp).table =
               [s.table EXCEPT ![d][k] = [val |-> v, exp |-> exp]]
  BY DEF Shape, Set, Tables, Entry

LEMMA PokeTable ==
  ASSUME NEW s, Shape(s), NEW d \in Dbs, NEW k \in Keys, NEW e \in Entry
  PROVE  /\ Shape(Poke(s, d, k, e))
         /\ Poke(s, d, k, e).table = [s.table EXCEPT ![d][k] = e]
  BY DEF Shape, Poke, Tables

LEMMA DropAllTable ==
  ASSUME NEW s, Shape(s), NEW scan
  PROVE  /\ Shape(DropAll(s, scan))
         /\ DropAll(s, scan).table = [d \in Dbs |-> [k \in Keys |->
               IF k \in scan[d] THEN Missing ELSE s.table[d][k]]]
  BY DEF Shape, DropAll, Tables

LEMMA ExpireTable ==
  ASSUME NEW s, Shape(s), NEW scan, NEW t
  PROVE  /\ Shape(ActiveExpireCycle(s, scan, t))
         /\ ActiveExpireCycle(s, scan, t).table = DropAll(s, StaleIn(s, scan, t)).table
<1> DEFINE dead == StaleIn(s, scan, t)
           n == MapThenSumSet(LAMBDA d : Cardinality(dead[d]), Dbs)
<1>1. ActiveExpireCycle(s, scan, t) = [DropAll(s, dead) EXCEPT !.expired = @ + n]
  BY DEF ActiveExpireCycle
<1>2. Shape(DropAll(s, dead))
  BY DropAllTable
<1> HIDE DEF dead, n
<1>3. /\ Shape([DropAll(s, dead) EXCEPT !.expired = @ + n])
      /\ [DropAll(s, dead) EXCEPT !.expired = @ + n].table = DropAll(s, dead).table
  BY <1>2 DEF Shape
<1> QED BY <1>1, <1>3 DEF dead

-----------------------------------------------------------------------------
\* The operations the actions of Keyspace are made of keep the tables well formed.
LEMMA NextTable == ASSUME TableOK, [Next]_vars PROVE TableOK'
<1>0. Shape(ks) /\ now \in Times /\ drifted \in BOOLEAN
  BY DEF TableOK, Shape
<1> SUFFICES Shape(ks') /\ now' \in Times /\ drifted' \in BOOLEAN
  BY DEF TableOK, Shape
<1>1. ASSUME NEW d \in Dbs, NEW k \in Keys, CallLookup(d, k)
      PROVE  Shape(ks') /\ now' \in Times /\ drifted' \in BOOLEAN
  BY <1>0, <1>1, LookupTable DEF CallLookup
<1>2. ASSUME NEW d \in Dbs, NEW k \in Keys, CallDelete(d, k)
      PROVE  Shape(ks') /\ now' \in Times /\ drifted' \in BOOLEAN
  BY <1>0, <1>2, DeleteTable DEF CallDelete
<1>3. ASSUME NEW d \in Dbs, NEW k \in Keys, NEW v \in Values, NEW exp \in Deadlines,
             CallSet(d, k, v, exp)
      PROVE  Shape(ks') /\ now' \in Times /\ drifted' \in BOOLEAN
  BY <1>0, <1>3, SetTable, KeyspaceAssumption DEF CallSet
<1>4. ASSUME NEW d \in Dbs, NEW k \in Keys, NEW v \in Values, NEW exp \in Deadlines,
             WriteInPlace(d, k, [val |-> v, exp |-> exp])
      PROVE  Shape(ks') /\ now' \in Times /\ drifted' \in BOOLEAN
  <2>1. [val |-> v, exp |-> exp] \in Entry
    BY KeyspaceAssumption DEF Entry
  <2>2. Shape(Lookup(ks, d, k, now))
    BY <1>0, LookupTable
  <2>3. Shape(ks')
    BY <1>4, <2>1, <2>2, PokeTable DEF WriteInPlace
  <2>4. now' \in Times /\ drifted' \in BOOLEAN
    BY <1>0, <1>4 DEF WriteInPlace
  <2> QED BY <2>3, <2>4
<1>5. ASSUME NEW d \in Dbs, CallFlushDb(d)
      PROVE  Shape(ks') /\ now' \in Times /\ drifted' \in BOOLEAN
  BY <1>0, <1>5, DropAllTable DEF CallFlushDb, FlushDb
<1>6. CASE CallFlushAll
  BY <1>0, <1>6, DropAllTable DEF CallFlushAll, FlushAll
<1>7. CASE CallActiveExpireCycle
  BY <1>0, <1>7, ExpireTable DEF CallActiveExpireCycle
<1>8. CASE Tick
  BY <1>0, <1>8 DEF Tick
<1>9. CASE UNCHANGED vars
  BY <1>0, <1>9 DEF vars
<1> QED BY <1>1, <1>2, <1>3, <1>4, <1>5, <1>6, <1>7, <1>8, <1>9 DEF Next, Call

\* The tables keep their type through every call of the Database interface: each
\* key of each database holds an entry with a value and a deadline, or nothing.
THEOREM TablesWellFormed == Spec => []TableOK
<1>1. Init => TableOK
  <2> SUFFICES ASSUME Init PROVE TableOK
    OBVIOUS
  <2>1. now \in Times /\ drifted \in BOOLEAN
    BY DEF Init
  <2>2. ks = [table |-> EmptyTables, used |-> 0, expired |-> 0]
    BY DEF Init, EmptyState
  <2>3. DOMAIN ks = {"table", "used", "expired"} /\ ks.table = EmptyTables
    BY <2>2
  <2>4. EmptyTables \in Tables
    BY DEF EmptyTables, Tables
  <2> QED BY <2>1, <2>3, <2>4 DEF TableOK
<1> QED BY <1>1, NextTable, PTL DEF Spec

-----------------------------------------------------------------------------
\* Setting one key, to an entry or to nothing, sets that key of the live store.
LEMMA LiveOne ==
  ASSUME TableOK, NEW d \in Dbs, NEW k \in Keys, NEW e \in Entry \cup {Missing},
         ks'.table = [ks.table EXCEPT ![d][k] = e], now' = now
  PROVE  Live' = [Live EXCEPT ![d][k] = Abstract!At(e, now)]
<1>1. ks.table \in Tables
  BY DEF TableOK
<1>2. \A c \in Dbs, j \in Keys :
         Live'[c][j] = IF c = d /\ j = k THEN Abstract!At(e, now) ELSE Live[c][j]
  BY <1>1 DEF Live, Tables, Stale, Abstract!At, Abstract!Due
<1> DEFINE L == [Live EXCEPT ![d][k] = Abstract!At(e, now)]
<1>3. \A c \in Dbs, j \in Keys :
         L[c][j] = IF c = d /\ j = k THEN Abstract!At(e, now) ELSE Live[c][j]
  BY DEF Live
<1>4. /\ L = [c \in Dbs |-> [j \in Keys |-> L[c][j]]]
      /\ Live' = [c \in Dbs |-> [j \in Keys |-> Live'[c][j]]]
  BY DEF Live
<1> HIDE DEF L
<1>5. \A c \in Dbs : [j \in Keys |-> Live'[c][j]] = [j \in Keys |-> L[c][j]]
  BY <1>2, <1>3
<1>6. Live' = L
  BY <1>4, <1>5
<1> QED BY <1>6 DEF L

LEMMA LookupStutters ==
  ASSUME TableOK, NEW d \in Dbs, NEW k \in Keys, now' = now,
         ks'.table = Lookup(ks, d, k, now).table
  PROVE  Live' = Live /\ ks'.table[d][k] = Live[d][k]
<1>1. ks.table \in Tables /\ Shape(ks)
  BY DEF TableOK, Shape
<1>2. ks'.table = [ks.table EXCEPT ![d][k] = Seen(ks, d, k, now)]
  BY <1>1, LookupTable
<1>3. \A c \in Dbs, j \in Keys : Live'[c][j] = Live[c][j]
  BY <1>1, <1>2 DEF Live, Tables, Stale, Seen
<1>4. ks'.table[d][k] = Live[d][k]
  BY <1>1, <1>2 DEF Live, Tables, Seen
<1> QED BY <1>3, <1>4 DEF Live

\* Taking keys out of the tables wholesale clears exactly them from the live store.
LEMMA LiveDrop ==
  ASSUME TableOK, NEW scan, now' = now, ks'.table = DropAll(ks, scan).table
  PROVE  Live' = [d \in Dbs |-> [k \in Keys |->
                     IF k \in scan[d] THEN Missing ELSE Live[d][k]]]
<1>1. ks.table \in Tables /\ Shape(ks)
  BY DEF TableOK, Shape
<1>2. ks'.table = [d \in Dbs |-> [k \in Keys |->
                     IF k \in scan[d] THEN Missing ELSE ks.table[d][k]]]
  BY <1>1, DropAllTable
<1>3. \A d \in Dbs, k \in Keys :
         Live'[d][k] = IF k \in scan[d] THEN Missing ELSE Live[d][k]
  BY <1>1, <1>2 DEF Live, Tables, Stale
<1> QED BY <1>3 DEF Live

LEMMA InitAbstract == Init => Abstract!Init
<1> SUFFICES ASSUME Init PROVE Abstract!Init
  OBVIOUS
<1>1. ks.table = EmptyTables
  BY DEF Init, EmptyState
<1>2. \A d \in Dbs, k \in Keys : Live[d][k] = Missing
  BY <1>1 DEF Live, EmptyTables
<1>3. Live = [d \in Dbs |-> [k \in Keys |-> Missing]]
  BY <1>2 DEF Live
<1> QED BY <1>3 DEF Init, Abstract!Init

LEMMA StepAbstract == ASSUME TableOK, [Next]_vars PROVE [Abstract!Next]_(Abstract!vars)
<1>0. ks.table \in Tables /\ Shape(ks) /\ now \in Times
  BY DEF TableOK, Shape
<1>1. ASSUME NEW d \in Dbs, NEW k \in Keys, CallLookup(d, k)
      PROVE  Abstract!Get(d, k)
  BY <1>1, LookupStutters DEF CallLookup, Abstract!Get
<1>2. ASSUME NEW d \in Dbs, NEW k \in Keys, CallDelete(d, k)
      PROVE  Abstract!Remove(d, k)
  <2>1. ks'.table = [ks.table EXCEPT ![d][k] = Missing] /\ now' = now
    BY <1>0, <1>2, DeleteTable DEF CallDelete
  <2>2. Live' = [Live EXCEPT ![d][k] = Abstract!At(Missing, now)]
    BY <2>1, LiveOne
  <2>3. Abstract!At(Missing, now) = Missing
    BY DEF Abstract!At, Abstract!Due
  <2>4. Live[d][k] # Missing => ks.table[d][k] # Missing
    BY DEF Live
  <2> QED BY <1>2, <2>1, <2>2, <2>3, <2>4 DEF CallDelete, Abstract!Remove
<1>3. ASSUME NEW d \in Dbs, NEW k \in Keys, NEW v \in Values, NEW exp \in Deadlines,
             CallSet(d, k, v, exp)
      PROVE  Abstract!Put(d, k, [val |-> v, exp |-> exp])
  <2>1. exp \in Int /\ [val |-> v, exp |-> exp] \in Entry
    BY KeyspaceAssumption DEF Entry
  <2>2. ks'.table = [ks.table EXCEPT ![d][k] = [val |-> v, exp |-> exp]] /\ now' = now
    BY <1>0, <1>3, <2>1, SetTable DEF CallSet
  <2> QED BY <1>3, <2>1, <2>2, LiveOne DEF CallSet, Abstract!Put
<1>4. ASSUME NEW d \in Dbs, NEW k \in Keys, NEW v \in Values, NEW exp \in Deadlines,
             WriteInPlace(d, k, [val |-> v, exp |-> exp])
      PROVE  Abstract!Update(d, k, [val |-> v, exp |-> exp])
  <2> DEFINE e == [val |-> v, exp |-> exp]
             found == Lookup(ks, d, k, now)
  <2>1. e \in Entry
    BY KeyspaceAssumption DEF Entry
  <2>2. ~Stale(ks.table[d][k], now)
    <3>1. found.table = [ks.table EXCEPT ![d][k] = Seen(ks, d, k, now)]
      BY <1>0, LookupTable
    <3>2. found.table[d][k] = Seen(ks, d, k, now)
      BY <1>0, <3>1 DEF Tables
    <3> QED BY <1>4, <3>2 DEF WriteInPlace, Seen
  <2>3. found = ks
    BY <2>2 DEF Lookup
  <2>4. Live[d][k] # Missing
    BY <1>4, <2>2, <2>3 DEF WriteInPlace, Live
  <2>5. ks'.table = [ks.table EXCEPT ![d][k] = e] /\ now' = now
    BY <1>0, <1>4, <2>1, <2>3, PokeTable DEF WriteInPlace
  <2>6. Live' = [Live EXCEPT ![d][k] = Abstract!At(e, now)]
    BY <2>1, <2>5, LiveOne
  <2> QED BY <1>4, <2>4, <2>5, <2>6 DEF WriteInPlace, Abstract!Update
<1>5. ASSUME NEW d \in Dbs, CallFlushDb(d)
      PROVE  Abstract!Clear({d})
  <2> DEFINE scan == [c \in Dbs |-> IF c = d THEN Keys ELSE {}]
  <2>1. ks'.table = DropAll(ks, scan).table /\ now' = now
    BY <1>5 DEF CallFlushDb, FlushDb
  <2>2. Live' = [c \in Dbs |-> [k \in Keys |->
                    IF k \in scan[c] THEN Missing ELSE Live[c][k]]]
    BY <2>1, LiveDrop
  <2>3. \A c \in Dbs : [k \in Keys |-> IF k \in scan[c] THEN Missing ELSE Live[c][k]] =
                       IF c \in {d} THEN [k \in Keys |-> Missing] ELSE Live[c]
    BY DEF Live
  <2>4. Live' = [c \in Dbs |-> IF c \in {d} THEN [k \in Keys |-> Missing] ELSE Live[c]]
    BY <2>2, <2>3
  <2> QED BY <1>5, <2>1, <2>4 DEF CallFlushDb, Abstract!Clear
<1>6. CallFlushAll => Abstract!Clear(Dbs)
  <2> SUFFICES ASSUME CallFlushAll PROVE Abstract!Clear(Dbs)
    OBVIOUS
  <2> DEFINE scan == [c \in Dbs |-> Keys]
  <2>1. ks'.table = DropAll(ks, scan).table /\ now' = now
    BY DEF CallFlushAll, FlushAll
  <2>2. Live' = [c \in Dbs |-> [k \in Keys |->
                    IF k \in scan[c] THEN Missing ELSE Live[c][k]]]
    BY <2>1, LiveDrop
  <2>3. Live' = [c \in Dbs |-> IF c \in Dbs THEN [k \in Keys |-> Missing] ELSE Live[c]]
    BY <2>2
  <2> QED BY <2>1, <2>3 DEF CallFlushAll, Abstract!Clear
<1>7. CallActiveExpireCycle => UNCHANGED Abstract!vars
  <2> SUFFICES ASSUME NEW scan \in [Dbs -> SUBSET Keys],
                      ks' = ActiveExpireCycle(ks, scan, now),
                      UNCHANGED <<now, answer, drifted>>
               PROVE  UNCHANGED Abstract!vars
    BY DEF CallActiveExpireCycle
  <2>1. ks'.table = DropAll(ks, StaleIn(ks, scan, now)).table
    BY <1>0, ExpireTable
  <2>2. Live' = [d \in Dbs |-> [k \in Keys |->
                    IF k \in StaleIn(ks, scan, now)[d] THEN Missing ELSE Live[d][k]]]
    BY <2>1, LiveDrop
  <2>3. \A d \in Dbs, k \in Keys :
           k \in StaleIn(ks, scan, now)[d] => Live[d][k] = Missing
    BY DEF StaleIn, Live
  <2>4. \A d \in Dbs, k \in Keys : Live'[d][k] = Live[d][k]
    BY <2>2, <2>3
  <2>5. Live' = Live
    BY <2>4 DEF Live
  <2> QED BY <2>5 DEF Abstract!vars
<1>8. Tick => \E t \in Times : Abstract!Tick(t)
  <2> SUFFICES ASSUME NEW t \in Times, t > now, now' = t, answer' = <<"none">>, ks' = ks
               PROVE  Abstract!Tick(t)
    BY DEF Tick
  <2>1. \A d \in Dbs, k \in Keys : Live'[d][k] = Abstract!At(Live[d][k], t)
    <3> TAKE d \in Dbs, k \in Keys
    <3>1. ks.table[d][k] \in Entry \cup {Missing} /\ now \in Int /\ t \in Int
      BY <1>0, KeyspaceAssumption DEF Tables
    <3> QED BY <3>1 DEF Live, Stale, Entry, Abstract!At, Abstract!Due
  <2>2. Live' = [d \in Dbs |-> [k \in Keys |-> Abstract!At(Live[d][k], t)]]
    BY <2>1 DEF Live
  <2> QED BY <2>2 DEF Abstract!Tick
<1>9. UNCHANGED vars => UNCHANGED Abstract!vars
  BY DEF vars, Abstract!vars, Live
<1> QED
  <2>1. CASE Call
    BY <1>1, <1>2, <1>3, <1>4, <1>5, <1>6, <1>7, <2>1 DEF Call, Abstract!Next
  <2>2. CASE Tick
    BY <1>8, <2>2 DEF Abstract!Next
  <2> QED BY <1>9, <2>1, <2>2 DEF Next

\* Whatever the lazy and the active expiry have collected, callers of the Database
\* see a store whose keys live exactly until their deadline (Lookup, Set, Delete,
\* in-place writes and the two flushes of db.cpp, with time passing between calls).
THEOREM ImplementsStore == Spec => Implements
<1>1. Spec => []TableOK
  BY TablesWellFormed
<1> QED BY <1>1, InitAbstract, StepAbstract, PTL DEF Spec, Implements, Abstract!Spec
=============================================================================
