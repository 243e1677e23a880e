---------------------------- MODULE ExpiringStore ----------------------------
(***************************************************************************)
(* What a keyspace with deadlines promises its callers: a key is there     *)
(* until the instant of its deadline and is gone from then on, however and *)
(* whenever the memory behind it is reclaimed.                             *)
(***************************************************************************)
EXTENDS Integers

CONSTANTS
    Dbs, Keys, Values,
    Deadlines,   \* the deadlines callers give, 0 for none
    Times,       \* the readings of the clock
    Missing

VARIABLES
    store,   \* store[d][k]: the entry of a key that is alive, or Missing
    now,     \* the clock
    answer   \* the last call and what it returned

vars == <<store, now, answer>>

Due(e, t) == e # Missing /\ e.exp # 0 /\ t >= e.exp

\* An entry as seen at time t.
At(e, t) == IF Due(e, t) THEN Missing ELSE e

Init ==
    /\ store = [d \in Dbs |-> [k \in Keys |-> Missing]]
    /\ now \in Times
    /\ answer = <<"none">>

Get(d, k) ==
    /\ answer' = <<"found", d, k, store[d][k]>>
    /\ UNCHANGED <<store, now>>

Put(d, k, e) ==
    /\ store' = [store EXCEPT ![d][k] = At(e, now)]
    /\ answer' = <<"put", d, k, e>>
    /\ UNCHANGED now

\* Change a live key in place.
Update(d, k, e) ==
    /\ store[d][k] # Missing
    /\ store' = [store EXCEPT ![d][k] = At(e, now)]
    /\ answer' = <<"updated", d, k, e>>
    /\ UNCHANGED now

\* The answer is exact for a live key.  For a key whose deadline has passed
\* Delete may still report that it removed something.
Remove(d, k) ==
    /\ store' = [store EXCEPT ![d][k] = Missing]
    /\ \E removed \in BOOLEAN :
          /\ store[d][k] # Missing => removed
          /\ answer' = <<"removed", d, k, removed>>
    /\ UNCHANGED now

Clear(ds) ==
    /\ store' = [d \in Dbs |-> IF d \in ds THEN [k \in Keys |-> Missing] ELSE store[d]]
    /\ answer' = <<"cleared", ds>>
    /\ UNCHANGED now

\* Time passes, and takes every key whose deadline it reaches.
Tick(t) ==
    /\ t > now
    /\ now' = t
    /\ store' = [d \in Dbs |-> [k \in Keys |-> At(store[d][k], t)]]
    /\ answer' = <<"none">>

Next ==
    \/ \E d \in Dbs, k \in Keys :
          \/ Get(d, k)
          \/ Remove(d, k)
          \/ \E e \in [val : Values, exp : Deadlines] : Put(d, k, e) \/ Update(d, k, e)
    \/ \E ds \in SUBSET Dbs : Clear(ds)
    \/ \E t \in Times : Tick(t)

Spec == Init /\ [][Next]_vars
=============================================================================
