----------------------------- MODULE ActiveExpire -----------------------------
(***************************************************************************)
(* Which stale keys the active expire cycle ever collects.  Keyspace lets  *)
(* the hash table iterate in any order; here the order is part of the      *)
(* state, because the cycle always walks from the front of the table: its  *)
(* offset is random but smaller than kSampleWindow.                        *)
(*                                                                         *)
(* One database.  Nobody looks the keys up, so that the lazy expiry of     *)
(* Lookup does not help.                                                   *)
(***************************************************************************)
EXTENDS Integers, Sequences, FiniteSets

CONSTANTS
    Keys,
    kSampleWindow,
    MaxInserts       \* bound on the keys that clients add while the cycle runs

ASSUME ActiveExpireAssumption ==
    /\ IsFiniteSet(Keys)
    /\ kSampleWindow \in Nat \ {0}
    /\ MaxInserts \in Nat

VARIABLES
    order,      \* the keys of the table in iteration order
    volatile,   \* keys that have a deadline (expires_at_ms # 0)
    stale,      \* keys whose deadline has passed
    inserts     \* keys added so far

vars == <<order, volatile, stale, inserts>>

Held == {order[i] : i \in DOMAIN order}
Least(m, n) == IF m < n THEN m ELSE n

Init ==
    /\ order \in {s \in [1 .. Cardinality(Keys) -> Keys] : \A k \in Keys : \E i \in DOMAIN s : s[i] = k}
    /\ volatile \in SUBSET Keys
    /\ stale = {}
    /\ inserts = 0

\* The clock reaches a deadline.
Expire(k) ==
    /\ k \in volatile \ stale
    /\ stale' = stale \cup {k}
    /\ UNCHANGED <<order, volatile, inserts>>

\* A client adds a key, which the table puts anywhere in its order.
Insert(k, i, v) ==
    /\ inserts < MaxInserts
    /\ k \notin Held
    /\ order' = SubSeq(order, 1, i) \o <<k>> \o SubSeq(order, i + 1, Len(order))
    /\ volatile' = IF v THEN volatile \cup {k} ELSE volatile
    /\ inserts' = inserts + 1
    /\ UNCHANGED stale

\* The loop of ActiveExpireCycle over the entries after `from' up to `to'.
Sweep(from, to) ==
    LET Fresh(k) == k \notin stale
    IN  /\ order' = SubSeq(order, 1, from) \o SelectSeq(SubSeq(order, from + 1, to), Fresh)
                       \o SubSeq(order, to + 1, Len(order))
        /\ stale' = stale \cap Held'
        /\ volatile' = volatile \cap Held'
        /\ UNCHANGED inserts

\* ActiveExpireCycle when the random offset is `offset'.  The mutant always starts at
\* the front.
CycleFront(offset) == offset < Len(order) /\ Sweep(0, Least(kSampleWindow, Len(order)))
Cycle(offset) ==
    /\ offset < Least(Len(order), kSampleWindow)
    /\ Sweep(offset, Least(offset + kSampleWindow, Len(order)))

Next ==
    \/ \E k \in Keys : Expire(k)
    \/ \E k \in Keys, i \in 0 .. Len(order), v \in BOOLEAN : Insert(k, i, v)
    \/ \E offset \in 0 .. kSampleWindow - 1 : Cycle(offset)

\* Time does not stop, and the event loop runs PeriodicTasks for ever; a random
\* offset that stays possible is drawn again and again.
Fairness ==
    /\ \A k \in Keys : WF_vars(Expire(k))
    /\ \A offset \in 0 .. kSampleWindow - 1 : SF_vars(Cycle(offset))

Spec == Init /\ [][Next]_vars /\ Fairness

-----------------------------------------------------------------------------
\* Every stale key is collected in the end, whether or not a client asks for it and
\* however much larger than the sample window the table is, provided that at most
\* 2 * kSampleWindow - 2 keys stay for ever: the keys that the cycle collects make room
\* for the ones behind them, and the persistent keys alone do not fill the positions
\* that it reaches.
Persistent == Held \ volatile
StaleCollected ==
    <>[](Cardinality(Persistent) <= 2 * kSampleWindow - 2)
        => \A k \in Keys : k \in stale ~> k \notin stale
=============================================================================
