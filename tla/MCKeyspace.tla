------------------------------ MODULE MCKeyspace ------------------------------
(* The keyspace on small instances: a key of one byte, values of two sizes. *)
EXTENDS Keyspace

CONSTANTS small, big

MCKeySize(k) == 1
MCValueSize(v) == IF v = big THEN 30 ELSE 20
MCTimes == 0 .. 2
=============================================================================
