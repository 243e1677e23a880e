---------------------------- MODULE MCPersistence ----------------------------
(* Instances of Persistence for TLC.  Odd versions have one chunk more than  *)
(* even ones, so a leftover longer image can show under a shorter one.       *)
EXTENDS Persistence

MCSize == [v \in Versions |-> IF v % 2 = 1 THEN MaxLen ELSE MaxLen - 1]

=============================================================================
