---------------------------- MODULE MCSupplyPost ----------------------------
(* SupplyPost for TLC: members are interchangeable, and so are items.       *)
EXTENDS SupplyPost, TLC

CONSTANTS i1, i2, u1, u2

MCItems == {i1, i2}
MCUsers == {u1, u2}
(* Two items without a fault, or one at a time with room for two faults.      *)
MCScopes ==
  {[items |-> 2, posts |-> 1, faults |-> 0], [items |-> 1, posts |-> 3, faults |-> 2]}

Symmetric == Permutations(MCItems) \cup Permutations(MCUsers)
=============================================================================
