-------------------------- MODULE MCContractPayout --------------------------
(* ContractPayout for TLC: two members, two items, and two releases that   *)
(* differ in prices (an item may have none) and in precision.              *)
EXTENDS ContractPayout, TLC

CONSTANTS i1, i2, u1, u2

MCItems == {i1, i2}
MCUsers == {u1, u2}

(* Each way to share three units of one item and two of the other among the *)
(* members; of two that swap the members one: figures know no names.       *)
MCDeliveries ==
  {d \in [MCItems -> Shares] :
     Total(d[i1]) = 3 /\ Total(d[i2]) = 2 /\ d[i1][u1] > d[i1][u2]}

MCReleases ==
  {[price |-> (i1 :> 2 @@ i2 :> 1), step |-> 1],
   [price |-> (i1 :> 3 @@ i2 :> 0), step |-> 2]}
=============================================================================
