---------------------------- MODULE MCContractTx ----------------------------
(* ContractTx for TLC: two transactions at a time on a contract of one item. *)
EXTENDS ContractTx, TLC

CONSTANTS i1, u1, u2, c1, c2

MCItems == {i1}
MCUsers == {u1, u2}
MCClients == {c1, c2}
Symmetric == Permutations(MCClients)
=============================================================================
