-------------------------- MODULE MCContractLedger --------------------------
(* ContractLedger for TLC: members are interchangeable, and so are items.   *)
EXTENDS ContractLedger, TLC

CONSTANTS i1, i2, i3, u1, u2

MCItems == {i1, i2, i3}
MCUsers == {u1, u2}
Symmetric == Permutations(MCItems) \cup Permutations(MCUsers)
=============================================================================
