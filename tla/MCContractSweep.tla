-------------------------- MODULE MCContractSweep --------------------------
(* ContractSweep for TLC: two sweepers, and one transaction besides.        *)
EXTENDS ContractSweep

CONSTANTS s1, s2, c1, u1

MCSweepers == {s1, s2}
MCClients == {c1}
MCUsers == {u1}
=============================================================================
