--------------------------- MODULE MCContractPost ---------------------------
(* ContractPost for TLC.                                                    *)
EXTENDS ContractPost
=============================================================================
