------------------------------ MODULE MCOutbox ------------------------------
(* OutboxDelivery for TLC: a collapsing group, and one whose kind has no      *)
(* handler.                                                                 *)
EXTENDS OutboxDelivery

CONSTANTS g1, stale

MCGroups == {g1, stale}
MCHandled == {g1}
=============================================================================
