--------------------------- MODULE ContractLedger ---------------------------
(***************************************************************************)
(* One contract's ledger: the items it requires, the members' reservations *)
(* and deliveries on them, and the status those drive (the contracts,      *)
(* contract_items and contract_reservations rows, written by               *)
(* features/contracts/postgres.go).  Each operation is one transaction,    *)
(* here one atomic step; ContractTx takes it apart.                        *)
(*                                                                         *)
(* Names, texts, deadlines and the post are left out.  What a closing      *)
(* transaction enqueues with the status flip is counted.                   *)
(***************************************************************************)
EXTENDS Tally

CONSTANTS
  Items,     \* item ids: a removed item's id is not used again
  MaxItems   \* the server's cap on a contract's items

ASSUME LedgerAssumption == MaxItems \in Nat

VARIABLES
  status,     \* contracts.status
  items,      \* the contract_items rows
  spent,      \* the item ids used so far
  required,   \* contract_items.required_qty
  rows,       \* the contract_reservations rows, by (item, user)
  reserved,   \* their reserved_qty
  delivered,  \* their delivered_qty
  rewarded,   \* the reward and the participant factor are both positive
  closes,     \* close tasks enqueued
  payouts     \* payout tasks enqueued by a completion

vars == <<status, items, spent, required, rows, reserved, delivered, rewarded,
          closes, payouts>>

quantities == <<items, spent, required, rows, reserved, delivered>>
closing == <<status, closes, payouts>>

TypeOK ==
  /\ status \in {"open", "completed", "expired", "cancelled"}
  /\ spent \in SUBSET Items
  /\ items \in SUBSET spent
  /\ required \in [Items -> 0 .. MaxQty]
  /\ rows \in SUBSET (items \X Users)
  /\ reserved \in [Items -> Shares]
  /\ delivered \in [Items -> Shares]
  /\ rewarded \in BOOLEAN
  /\ closes \in Nat
  /\ payouts \in Nat

\* A contract starts with the items of its template, if any.
Init ==
  /\ status = "open"
  /\ items \in SUBSET Items
  /\ spent = items
  /\ required \in [Items -> 0 .. MaxQty]
  /\ \A i \in Items : i \in items <=> required[i] # 0
  /\ rows = {}
  /\ reserved = [i \in Items |-> Nothing]
  /\ delivered = [i \in Items |-> Nothing]
  /\ rewarded \in BOOLEAN
  /\ closes = 0
  /\ payouts = 0

-----------------------------------------------------------------------------
(* The officers' console.                                                  *)

AddItem(i, q) ==
  /\ status = "open"
  /\ i \notin spent /\ Cardinality(items) < MaxItems
  /\ items' = items \cup {i} /\ spent' = spent \cup {i}
  /\ required' = [required EXCEPT ![i] = q]
  /\ UNCHANGED <<rows, reserved, delivered, rewarded, closing>>

\* Mutant: the reservations are left behind.
RemoveItemOnly(i) ==
  /\ status = "open" /\ i \in items
  /\ items' = items \ {i}
  /\ required' = [required EXCEPT ![i] = 0]
  /\ UNCHANGED <<spent, rows, reserved, delivered, rewarded, closing>>

\* Deletes the item's reservations with it, delivered ones included.
RemoveItem(i) ==
  /\ status = "open" /\ i \in items
  /\ items' = items \ {i}
  /\ required' = [required EXCEPT ![i] = 0]
  /\ rows' = rows \ ({i} \X Users)
  /\ reserved' = [reserved EXCEPT ![i] = Nothing]
  /\ delivered' = [delivered EXCEPT ![i] = Nothing]
  /\ UNCHANGED <<spent, rewarded, closing>>

\* Mutant: the new quantity is not held against what is reserved.
UpdateItemUnchecked(i, q) ==
  /\ status = "open" /\ i \in items
  /\ required' = [required EXCEPT ![i] = q]
  /\ UNCHANGED <<items, spent, rows, reserved, delivered, rewarded, closing>>

UpdateItem(i, q) ==
  /\ status = "open" /\ i \in items
  /\ q >= Total(reserved[i])
  /\ required' = [required EXCEPT ![i] = q]
  /\ UNCHANGED <<items, spent, rows, reserved, delivered, rewarded, closing>>

UpdateRewards(b) ==
  /\ status = "open"
  /\ rewarded' = b
  /\ UNCHANGED <<quantities, closing>>

\* Mutant: an emptied row is kept.
ReserveKeepingRow(i, u, n) ==
  /\ reserved' = [reserved EXCEPT ![i][u] = n]
  /\ UNCHANGED <<items, spent, required, rows, delivered, rewarded, closing>>

\* The row (i, u) reserves n; a row left with nothing at all is deleted.
Reserve(i, u, n) ==
  /\ reserved' = [reserved EXCEPT ![i][u] = n]
  /\ rows' = IF n = 0 /\ delivered[i][u] = 0 THEN rows \ {<<i, u>>} ELSE rows
  /\ UNCHANGED <<items, spent, required, delivered, rewarded, closing>>

\* Mutant: no floor at what was delivered, so the delivery shrinks with the pledge.
SetReservationBoth(i, u, n) ==
  /\ status = "open" /\ <<i, u>> \in rows
  /\ n <= required[i] - Total([reserved[i] EXCEPT ![u] = 0])
  /\ reserved' = [reserved EXCEPT ![i][u] = n]
  /\ delivered' = [delivered EXCEPT ![i][u] = IF @ > n THEN n ELSE @]
  /\ rows' = IF n = 0 THEN rows \ {<<i, u>>} ELSE rows
  /\ UNCHANGED <<items, spent, required, rewarded, closing>>

SetReservation(i, u, n) ==
  /\ status = "open" /\ <<i, u>> \in rows
  /\ n >= delivered[i][u]
  /\ n <= required[i] - Total([reserved[i] EXCEPT ![u] = 0])
  /\ Reserve(i, u, n)

\* Deletes the row outright, delivered quantity included.
RemoveReservation(i, u) ==
  /\ status = "open" /\ <<i, u>> \in rows
  /\ rows' = rows \ {<<i, u>>}
  /\ reserved' = [reserved EXCEPT ![i][u] = 0]
  /\ delivered' = [delivered EXCEPT ![i][u] = 0]
  /\ UNCHANGED <<items, spent, required, rewarded, closing>>

Close(s) ==
  /\ status = "open"
  /\ status' = s
  /\ closes' = closes + 1
  /\ UNCHANGED <<quantities, rewarded, payouts>>

\* Mutant: the button of an old console view closes the contract once more.
CancelAgain ==
  /\ status # "completed"
  /\ status' = "cancelled"
  /\ closes' = closes + 1
  /\ UNCHANGED <<quantities, rewarded, payouts>>

Cancel == Close("cancelled")

\* The sweeper, once the deadline has passed.
MarkExpired == Close("expired")

-----------------------------------------------------------------------------
(* The members' panel.                                                     *)

Participate(i, u, q) ==
  /\ status = "open" /\ i \in items
  /\ q <= required[i] - Total(reserved[i])
  /\ rows' = rows \cup {<<i, u>>}
  /\ reserved' = [reserved EXCEPT ![i][u] = @ + q]
  /\ UNCHANGED <<items, spent, required, delivered, rewarded, closing>>

\* Mutant: the contract's status is not looked at.
ReleaseAnyTime(i, u, q) ==
  /\ <<i, u>> \in rows
  /\ q <= reserved[i][u] - delivered[i][u]
  /\ Reserve(i, u, reserved[i][u] - q)

Release(i, u, q) ==
  /\ status = "open" /\ <<i, u>> \in rows
  /\ q <= reserved[i][u] - delivered[i][u]
  /\ Reserve(i, u, reserved[i][u] - q)

\* Mutant: one item delivered in full completes the contract.
CompleteAny(d) == \E i \in items : required[i] <= Total(d[i])

\* No item is short of its required quantity under the deliveries d.
Complete(d) == items # {} /\ \A i \in items : required[i] <= Total(d[i])

\* finishIfComplete
Finish(d) ==
  IF Complete(d)
  THEN /\ status' = "completed"
       /\ closes' = closes + 1
       /\ payouts' = payouts + (IF rewarded THEN 1 ELSE 0)
  ELSE UNCHANGED closing

\* By the member, or by an officer for a member (DeliverByItem).
Deliver(i, u, q) ==
  /\ status = "open" /\ <<i, u>> \in rows
  /\ q <= reserved[i][u] - delivered[i][u]
  /\ delivered' = [delivered EXCEPT ![i][u] = @ + q]
  /\ Finish(delivered')
  /\ UNCHANGED <<items, spent, required, rows, reserved, rewarded>>

-----------------------------------------------------------------------------

ItemStep(i) ==
  \/ RemoveItem(i)
  \/ \E q \in Qty : AddItem(i, q) \/ UpdateItem(i, q)

RowStep(i, u) ==
  \/ \E q \in Qty : Participate(i, u, q) \/ Deliver(i, u, q) \/ Release(i, u, q)
  \/ \E n \in 0 .. MaxQty : SetReservation(i, u, n)
  \/ RemoveReservation(i, u)

Next ==
  \/ \E i \in Items : ItemStep(i) \/ \E u \in Users : RowStep(i, u)
  \/ \E b \in BOOLEAN : UpdateRewards(b)
  \/ Cancel \/ MarkExpired

Spec == Init /\ [][Next]_vars

-----------------------------------------------------------------------------
(* Properties.                                                             *)

\* Nobody can be asked for more of an item than the contract needs, whatever
\* mix of pledges, officer corrections and edits of the item led here.
WithinCapacity == \A i \in items : Total(reserved[i]) <= required[i]

\* A row never records more delivered than reserved, and a row that records
\* nothing does not exist: the closing-soon notice takes a row for a
\* participant (NotifyDue, MarkNotified).
RowsMeanPledges ==
  \A i \in Items, u \in Users :
    /\ delivered[i][u] <= reserved[i][u]
    /\ <<i, u>> \in rows <=> reserved[i][u] > 0

\* "On completion every item is fully delivered (sum of delivered = required)",
\* on which the payout's shares rest (payout.go:76-77), and no member is left
\* with anything outstanding.
CompletedInFull ==
  status = "completed" =>
    /\ items # {}
    /\ \A i \in items : /\ Total(delivered[i]) = required[i]
                        /\ delivered[i] = reserved[i]

\* A contract closes once, by one of three racing causes, and owes a payout if
\* and only if it closed by completion with a reward to share.
ClosedOnce ==
  /\ closes = IF status = "open" THEN 0 ELSE 1
  /\ payouts = IF status = "completed" /\ rewarded THEN 1 ELSE 0

\* Nothing of a closed contract changes any more: the payout is computed, and
\* its report posted, from a ledger that cannot move.
ClosedIsFinal == [][status = "open"]_vars

\* What a member delivered is never reduced: it stays, or its whole row goes by
\* an officer's removal.
DeliveriesKept ==
  [][\A i \in Items, u \in Users :
       delivered'[i][u] < delivered[i][u] => <<i, u>> \notin rows']_vars
=============================================================================
