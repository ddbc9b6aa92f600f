--------------------------- MODULE SupplyRequest ---------------------------
(***************************************************************************)
(* One supply request's ledger: the items a member asks for, and what      *)
(* others reserve and deliver of them (the supply_requests,                *)
(* supply_request_items and supply_reservations rows, written by           *)
(* features/supply/postgres.go).  Each operation is one transaction that   *)
(* locks the request's row before it reads anything, as those that         *)
(* ContractTx takes apart, and so one step here.                           *)
(*                                                                         *)
(* An item is its gamedata id.  It is listed when its required quantity is *)
(* positive, for no quantity of zero passes parseQty; and a reservation    *)
(* row is there when it reserves something, for Release deletes a row it   *)
(* leaves empty.                                                           *)
(***************************************************************************)
EXTENDS Tally

CONSTANTS
  Items,     \* gamedata ids; a removed item may be added again
  MaxItems   \* the cap on a request's items

ASSUME RequestAssumption == MaxItems \in Nat

VARIABLES
  status,     \* supply_requests.status
  required,   \* supply_request_items.required_qty
  reserved,   \* supply_reservations.reserved_qty, by item and member
  delivered   \* supply_reservations.delivered_qty

request == <<status, required, reserved, delivered>>

RequestTypeOK ==
  /\ status \in {"open", "completed", "cancelled"}
  /\ required \in [Items -> 0 .. MaxQty]
  /\ reserved \in [Items -> Shares]
  /\ delivered \in [Items -> Shares]

Listed == {i \in Items : required[i] > 0}
Outstanding(i, u) == reserved[i][u] - delivered[i][u]

\* Create: a request starts without items.
RequestInit ==
  /\ status = "open"
  /\ required = [i \in Items |-> 0]
  /\ reserved = [i \in Items |-> Nothing]
  /\ delivered = [i \in Items |-> Nothing]

-----------------------------------------------------------------------------
(* The owner's console.                                                    *)

\* Mutant: an item that is listed already has its quantity raised.
AddItemOnTop(i, q) ==
  /\ status = "open"
  /\ Cardinality(Listed \cup {i}) <= MaxItems
  /\ required' = [required EXCEPT ![i] = @ + q]
  /\ UNCHANGED <<status, reserved, delivered>>

AddItem(i, q) ==
  /\ status = "open"
  /\ i \notin Listed /\ Cardinality(Listed) < MaxItems
  /\ required' = [required EXCEPT ![i] = q]
  /\ UNCHANGED <<status, reserved, delivered>>

\* Like RemoveItem, this never completes the request, even when the new
\* quantity is what has been delivered.
UpdateItemQty(i, q) ==
  /\ status = "open"
  /\ i \in Listed /\ q >= Total(reserved[i])
  /\ required' = [required EXCEPT ![i] = q]
  /\ UNCHANGED <<status, reserved, delivered>>

\* Deletes the item's reservations with it, delivered ones included.
RemoveItem(i) ==
  /\ status = "open" /\ i \in Listed
  /\ required' = [required EXCEPT ![i] = 0]
  /\ reserved' = [reserved EXCEPT ![i] = Nothing]
  /\ delivered' = [delivered EXCEPT ![i] = Nothing]
  /\ UNCHANGED status

\* Title, description, location, system, reference: none of them is modelled.
\* So is an update or removal of an item that another one has just removed:
\* its statements match no row, and the transaction commits.
UpdateDetails ==
  /\ status = "open"
  /\ UNCHANGED request

Cancel ==
  /\ status = "open"
  /\ status' = "cancelled"
  /\ UNCHANGED <<required, reserved, delivered>>

-----------------------------------------------------------------------------
(* The public panel, for a member and an item.                             *)

\* Mutant: what other members reserved is not counted.
ReserveOwnCap(i, u, q) ==
  /\ status = "open" /\ i \in Listed
  /\ q <= required[i] - reserved[i][u]
  /\ reserved' = [reserved EXCEPT ![i][u] = @ + q]
  /\ UNCHANGED <<status, required, delivered>>

Reserve(i, u, q) ==
  /\ status = "open" /\ i \in Listed
  /\ q <= required[i] - Total(reserved[i])
  /\ reserved' = [reserved EXCEPT ![i][u] = @ + q]
  /\ UNCHANGED <<status, required, delivered>>

\* Mutant: an item delivered in the very quantity it requires is still short.
FinishWhenExceeded(d) ==
  IF Listed # {} /\ \A i \in Listed : required[i] < Total(d[i])
  THEN status' = "completed"
  ELSE UNCHANGED status

\* finishIfComplete: the request is completed once no item is short.
Finish(d) ==
  IF Listed # {} /\ \A i \in Listed : required[i] <= Total(d[i])
  THEN status' = "completed"
  ELSE UNCHANGED status

Fulfilled == Listed # {} /\ \A i \in Listed : required[i] <= Total(delivered[i])

Deliver(i, u, q) ==
  /\ status = "open" /\ i \in Listed
  /\ q <= Outstanding(i, u)
  /\ delivered' = [delivered EXCEPT ![i][u] = @ + q]
  /\ Finish(delivered')
  /\ UNCHANGED <<required, reserved>>

Release(i, u, q) ==
  /\ status = "open" /\ i \in Listed
  /\ q <= Outstanding(i, u)
  /\ reserved' = [reserved EXCEPT ![i][u] = @ - q]
  /\ UNCHANGED <<status, required, delivered>>

Operate(op, i, u, q) ==
  \/ op = "reserve" /\ Reserve(i, u, q)
  \/ op = "deliver" /\ Deliver(i, u, q)
  \/ op = "release" /\ Release(i, u, q)

\* What the panel offers a member for an operation (eligibleItems).
Eligible(op, u) ==
  IF op = "reserve" THEN {i \in Listed : Total(reserved[i]) < required[i]}
  ELSE {i \in Listed : Outstanding(i, u) > 0}

-----------------------------------------------------------------------------

PanelOps == {"reserve", "deliver", "release"}

RequestNext ==
  \/ \E i \in Items : RemoveItem(i)
  \/ \E i \in Items, q \in Qty : AddItem(i, q) \/ UpdateItemQty(i, q)
  \/ UpdateDetails \/ Cancel
  \/ \E op \in PanelOps, i \in Items, u \in Users, q \in Qty : Operate(op, i, u, q)

RequestSpec == RequestInit /\ [][RequestNext]_request

-----------------------------------------------------------------------------
(* Properties.                                                             *)

\* No item is pledged, and none delivered, past what its line allows; and a
\* completed request is one in which every item was delivered in full, whatever
\* mix of panel operations and the owner's edits of the items led there.
LedgerSound ==
  /\ \A i \in Items : Total(reserved[i]) <= required[i]
  /\ \A i \in Items, u \in Users : delivered[i][u] <= reserved[i][u]
  /\ status = "completed" =>
       Listed # {} /\ \A i \in Listed : Total(delivered[i]) = required[i]
=============================================================================
