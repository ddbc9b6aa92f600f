------------------------ MODULE ContractLedgerProofs ------------------------
(***************************************************************************)
(* Proofs about ContractLedger and about the transactions of ContractTx    *)
(* that implement it, for any items, members, quantities, item cap and     *)
(* number of concurrent transactions.                                      *)
(*                                                                         *)
(* The ledger's invariant is the conjunction of what the runs check; the   *)
(* four parts need one another: capacity bounds what a row reserves (so    *)
(* its type), rows bound deliveries by reservations, and both together     *)
(* turn "no item is short" into "delivered in full, nothing outstanding".  *)
(*                                                                         *)
(* The transactions: the lock on the contract row makes what one of them   *)
(* read true when it writes, and so, however interleaved, they implement   *)
(* the atomic ledger.  Every theorem about the ledger then holds of them.  *)
(***************************************************************************)
EXTENDS ContractTx, TallyProofs

-----------------------------------------------------------------------------
(* The ledger.                                                             *)


Inv ==
  /\ TypeOK
  /\ WithinCapacity
  /\ RowsMeanPledges
  /\ CompletedInFull
  /\ ClosedOnce

LEMMA InitInv == Init => Inv
<1> SUFFICES ASSUME Init PROVE Inv
  OBVIOUS
<1> USE DEF Init
<1>1. TypeOK
  BY TotalOfNothing DEF TypeOK
<1>2. WithinCapacity
  BY TotalOfNothing, TallyAssumption DEF WithinCapacity
<1>3. RowsMeanPledges /\ CompletedInFull /\ ClosedOnce
  BY DEF RowsMeanPledges, CompletedInFull, ClosedOnce, Nothing
<1> QED BY <1>1, <1>2, <1>3 DEF Inv

\* The item edits and reward edits, and the two closings that are not completions.
LEMMA OfficerInv ==
  ASSUME Inv,
         \/ \E i \in Items, q \in Qty : AddItem(i, q) \/ UpdateItem(i, q)
         \/ \E i \in Items : RemoveItem(i)
         \/ \E b \in BOOLEAN : UpdateRewards(b)
         \/ Cancel \/ MarkExpired
  PROVE  Inv'
<1> USE DEF Inv, quantities, closing
<1>1. ASSUME NEW i \in Items, NEW q \in Qty, AddItem(i, q) PROVE Inv'
  <2> USE <1>1 DEF AddItem
  <2>0. \A u \in Users : reserved[i][u] = 0
    <3>1. \A u \in Users : <<i, u>> \notin rows
      BY DEF TypeOK
    <3>2. \A u \in Users : reserved[i][u] \in 0 .. MaxQty
      BY DEF TypeOK, Shares
    <3>3. \A u \in Users : ~(reserved[i][u] > 0)
      BY <3>1 DEF RowsMeanPledges
    <3>4. \A n \in 0 .. MaxQty : ~(n > 0) => n = 0
      BY TallyAssumption
    <3> QED BY <3>2, <3>3, <3>4
  <2>1. reserved[i] = Nothing
    BY <2>0 DEF TypeOK, Shares, Nothing
  <2>2. TypeOK'
    BY TallyAssumption DEF TypeOK, Qty
  <2>3. WithinCapacity'
    BY <2>1, TotalOfNothing, TallyAssumption DEF WithinCapacity, TypeOK, Qty
  <2>4. RowsMeanPledges' /\ CompletedInFull' /\ ClosedOnce'
    BY DEF RowsMeanPledges, CompletedInFull, ClosedOnce
  <2> QED BY <2>2, <2>3, <2>4
<1>2. ASSUME NEW i \in Items, NEW q \in Qty, UpdateItem(i, q) PROVE Inv'
  <2> USE <1>2 DEF UpdateItem
  <2>1. TypeOK'
    BY TallyAssumption DEF TypeOK, Qty
  <2>2. WithinCapacity'
    BY DEF WithinCapacity, TypeOK
  <2>3. RowsMeanPledges' /\ CompletedInFull' /\ ClosedOnce'
    BY DEF RowsMeanPledges, CompletedInFull, ClosedOnce
  <2> QED BY <2>1, <2>2, <2>3
<1>3. ASSUME NEW i \in Items, RemoveItem(i) PROVE Inv'
  <2> USE <1>3 DEF RemoveItem
  <2>1. TypeOK'
    BY TotalOfNothing, TallyAssumption DEF TypeOK
  <2>2. WithinCapacity'
    BY DEF WithinCapacity, TypeOK
  <2>3. RowsMeanPledges'
    <3>1. \A u \in Users : /\ reserved'[i][u] = 0 /\ delivered'[i][u] = 0
                           /\ <<i, u>> \notin rows'
      BY TotalOfNothing DEF TypeOK, Nothing
    <3>2. \A j \in Items, u \in Users : j # i =>
            /\ reserved'[j][u] = reserved[j][u] /\ delivered'[j][u] = delivered[j][u]
            /\ <<j, u>> \in rows' <=> <<j, u>> \in rows
      BY DEF TypeOK
    <3>3. ASSUME NEW j \in Items, NEW u \in Users
          PROVE  /\ delivered'[j][u] <= reserved'[j][u]
                 /\ <<j, u>> \in rows' <=> reserved'[j][u] > 0
      <4>1. CASE j = i
        BY <4>1, <3>1
      <4>2. CASE j # i
        BY <4>2, <3>2 DEF RowsMeanPledges
      <4> QED BY <4>1, <4>2
    <3> QED BY <3>3 DEF RowsMeanPledges
  <2>4. CompletedInFull' /\ ClosedOnce'
    BY DEF CompletedInFull, ClosedOnce
  <2> QED BY <2>1, <2>2, <2>3, <2>4
<1>4. ASSUME NEW b \in BOOLEAN, UpdateRewards(b) PROVE Inv'
  BY <1>4 DEF UpdateRewards, TypeOK, WithinCapacity, RowsMeanPledges, CompletedInFull,
     ClosedOnce
<1>5. ASSUME NEW s \in {"cancelled", "expired"}, Close(s) PROVE Inv'
  BY <1>5 DEF Close, TypeOK, WithinCapacity, RowsMeanPledges, CompletedInFull, ClosedOnce
<1> QED BY <1>1, <1>2, <1>3, <1>4, <1>5 DEF Cancel, MarkExpired

\* Every way of changing one row while the contract stays open: the row gets
\* quantities r and d, and the item keeps its capacity.
RowSet(i, u, r, d) ==
  /\ status = "open" /\ i \in items
  /\ r \in 0 .. MaxQty /\ d \in 0 .. r
  /\ Total([reserved[i] EXCEPT ![u] = r]) <= required[i]
  /\ reserved' = [reserved EXCEPT ![i][u] = r]
  /\ delivered' = [delivered EXCEPT ![i][u] = d]
  /\ rows' = IF r > 0 THEN rows \cup {<<i, u>>} ELSE rows \ {<<i, u>>}
  /\ UNCHANGED <<items, spent, required, rewarded, closing>>

LEMMA RowSetInv ==
  ASSUME Inv, NEW i \in Items, NEW u \in Users, NEW r, NEW d, RowSet(i, u, r, d)
  PROVE  Inv'
<1> USE DEF Inv, RowSet, closing
<1>0. d \in 0 .. MaxQty
  BY TallyAssumption
<1>1. /\ reserved'[i] = [reserved[i] EXCEPT ![u] = r]
      /\ \A j \in Items : j # i => reserved'[j] = reserved[j] /\ delivered'[j] = delivered[j]
      /\ delivered'[i] = [delivered[i] EXCEPT ![u] = d]
      /\ reserved'[i] \in Shares /\ delivered'[i] \in Shares
  BY <1>0 DEF TypeOK, Shares
<1>2. TypeOK'
  BY <1>1 DEF TypeOK
<1>3. WithinCapacity'
  BY <1>1 DEF WithinCapacity, TypeOK
<1>4. RowsMeanPledges'
  <2> SUFFICES ASSUME NEW j \in Items, NEW v \in Users
               PROVE  /\ delivered'[j][v] <= reserved'[j][v]
                      /\ <<j, v>> \in rows' <=> reserved'[j][v] > 0
    BY DEF RowsMeanPledges
  <2>1. CASE j = i /\ v = u
    BY <2>1, <1>1 DEF TypeOK, Shares
  <2>2. CASE ~(j = i /\ v = u)
    <3>1. reserved'[j][v] = reserved[j][v] /\ delivered'[j][v] = delivered[j][v]
      BY <2>2, <1>1 DEF TypeOK, Shares
    <3>2. <<j, v>> \in rows' <=> <<j, v>> \in rows
      BY <2>2
    <3> QED BY <3>1, <3>2 DEF RowsMeanPledges
  <2> QED BY <2>1, <2>2
<1>5. CompletedInFull' /\ ClosedOnce'
  BY DEF CompletedInFull, ClosedOnce
<1> QED BY <1>2, <1>3, <1>4, <1>5

LEMMA MemberInv ==
  ASSUME Inv, NEW i \in Items, NEW u \in Users,
         \/ \E q \in Qty : Participate(i, u, q) \/ Release(i, u, q)
         \/ \E n \in 0 .. MaxQty : SetReservation(i, u, n)
         \/ RemoveReservation(i, u)
  PROVE  Inv'
<1> DEFINE res == reserved[i][u]
           del == delivered[i][u]
<1>1. /\ reserved[i] \in Shares /\ delivered[i] \in Shares
      /\ res \in 0 .. MaxQty /\ del \in 0 .. MaxQty /\ del <= res
      /\ required[i] \in 0 .. MaxQty
      /\ reserved \in [Items -> Shares] /\ delivered \in [Items -> Shares]
      /\ <<i, u>> \in rows => i \in items
      /\ <<i, u>> \in rows <=> res > 0
      /\ i \in items => Total(reserved[i]) <= required[i]
  BY DEF Inv, TypeOK, RowsMeanPledges, WithinCapacity, Shares
<1>2. /\ \A n \in 0 .. MaxQty :
           Total([reserved[i] EXCEPT ![u] = n]) = Total(reserved[i]) - res + n
      /\ \A n \in 0 .. MaxQty :
           Total([reserved[i] EXCEPT ![u] = n]) = Total([reserved[i] EXCEPT ![u] = 0]) + n
      /\ Total(reserved[i]) \in Nat /\ res <= Total(reserved[i])
      /\ Total([reserved[i] EXCEPT ![u] = 0]) \in Nat
  BY <1>1, TotalUpdate, UnitsFinite, ShareWithinTotal
<1>n. /\ MaxQty \in Nat /\ res \in Nat /\ del \in Nat /\ required[i] \in Nat
      /\ res <= MaxQty /\ required[i] <= MaxQty
  BY <1>1, TallyAssumption
<1>3. delivered = [delivered EXCEPT ![i][u] = del]
  BY <1>1 DEF Shares
<1>4. ASSUME NEW q \in Qty, Participate(i, u, q) PROVE Inv'
  <2>1. i \in items /\ q \in Nat /\ q >= 1 /\ q <= required[i] - Total(reserved[i])
    BY <1>4, TallyAssumption DEF Participate, Qty
  <2>2. res + q \in 0 .. MaxQty
    BY <1>1, <1>2, <2>1, TallyAssumption
  <2>3. Total([reserved[i] EXCEPT ![u] = res + q]) <= required[i]
    <3>1. Total([reserved[i] EXCEPT ![u] = res + q]) = Total(reserved[i]) - res + (res + q)
      BY <1>2, <2>2
    <3> QED BY <3>1, <1>n, <1>2, <2>1
  <2>4. /\ reserved' = [reserved EXCEPT ![i][u] = res + q]
        /\ rows' = rows \cup {<<i, u>>}
        /\ status = "open"
        /\ UNCHANGED <<items, spent, required, delivered, rewarded, closing>>
    BY <1>4 DEF Participate
  <2>5. res + q > 0 /\ del \in 0 .. (res + q)
    BY <1>1, <2>1
  <2> HIDE DEF res, del
  <2>6. RowSet(i, u, res + q, del)
    BY <1>3, <2>1, <2>2, <2>3, <2>4, <2>5 DEF RowSet
  <2> QED BY <2>6, RowSetInv
<1>5. ASSUME NEW n \in 0 .. MaxQty, <<i, u>> \in rows, status = "open", n >= del,
             n <= required[i] - Total([reserved[i] EXCEPT ![u] = 0]), Reserve(i, u, n)
      PROVE  Inv'
  <2>1. Total([reserved[i] EXCEPT ![u] = n]) <= required[i]
    <3>1. Total([reserved[i] EXCEPT ![u] = n]) = Total([reserved[i] EXCEPT ![u] = 0]) + n
      BY <1>2
    <3> QED BY <3>1, <1>n, <1>2, <1>5
  <2>2. rows' = IF n > 0 THEN rows \cup {<<i, u>>} ELSE rows \ {<<i, u>>}
    <3>1. CASE n = 0
      BY <3>1, <1>1, <1>5 DEF Reserve
    <3>2. CASE n > 0
      BY <3>2, <1>5 DEF Reserve
    <3> QED BY <3>1, <3>2
  <2>3. del \in 0 .. n /\ i \in items /\ status = "open"
    BY <1>1, <1>5
  <2>4. /\ reserved' = [reserved EXCEPT ![i][u] = n]
        /\ UNCHANGED <<items, spent, required, delivered, rewarded, closing>>
    BY <1>5 DEF Reserve
  <2> HIDE DEF res, del
  <2>5. RowSet(i, u, n, del)
    BY <1>3, <2>1, <2>2, <2>3, <2>4 DEF RowSet
  <2> QED BY <2>5, RowSetInv
<1>6. ASSUME NEW n \in 0 .. MaxQty, SetReservation(i, u, n) PROVE Inv'
  BY <1>5, <1>6 DEF SetReservation
<1>7. ASSUME NEW q \in Qty, Release(i, u, q) PROVE Inv'
  <2>1. /\ <<i, u>> \in rows /\ status = "open" /\ q <= res - del /\ q \in Nat
        /\ Reserve(i, u, res - q)
    BY <1>7, TallyAssumption DEF Release, Qty
  <2>2. res - q \in 0 .. MaxQty /\ res - q >= del
    BY <1>1, <1>n, <2>1
  <2>3. res - q <= required[i] - Total([reserved[i] EXCEPT ![u] = 0])
    <3>1. Total(reserved[i]) = Total([reserved[i] EXCEPT ![u] = 0]) + res
      BY <1>1, TotalSplit
    <3>2. Total(reserved[i]) <= required[i]
      BY <1>1, <2>1
    <3> HIDE DEF res, del
    <3> QED BY <1>n, <1>2, <2>1, <2>2, <3>1, <3>2
  <2> QED BY <1>5, <2>1, <2>2, <2>3
<1>8. ASSUME RemoveReservation(i, u) PROVE Inv'
  <2>1. Total([reserved[i] EXCEPT ![u] = 0]) <= required[i]
    <3>1. Total(reserved[i]) = Total([reserved[i] EXCEPT ![u] = 0]) + res
      BY <1>1, TotalSplit
    <3>2. Total(reserved[i]) <= required[i]
      BY <1>1, <1>8 DEF RemoveReservation
    <3> QED BY <3>1, <3>2, <1>n, <1>2
  <2>2. RowSet(i, u, 0, 0)
    BY <1>1, <1>8, <2>1, TallyAssumption DEF RowSet, RemoveReservation
  <2> QED BY <2>2, RowSetInv
<1> QED BY <1>4, <1>6, <1>7, <1>8

\* A delivery leaves the reservations alone; if it leaves no item short, what is
\* delivered is what was reserved and what was required.
LEMMA DeliverInv ==
  ASSUME Inv, NEW i \in Items, NEW u \in Users, NEW q \in Qty, Deliver(i, u, q)
  PROVE  Inv'
<1> USE DEF Inv, Deliver
<1>1. /\ delivered[i] \in Shares /\ delivered \in [Items -> Shares]
      /\ delivered[i][u] \in 0 .. MaxQty /\ reserved[i][u] \in 0 .. MaxQty
      /\ q \in Nat /\ q <= reserved[i][u] - delivered[i][u]
      /\ delivered' = [delivered EXCEPT ![i][u] = @ + q]
  BY TallyAssumption DEF TypeOK, Shares, Qty
<1>2. delivered[i][u] + q \in 0 .. MaxQty /\ delivered[i][u] + q <= reserved[i][u]
  BY <1>1, TallyAssumption
<1>3. /\ delivered'[i] = [delivered[i] EXCEPT ![u] = delivered[i][u] + q]
      /\ delivered'[i] \in Shares
      /\ \A j \in Items : j # i => delivered'[j] = delivered[j]
  BY <1>1, <1>2 DEF Shares
<1>4. delivered' \in [Items -> Shares]
  BY <1>1, <1>3
<1>5. TypeOK'
  BY <1>4 DEF TypeOK, Finish, closing
<1>6. WithinCapacity'
  BY DEF WithinCapacity
<1>7. RowsMeanPledges'
  <2>1. delivered'[i][u] <= reserved[i][u]
    BY <1>1, <1>2, <1>3 DEF Shares
  <2>2. \A j \in Items, v \in Users : ~(j = i /\ v = u) => delivered'[j][v] = delivered[j][v]
    BY <1>1, <1>3 DEF Shares
  <2> QED BY <2>1, <2>2 DEF RowsMeanPledges
<1>8. CASE Complete(delivered')
  <2>1. /\ status' = "completed" /\ closes' = closes + 1
        /\ payouts' = payouts + (IF rewarded THEN 1 ELSE 0)
    BY <1>8 DEF Finish
  <2>2. ClosedOnce'
    BY <2>1 DEF ClosedOnce
  <2>3. ASSUME NEW j \in items
        PROVE  Total(delivered'[j]) = required[j] /\ delivered'[j] = reserved[j]
    <3>1. /\ delivered'[j] \in Shares /\ reserved[j] \in Shares /\ j \in Items
          /\ \A v \in Users : delivered'[j][v] <= reserved[j][v]
          /\ required[j] \in 0 .. MaxQty
      BY <1>4, <1>7 DEF TypeOK, RowsMeanPledges
    <3>2. required[j] <= Total(delivered'[j]) /\ Total(reserved[j]) <= required[j]
      BY <1>8 DEF Complete, WithinCapacity
    <3>3. /\ Total(delivered'[j]) <= Total(reserved[j])
          /\ Total(reserved[j]) <= Total(delivered'[j]) => delivered'[j] = reserved[j]
      BY <3>1, TotalMonotone
    <3>4. Total(delivered'[j]) \in Nat /\ Total(reserved[j]) \in Nat
      BY UnitsFinite
    <3> QED BY <3>1, <3>2, <3>3, <3>4
  <2>4. CompletedInFull'
    BY <1>8, <2>3 DEF CompletedInFull, Complete
  <2> QED BY <1>5, <1>6, <1>7, <2>2, <2>4
<1>9. CASE ~Complete(delivered')
  <2>1. CompletedInFull' /\ ClosedOnce'
    BY <1>9 DEF Finish, closing, CompletedInFull, ClosedOnce
  <2> QED BY <1>5, <1>6, <1>7, <2>1
<1> QED BY <1>8, <1>9

LEMMA NextInv == ASSUME Inv, [Next]_vars PROVE Inv'
<1>1. CASE UNCHANGED vars
  BY <1>1 DEF vars, Inv, TypeOK, WithinCapacity, RowsMeanPledges, CompletedInFull, ClosedOnce
<1>2. CASE Next
  BY <1>2, OfficerInv, MemberInv, DeliverInv DEF Next, ItemStep, RowStep
<1> QED BY <1>1, <1>2

-----------------------------------------------------------------------------

THEOREM InvHolds == Spec => []Inv
<1>1. Init => Inv
  BY InitInv
<1>2. Inv /\ [Next]_vars => Inv'
  BY NextInv
<1> QED BY <1>1, <1>2, PTL DEF Spec

\* Every column keeps its type, and every reservation row its item.
THEOREM TypeCorrect == Spec => []TypeOK
<1>1. Inv => TypeOK
  BY DEF Inv
<1> QED BY <1>1, InvHolds, PTL

\* No item is ever over-reserved.
THEOREM CapacityHolds == Spec => []WithinCapacity
<1>1. Inv => WithinCapacity
  BY DEF Inv
<1> QED BY <1>1, InvHolds, PTL

\* A reservation row exists exactly for a positive pledge that bounds what is delivered.
THEOREM RowsHold == Spec => []RowsMeanPledges
<1>1. Inv => RowsMeanPledges
  BY DEF Inv
<1> QED BY <1>1, InvHolds, PTL

\* A completed contract was delivered to the last unit, by those who reserved it.
THEOREM CompletionIsFull == Spec => []CompletedInFull
<1>1. Inv => CompletedInFull
  BY DEF Inv
<1> QED BY <1>1, InvHolds, PTL

\* One close task, and one payout task when there is something to pay out.
THEOREM OneClosing == Spec => []ClosedOnce
<1>1. Inv => ClosedOnce
  BY DEF Inv
<1> QED BY <1>1, InvHolds, PTL

\* A delivered quantity is never reduced while its row remains.
THEOREM DeliveriesAreKept == Spec => DeliveriesKept
<1>1. ASSUME Inv, Next
      PROVE  \A i \in Items, u \in Users :
               delivered'[i][u] < delivered[i][u] => <<i, u>> \notin rows'
  <2> SUFFICES ASSUME NEW i \in Items, NEW u \in Users, delivered'[i][u] < delivered[i][u]
               PROVE  <<i, u>> \notin rows'
    OBVIOUS
  <2>1. /\ delivered \in [Items -> Shares]
        /\ \A j \in Items, v \in Users : delivered[j][v] \in 0 .. MaxQty
    BY <1>1 DEF Inv, TypeOK, Shares
  <2>2. delivered' # delivered
    BY <2>1, TallyAssumption
  <2>3. PICK j \in Items :
          \/ RemoveItem(j)
          \/ \E v \in Users : RemoveReservation(j, v)
          \/ \E v \in Users, q \in Qty : Deliver(j, v, q)
    <3>1. \A j \in Items, v \in Users, q \in Qty :
            ~Participate(j, v, q) /\ ~Release(j, v, q)
      BY <2>2 DEF Participate, Release, Reserve
    <3>2. \A j \in Items, q \in Qty : ~AddItem(j, q) /\ ~UpdateItem(j, q)
      BY <2>2 DEF AddItem, UpdateItem
    <3>3. \A j \in Items, v \in Users, n \in 0 .. MaxQty : ~SetReservation(j, v, n)
      BY <2>2 DEF SetReservation, Reserve
    <3>4. ~Cancel /\ ~MarkExpired /\ \A b \in BOOLEAN : ~UpdateRewards(b)
      BY <2>2 DEF Cancel, MarkExpired, Close, UpdateRewards, quantities
    <3> QED BY <1>1, <3>1, <3>2, <3>3, <3>4 DEF Next, ItemStep, RowStep
  <2>4. CASE RemoveItem(j)
    BY <2>1, <2>4 DEF RemoveItem
  <2>5. ASSUME NEW v \in Users, RemoveReservation(j, v) PROVE <<i, u>> \notin rows'
    <3>1. delivered' = [delivered EXCEPT ![j][v] = 0] /\ rows' = rows \ {<<j, v>>}
      BY <2>5 DEF RemoveReservation
    <3>2. i = j /\ u = v
      BY <2>1, <3>1 DEF Shares
    <3> QED BY <3>1, <3>2
  <2>6. ASSUME NEW v \in Users, NEW q \in Qty, Deliver(j, v, q) PROVE FALSE
    <3>1. delivered' = [delivered EXCEPT ![j][v] = @ + q] /\ q \in Nat
      BY <2>6, TallyAssumption DEF Deliver, Qty
    <3>2. i = j /\ u = v
      BY <2>1, <3>1 DEF Shares
    <3>3. delivered'[i][u] = delivered[i][u] + q
      BY <2>1, <3>1, <3>2 DEF Shares
    <3> QED BY <2>1, <3>1, <3>3
  <2> QED BY <2>3, <2>4, <2>5, <2>6
<1> QED BY <1>1, InvHolds, PTL DEF Spec, DeliveriesKept

\* Once closed, a contract's rows never change again.
THEOREM ClosingIsFinal == Spec => ClosedIsFinal
<1>1. \A i \in Items : ItemStep(i) => status = "open"
  BY DEF ItemStep, AddItem, UpdateItem, RemoveItem
<1>2. \A i \in Items, u \in Users : RowStep(i, u) => status = "open"
  BY DEF RowStep, Participate, Deliver, Release, SetReservation, RemoveReservation
<1>3. Cancel \/ MarkExpired \/ (\E b \in BOOLEAN : UpdateRewards(b)) => status = "open"
  BY DEF UpdateRewards, Cancel, MarkExpired, Close
<1>4. Next => status = "open"
  BY <1>1, <1>2, <1>3 DEF Next
<1> QED BY <1>4, PTL DEF Spec, ClosedIsFinal

-----------------------------------------------------------------------------
(* The transactions.                                                       *)


\* A quantity a member or officer typed; a "set" is only known to be one when
\* its checks have passed.
Asked(o) ==
  o.kind \in {"add", "update", "participate", "deliver", "release"} => o.qty \in Qty

AllAsked == \A c \in Clients : Asked(op[c])

\* The row lock: its holder is the one client between Acquire and its end, and
\* the contract stays open under it.
LockIsExclusive ==
  /\ holders = {c \in Clients : pc[c] \in {"locked", "checked"}}
  /\ \A c, d \in holders : c = d
  /\ holders # {} => status = "open"

\* What a removed item (or one never added) requires: removing it again, or
\* changing its quantity, after waiting for the lock, changes nothing.
RemovedNeedsNothing == \A i \in Items : i \notin items => required[i] = 0

TxInv ==
  /\ Inv
  /\ TxTypeOK
  /\ AllAsked
  /\ LockIsExclusive
  /\ RemovedNeedsNothing
  /\ ReadsAreCurrent

-----------------------------------------------------------------------------

LEMMA NoOpIsOp == NoOp \in Op /\ Asked(NoOp) /\ NoView \in [reserved : Shares, delivered : Shares]
<1>1. Whoever \in Users /\ (CHOOSE i \in Items : TRUE) \in Items
  BY TxAssumption DEF Whoever
<1>2. 0 \in 0 .. MaxQty /\ 0 \in 0 .. 2 * MaxQty
  BY TallyAssumption
<1> QED BY <1>1, <1>2, TotalOfNothing DEF NoOp, Request, Op, Kinds, Asked, NoView

LEMMA RequestIsOp == ASSUME NEW r \in Requests PROVE r \in Op /\ Asked(r)
<1>1. Whoever \in Users /\ NoOp.item \in Items
  BY TxAssumption DEF Whoever, NoOp, Request
<1>2. /\ 0 \in 0 .. MaxQty /\ 0 \in 0 .. 2 * MaxQty
      /\ \A q \in Qty : q \in 0 .. 2 * MaxQty
  BY TallyAssumption DEF Qty
<1> QED BY <1>1, <1>2 DEF Requests, Request, Op, Kinds, Asked

LEMMA TxInitInv == TxInit => TxInv
<1> SUFFICES ASSUME TxInit PROVE TxInv
  OBVIOUS
<1>1. Init /\ Inv
  BY InitInv DEF TxInit
<1>2. TxTypeOK /\ AllAsked
  BY <1>1, NoOpIsOp DEF TxInit, TxTypeOK, AllAsked, Inv
<1>3. LockIsExclusive /\ ReadsAreCurrent
  BY DEF TxInit, LockIsExclusive, ReadsAreCurrent
<1>4. RemovedNeedsNothing
  BY <1>1 DEF Init, RemovedNeedsNothing
<1> QED BY <1>1, <1>2, <1>3, <1>4 DEF TxInv

\* A step of the ledger never leaves a requirement behind.
LEMMA NeedsStep ==
  ASSUME Inv, RemovedNeedsNothing, [Next]_vars PROVE RemovedNeedsNothing'
<1>1. required \in [Items -> 0 .. MaxQty] /\ items \subseteq Items
  BY DEF Inv, TypeOK
<1>2. ASSUME NEW i \in Items, ItemStep(i) PROVE RemovedNeedsNothing'
  BY <1>1, <1>2 DEF RemovedNeedsNothing, ItemStep, AddItem, UpdateItem, RemoveItem
<1>3. ASSUME NEW i \in Items, NEW u \in Users, RowStep(i, u) PROVE UNCHANGED <<items, required>>
  BY <1>3 DEF RowStep, Participate, Deliver, Release, SetReservation, Reserve,
     RemoveReservation
<1>4. ASSUME Cancel \/ MarkExpired \/ \E b \in BOOLEAN : UpdateRewards(b)
      PROVE  UNCHANGED <<items, required>>
  BY <1>4 DEF Cancel, MarkExpired, Close, UpdateRewards, quantities
<1>5. CASE UNCHANGED <<items, required>>
  BY <1>5 DEF RemovedNeedsNothing
<1> QED BY <1>2, <1>3, <1>4, <1>5 DEF Next, vars

-----------------------------------------------------------------------------
(* The writes.                                                             *)

\* What is known when a client writes.
LEMMA Checked ==
  ASSUME TxInv, NEW c \in Clients, pc[c] = "checked"
  PROVE  /\ op[c] \in Op /\ Asked(op[c]) /\ Passes(op[c]) /\ status = "open"
         /\ view[c] = [reserved |-> reserved[op[c].item], delivered |-> delivered[op[c].item]]
<1>1. c \in holders
  BY DEF TxInv, LockIsExclusive
<1> QED BY <1>1 DEF TxInv, TxTypeOK, AllAsked, LockIsExclusive, ReadsAreCurrent

LEMMA WriteItemRefines ==
  ASSUME Inv, RemovedNeedsNothing, status = "open",
         NEW o \in Op, Asked(o), Passes(o), WriteItem(o)
  PROVE  [Next]_vars
<1> DEFINE i == o.item
<1>1. i \in Items
  BY DEF Op
<1>2. CASE o.kind = "add"
  <2>1. o.qty \in Qty /\ AddItem(i, o.qty)
    BY <1>2 DEF WriteItem, Asked, Passes, AddItem
  <2> QED BY <1>1, <2>1 DEF Next, ItemStep
<1>3. CASE o.kind = "update" /\ i \in items
  <2>1. o.qty \in Qty /\ UpdateItem(i, o.qty)
    BY <1>3 DEF WriteItem, Asked, Passes, UpdateItem
  <2> QED BY <1>1, <2>1 DEF Next, ItemStep
<1>4. CASE o.kind = "update" /\ i \notin items
  BY <1>4 DEF WriteItem, closing, vars
<1>5. CASE o.kind = "remove" /\ i \in items
  <2>1. RemoveItem(i)
    BY <1>5 DEF WriteItem, Delete, RemoveItem
  <2> QED BY <1>1, <2>1 DEF Next, ItemStep
<1>6. CASE o.kind = "remove" /\ i \notin items
  <2>1. /\ items \subseteq Items /\ rows \in SUBSET (items \X Users)
        /\ required \in [Items -> 0 .. MaxQty]
        /\ reserved \in [Items -> Shares] /\ delivered \in [Items -> Shares]
    BY DEF Inv, TypeOK
  <2>2. reserved[i] = Nothing /\ delivered[i] = Nothing
    <3>1. ASSUME NEW u \in Users PROVE reserved[i][u] = 0 /\ delivered[i][u] = 0
      <4>1. <<i, u>> \notin rows
        BY <2>1, <1>6
      <4>2. /\ reserved[i][u] \in 0 .. MaxQty /\ delivered[i][u] \in 0 .. MaxQty
            /\ delivered[i][u] <= reserved[i][u]
            /\ ~(reserved[i][u] > 0)
        BY <1>1, <2>1, <4>1 DEF Inv, RowsMeanPledges, Shares
      <4> QED BY <4>2, TallyAssumption
    <3>2. reserved[i] \in Shares /\ delivered[i] \in Shares
      BY <1>1, <2>1
    <3> QED BY <3>1, <3>2 DEF Shares, Nothing
  <2>3. required[i] = 0
    BY <1>1, <1>6 DEF RemovedNeedsNothing
  <2>4. Delete(i)
    BY <1>6 DEF WriteItem
  <2>5. items' = items /\ rows' = rows
    BY <1>6, <2>1, <2>4 DEF Delete
  <2>6. required' = required /\ reserved' = reserved /\ delivered' = delivered
    BY <2>1, <2>2, <2>3, <2>4 DEF Delete
  <2> QED BY <2>4, <2>5, <2>6 DEF Delete, closing, vars
<1> QED BY <1>2, <1>3, <1>4, <1>5, <1>6 DEF WriteItem

LEMMA WriteRowRefines ==
  ASSUME Inv, status = "open", NEW o \in Op, Asked(o), Passes(o), NEW v,
         v = [reserved |-> reserved[o.item], delivered |-> delivered[o.item]],
         WriteRow(o, v)
  PROVE  Next
<1> DEFINE i == o.item
           u == o.user
<1>1. i \in Items /\ u \in Users
  BY DEF Op
<1>2. SUFFICES RowStep(i, u)
  BY <1>1, <1>2 DEF Next
<1>3. CASE o.kind = "participate"
  <2>1. o.qty \in Qty /\ Participate(i, u, o.qty)
    BY <1>3 DEF WriteRow, Asked, Passes, Participate
  <2> QED BY <2>1 DEF RowStep
<1>4. CASE o.kind = "release"
  <2>1. o.qty \in Qty /\ Put(i, u, reserved[i][u] - o.qty, delivered[i][u])
    BY <1>4 DEF WriteRow, Asked
  <2>2. Release(i, u, o.qty)
    BY <1>4, <2>1 DEF Passes, Put, Reserve, Release
  <2> QED BY <2>1, <2>2 DEF RowStep
<1>5. CASE o.kind = "set"
  <2>1. /\ o.qty >= delivered[i][u]
        /\ o.qty <= required[i] - Total([reserved[i] EXCEPT ![u] = 0])
        /\ <<i, u>> \in rows
    BY <1>5 DEF Passes
  <2>2. o.qty \in 0 .. MaxQty
    <3>1. required[i] \in 0 .. MaxQty /\ Total([reserved[i] EXCEPT ![u] = 0]) \in Nat
      BY <1>1, UnitsFinite DEF Inv, TypeOK
    <3>2. o.qty \in 0 .. 2 * MaxQty
      BY DEF Op
    <3> QED BY <2>1, <3>1, <3>2, TallyAssumption
  <2>3. SetReservation(i, u, o.qty)
    BY <1>5, <2>1 DEF WriteRow, Put, Reserve, SetReservation
  <2> QED BY <2>2, <2>3 DEF RowStep
<1>6. CASE o.kind = "drop"
  BY <1>6 DEF WriteRow, Passes, RemoveReservation, RowStep
<1>7. CASE o.kind = "deliver"
  <2>1. o.qty \in Qty /\ Deliver(i, u, o.qty)
    BY <1>7 DEF WriteRow, Asked, Passes, Deliver
  <2> QED BY <2>1 DEF RowStep
<1> QED BY <1>3, <1>4, <1>5, <1>6, <1>7 DEF WriteRow

LEMMA WriteRefines ==
  ASSUME TxInv, NEW c \in Clients, Write(c) PROVE [Next]_vars
<1>1. /\ op[c] \in Op /\ Asked(op[c]) /\ Passes(op[c]) /\ status = "open"
      /\ view[c] = [reserved |-> reserved[op[c].item], delivered |-> delivered[op[c].item]]
  BY Checked DEF Write
<1>2. Inv /\ RemovedNeedsNothing
  BY DEF TxInv
<1>3. CASE WriteItem(op[c])
  BY <1>1, <1>2, <1>3, WriteItemRefines
<1>4. CASE WriteRow(op[c], view[c])
  BY <1>1, <1>2, <1>4, WriteRowRefines
<1>5. CASE WriteContract(op[c])
  <2>1. CASE op[c].kind = "reward"
    <3>1. UpdateRewards(~rewarded)
      BY <1>1, <1>5, <2>1 DEF WriteContract, UpdateRewards
    <3>2. (~rewarded) = TRUE \/ (~rewarded) = FALSE
      OBVIOUS
    <3>3. \E b \in BOOLEAN : UpdateRewards(b)
      BY <3>1, <3>2, Zenon
    <3> QED BY <3>3 DEF Next
  <2>2. CASE op[c].kind = "deadline"
    BY <1>5, <2>2 DEF WriteContract, ledger
  <2>3. CASE op[c].kind = "cancel"
    BY <1>1, <1>5, <2>3 DEF WriteContract, Next, Cancel, Close
  <2>4. CASE op[c].kind = "expire"
    BY <1>1, <1>5, <2>4 DEF WriteContract, Next, MarkExpired, Close
  <2> QED BY <1>5, <2>1, <2>2, <2>3, <2>4 DEF WriteContract
<1> QED BY <1>3, <1>4, <1>5 DEF Write

-----------------------------------------------------------------------------
(* The other steps leave the ledger alone, and concern one client.         *)

\* A client's step that leaves the ledger, and the other clients, as they are.
Alone(c) ==
  /\ UNCHANGED ledger
  /\ \A d \in Clients \ {c} : pc'[d] = pc[d] /\ op'[d] = op[d] /\ view'[d] = view[d]

LEMMA AloneInv ==
  ASSUME TxInv, NEW c \in Clients, Alone(c), TxTypeOK', Asked(op'[c]),
         LockIsExclusive',
         pc'[c] = "checked" =>
           /\ Passes(op'[c])
           /\ view'[c] = [reserved |-> reserved[op'[c].item],
                          delivered |-> delivered[op'[c].item]]
  PROVE  TxInv'
<1> USE DEF Alone, ledger, vars
<1>1. Inv'
  BY NextInv DEF TxInv
<1>2. AllAsked'
  BY DEF TxInv, AllAsked, Asked
<1>3. RemovedNeedsNothing'
  BY DEF TxInv, RemovedNeedsNothing
<1>4. ReadsAreCurrent'
  <2> SUFFICES ASSUME NEW d \in Clients, pc'[d] = "checked"
               PROVE  /\ Passes(op[d])'
                      /\ view'[d] = [reserved |-> reserved'[op'[d].item],
                                     delivered |-> delivered'[op'[d].item]]
    BY DEF ReadsAreCurrent
  <2>1. CASE d = c
    BY <2>1 DEF Passes
  <2>2. CASE d # c
    BY <2>2 DEF TxInv, ReadsAreCurrent, Passes
  <2> QED BY <2>1, <2>2
<1> QED BY <1>1, <1>2, <1>3, <1>4 DEF TxInv

LEMMA BeginInv == ASSUME TxInv, NEW c \in Clients, Begin(c) PROVE TxInv'
<1> USE DEF TxInv
<1>1. PICK r \in Requests : op' = [op EXCEPT ![c] = r]
  BY DEF Begin
<1>2. r \in Op /\ Asked(r)
  BY RequestIsOp
<1>3. /\ pc[c] = "idle" /\ pc' = [pc EXCEPT ![c] = "waiting"]
      /\ late' = [late EXCEPT ![c] = overdue]
      /\ UNCHANGED <<ledger, overdue, holders, view>>
  BY DEF Begin
<1>4. TxTypeOK'
  BY <1>1, <1>2, <1>3 DEF TxTypeOK, TypeOK, ledger, vars
<1>5. LockIsExclusive'
  BY <1>3 DEF TxTypeOK, LockIsExclusive, ledger, vars
<1>6. Alone(c) /\ op'[c] = r /\ pc'[c] = "waiting"
  BY <1>1, <1>3 DEF TxTypeOK, Alone
<1> QED BY <1>2, <1>4, <1>5, <1>6, AloneInv

LEMMA OfficerLoadsInv == ASSUME TxInv, NEW c \in Clients, OfficerLoads(c) PROVE TxInv'
<1> USE DEF TxInv
<1>1. PICK x \in rows, out \in 0 .. MaxQty :
        op' = [op EXCEPT ![c] = [kind |-> "set", item |-> x[1], user |-> x[2],
                                 qty |-> delivered[x[1]][x[2]] + out, out |-> out]]
  BY DEF OfficerLoads
<1> DEFINE o == [kind |-> "set", item |-> x[1], user |-> x[2],
                 qty |-> delivered[x[1]][x[2]] + out, out |-> out]
<1>2. o \in Op /\ Asked(o)
  <2>1. x[1] \in Items /\ x[2] \in Users /\ delivered[x[1]][x[2]] \in 0 .. MaxQty
    BY DEF TxTypeOK, TypeOK, Shares
  <2>2. delivered[x[1]][x[2]] + out \in 0 .. 2 * MaxQty
    BY <2>1, TallyAssumption
  <2> QED BY <2>1, <2>2 DEF Op, Kinds, Asked
<1>3. /\ pc[c] = "idle" /\ pc' = [pc EXCEPT ![c] = "loaded"]
      /\ UNCHANGED <<ledger, overdue, holders, late, view>>
  BY DEF OfficerLoads
<1>4. op' = [op EXCEPT ![c] = o]
  BY <1>1
<1> HIDE DEF o
<1>5. TxTypeOK'
  BY <1>2, <1>3, <1>4 DEF TxTypeOK, TypeOK, ledger, vars
<1>6. LockIsExclusive'
  BY <1>3 DEF TxTypeOK, LockIsExclusive, ledger, vars
<1>7. Alone(c) /\ op'[c] = o /\ pc'[c] = "loaded"
  BY <1>3, <1>4 DEF TxTypeOK, Alone
<1> QED BY <1>2, <1>5, <1>6, <1>7, AloneInv

LEMMA OfficerSetsInv == ASSUME TxInv, NEW c \in Clients, OfficerSets(c) PROVE TxInv'
<1> USE DEF TxInv, OfficerSets
<1>1. TxTypeOK'
  BY DEF TxTypeOK, TypeOK, ledger, vars
<1>2. LockIsExclusive'
  BY DEF TxTypeOK, LockIsExclusive, ledger, vars
<1>3. Alone(c) /\ op' = op /\ pc'[c] = "waiting"
  BY DEF TxTypeOK, Alone
<1>4. Asked(op'[c])
  BY <1>3 DEF AllAsked
<1> QED BY <1>1, <1>2, <1>3, <1>4, AloneInv

LEMMA AcquireInv == ASSUME TxInv, NEW c \in Clients, Acquire(c) PROVE TxInv'
<1> USE DEF TxInv, Acquire
<1>1. TxTypeOK'
  BY DEF TxTypeOK, TypeOK, ledger, vars
<1>2. LockIsExclusive'
  BY DEF TxTypeOK, LockIsExclusive, Admitted, ledger, vars
<1>3. Alone(c) /\ op' = op /\ pc'[c] = "locked"
  BY DEF TxTypeOK, Alone
<1>4. Asked(op'[c])
  BY <1>3 DEF AllAsked
<1> QED BY <1>1, <1>2, <1>3, <1>4, AloneInv

LEMMA CheckInv == ASSUME TxInv, NEW c \in Clients, Check(c) PROVE TxInv'
<1> USE DEF TxInv, Check
<1>0. op[c] \in Op /\ op[c].item \in Items
  BY DEF TxTypeOK, Op
<1>1. TxTypeOK'
  <2>1. [reserved |-> reserved[op[c].item], delivered |-> delivered[op[c].item]]
          \in [reserved : Shares, delivered : Shares]
    BY <1>0 DEF TxTypeOK, TypeOK
  <2> QED BY <2>1 DEF TxTypeOK, TypeOK, ledger, vars
<1>2. LockIsExclusive'
  BY DEF TxTypeOK, LockIsExclusive, ledger, vars
<1>3. /\ Alone(c) /\ op' = op /\ Passes(op[c])
      /\ view'[c] = [reserved |-> reserved[op[c].item], delivered |-> delivered[op[c].item]]
  BY DEF TxTypeOK, Alone
<1>4. Asked(op'[c])
  BY <1>3 DEF AllAsked
<1> QED BY <1>1, <1>2, <1>3, <1>4, AloneInv

\* A client that ends without writing: refused, rejected, or rolled back.
LEMMA EndInv ==
  ASSUME TxInv, NEW c \in Clients, Refused(c) \/ Rejected(c) \/ RollBack(c) PROVE TxInv'
<1> USE DEF TxInv
<1>1. /\ UNCHANGED <<ledger, overdue>> /\ Done(c)
      /\ late' = [late EXCEPT ![c] = FALSE]
      /\ holders' = holders \ {c}
  BY DEF Refused, Rejected, RollBack
<1>2. TxTypeOK'
  BY <1>1, NoOpIsOp DEF TxTypeOK, TypeOK, ledger, vars, Done
<1>3. LockIsExclusive'
  BY <1>1 DEF TxTypeOK, LockIsExclusive, ledger, vars, Done
<1>4. Alone(c) /\ op'[c] = NoOp /\ pc'[c] = "idle"
  BY <1>1 DEF TxTypeOK, Alone, Done
<1> QED BY <1>2, <1>3, <1>4, NoOpIsOp, AloneInv

LEMMA WriteInv == ASSUME TxInv, NEW c \in Clients, Write(c) PROVE TxInv'
<1>1. Inv' /\ RemovedNeedsNothing'
  BY WriteRefines, NextInv, NeedsStep DEF TxInv
<1>2. /\ holders' = {}
      /\ \A d \in Clients : pc'[d] \notin {"locked", "checked"}
  BY DEF Write, Done, TxInv, TxTypeOK, LockIsExclusive
<1>3. TxTypeOK'
  <2>1. late' \in [Clients -> BOOLEAN] /\ overdue' \in BOOLEAN
    BY DEF Write, TxInv, TxTypeOK
  <2>2. /\ pc' \in [Clients -> {"idle", "loaded", "waiting", "locked", "checked"}]
        /\ op' \in [Clients -> Op]
        /\ view' \in [Clients -> [reserved : Shares, delivered : Shares]]
    BY NoOpIsOp DEF Write, Done, TxInv, TxTypeOK
  <2> QED BY <1>1, <1>2, <2>1, <2>2 DEF TxTypeOK, Inv
<1>4. AllAsked'
  BY NoOpIsOp DEF Write, Done, TxInv, TxTypeOK, AllAsked, Asked
<1>5. LockIsExclusive' /\ ReadsAreCurrent'
  BY <1>2 DEF LockIsExclusive, ReadsAreCurrent
<1> QED BY <1>1, <1>3, <1>4, <1>5 DEF TxInv

\* Time passes, or nothing happens to the clients.
LEMMA IdleInv ==
  ASSUME TxInv, DeadlinePasses \/ UNCHANGED txVars PROVE TxInv'
<1>1. UNCHANGED <<ledger, holders, pc, op, view>> /\ overdue' \in BOOLEAN
      /\ late' = late
  BY DEF DeadlinePasses, txVars, control, TxInv, TxTypeOK
<1> USE DEF ledger, vars
<1>2. Inv'
  BY <1>1, NextInv DEF TxInv
<1>3. TxTypeOK'
  BY <1>1, <1>2 DEF TxInv, TxTypeOK, Inv
<1>4. AllAsked' /\ LockIsExclusive' /\ RemovedNeedsNothing'
  BY <1>1 DEF TxInv, AllAsked, Asked, LockIsExclusive, RemovedNeedsNothing
<1>5. ReadsAreCurrent'
  BY <1>1 DEF TxInv, ReadsAreCurrent, Passes
<1> QED BY <1>2, <1>3, <1>4, <1>5 DEF TxInv

LEMMA TxNextInv == ASSUME TxInv, [TxNext]_txVars PROVE TxInv'
BY BeginInv, OfficerLoadsInv, OfficerSetsInv, AcquireInv, CheckInv, EndInv, WriteInv, IdleInv
   DEF TxNext, TxStep

\* Only a write is a step of the ledger.
LEMMA TxNextRefines == ASSUME TxInv, [TxNext]_txVars PROVE [Next]_vars
<1>1. ASSUME NEW c \in Clients,
             \/ Begin(c) \/ OfficerLoads(c) \/ OfficerSets(c) \/ Acquire(c)
             \/ Refused(c) \/ Check(c) \/ Rejected(c) \/ RollBack(c)
      PROVE  UNCHANGED vars
  BY <1>1 DEF Begin, OfficerLoads, OfficerSets, Acquire, Refused, Check, Rejected,
     RollBack, ledger
<1>2. ASSUME DeadlinePasses \/ UNCHANGED txVars PROVE UNCHANGED vars
  BY <1>2 DEF DeadlinePasses, txVars, ledger
<1> QED BY <1>1, <1>2, WriteRefines DEF TxNext, TxStep

-----------------------------------------------------------------------------

THEOREM TxInvHolds == TxSpec => []TxInv
<1>1. TxInit => TxInv
  BY TxInitInv
<1>2. TxInv /\ [TxNext]_txVars => TxInv'
  BY TxNextInv
<1> QED BY <1>1, <1>2, PTL DEF TxSpec

\* Every column, and every transaction's own state, keeps its type.
THEOREM TxTypeCorrect == TxSpec => []TxTypeOK
<1>1. TxInv => TxTypeOK
  BY DEF TxInv
<1> QED BY <1>1, TxInvHolds, PTL

\* SELECT ... FOR UPDATE: one transaction at a time is past it, and the contract
\* it was admitted to stays open until it ends.
THEOREM OneHolder == TxSpec => []LockIsExclusive
<1>1. TxInv => LockIsExclusive
  BY DEF TxInv
<1> QED BY <1>1, TxInvHolds, PTL

\* What a transaction read and checked under the lock still holds when it writes,
\* although each statement reads the database anew.
THEOREM ReadsStayCurrent == TxSpec => []ReadsAreCurrent
<1>1. TxInv => ReadsAreCurrent
  BY DEF TxInv
<1> QED BY <1>1, TxInvHolds, PTL

\* Interleaved transactions implement the atomic ledger: they are serializable
\* in the order in which they commit.
THEOREM TransactionsAreAtomic == TxSpec => ActsAtomically
<1>1. TxInit => Init
  BY DEF TxInit
<1>2. TxInv /\ [TxNext]_txVars => [Next]_vars
  BY TxNextRefines
<1> QED BY <1>1, <1>2, TxInvHolds, PTL DEF TxSpec, ActsAtomically, Spec

\* So what the ledger promises holds under every interleaving.
THEOREM TransactionsKeepLedger ==
  TxSpec => /\ []WithinCapacity /\ []RowsMeanPledges /\ []CompletedInFull /\ []ClosedOnce
            /\ ClosedIsFinal /\ DeliveriesKept
BY TransactionsAreAtomic, CapacityHolds, RowsHold, CompletionIsFull, OneClosing,
   ClosingIsFinal, DeliveriesAreKept, PTL DEF ActsAtomically
=============================================================================
