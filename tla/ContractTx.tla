----------------------------- MODULE ContractTx -----------------------------
(***************************************************************************)
(* The ledger's operations taken apart: concurrent transactions on one     *)
(* contract (features/contracts/postgres.go).  Each captures the time,     *)
(* waits for the lock on the contract row (SELECT ... FOR UPDATE, or the   *)
(* UPDATE of MarkExpired), re-reads the row once it has it, reads what its *)
(* checks need in statements of their own, and then writes and commits.    *)
(* Everything runs at READ COMMITTED: only the lock keeps what was read    *)
(* true until it is used.                                                  *)
(*                                                                         *)
(* The rows are those of ContractLedger; a transaction's own writes show   *)
(* when it commits.                                                        *)
(***************************************************************************)
EXTENDS ContractLedger

CONSTANT Clients   \* the interaction handlers and the sweeper, one operation each

ASSUME TxAssumption == Items # {} /\ Users # {}

VARIABLES
  overdue,  \* the contract's deadline has passed
  holders,  \* who holds the lock on the contract row
  pc,       \* "idle", "loaded" (an officer's form read), "waiting", "locked", "checked"
  op,       \* the operation each client performs
  late,     \* the contract's deadline is not after the time the client captured
  view      \* the quantities the client read under the lock

ledger == vars
control == <<overdue, holders, pc, op, late, view>>
txVars == <<ledger, control>>

\* For the operations that concern no member in particular.
Whoever == CHOOSE u \in Users : TRUE
NoView == [reserved |-> Nothing, delivered |-> Nothing]

Kinds == {"add", "update", "remove", "reward", "deadline", "cancel", "expire",
          "participate", "deliver", "release", "set", "drop"}

\* "out": the outstanding quantity an officer typed for a "set".
Op == [kind : Kinds, item : Items, user : Users, qty : 0 .. 2 * MaxQty, out : 0 .. MaxQty]

Request(k, i, u, q) == [kind |-> k, item |-> i, user |-> u, qty |-> q, out |-> 0]
NoOp == Request("cancel", CHOOSE i \in Items : TRUE, Whoever, 0)

TxTypeOK ==
  /\ TypeOK
  /\ overdue \in BOOLEAN
  /\ holders \in SUBSET Clients
  /\ pc \in [Clients -> {"idle", "loaded", "waiting", "locked", "checked"}]
  /\ op \in [Clients -> Op]
  /\ late \in [Clients -> BOOLEAN]
  /\ view \in [Clients -> [reserved : Shares, delivered : Shares]]

TxInit ==
  /\ Init
  /\ overdue = FALSE
  /\ holders = {}
  /\ pc = [c \in Clients |-> "idle"]
  /\ op = [c \in Clients |-> NoOp]
  /\ late = [c \in Clients |-> FALSE]
  /\ view = [c \in Clients |-> NoView]

-----------------------------------------------------------------------------

\* What an interaction may ask for; the "set" of an officer's form aside.
Requests ==
  UNION {
    {Request(k, i, Whoever, q) : k \in {"add", "update"}, i \in Items, q \in Qty},
    {Request("remove", i, Whoever, 0) : i \in Items},
    {Request(k, NoOp.item, Whoever, 0) : k \in {"reward", "deadline", "cancel", "expire"}},
    {Request(k, i, u, q) : k \in {"participate", "deliver", "release"},
                           i \in Items, u \in Users, q \in Qty},
    {Request("drop", i, u, 0) : i \in Items, u \in Users}}

\* The sweeper only picks a contract that is due (DueContracts).
Begin(c) ==
  /\ pc[c] = "idle"
  /\ \E r \in Requests :
       /\ r.kind = "expire" => status = "open" /\ overdue
       /\ op' = [op EXCEPT ![c] = r]
  /\ pc' = [pc EXCEPT ![c] = "waiting"]
  /\ late' = [late EXCEPT ![c] = overdue]
  /\ UNCHANGED <<ledger, overdue, holders, view>>

\* submitParticipant: the form's outstanding quantity is turned into a reserved
\* one with the delivered quantity as it stands before the transaction.
OfficerLoads(c) ==
  /\ pc[c] = "idle"
  /\ \E x \in rows, out \in 0 .. MaxQty :
       op' = [op EXCEPT ![c] = [kind |-> "set", item |-> x[1], user |-> x[2],
                                qty |-> delivered[x[1]][x[2]] + out, out |-> out]]
  /\ pc' = [pc EXCEPT ![c] = "loaded"]
  /\ UNCHANGED <<ledger, overdue, holders, late, view>>

OfficerSets(c) ==
  /\ pc[c] = "loaded"
  /\ pc' = [pc EXCEPT ![c] = "waiting"]
  /\ late' = [late EXCEPT ![c] = overdue]
  /\ UNCHANGED <<ledger, overdue, holders, op, view>>

\* The end of a client's operation.
Done(c) ==
  /\ pc' = [pc EXCEPT ![c] = "idle"]
  /\ op' = [op EXCEPT ![c] = NoOp]
  /\ view' = [view EXCEPT ![c] = NoView]

\* The status and deadline the lock query returns are those of the row as the
\* last holder left it.
Admitted(c) ==
  /\ status = "open"
  /\ CASE op[c].kind = "cancel" -> TRUE
       [] op[c].kind = "expire" -> late[c]
       [] OTHER -> ~late[c]

\* Mutant: the contract row is read without FOR UPDATE.
AcquireShared(c) ==
  /\ pc[c] = "waiting"
  /\ Admitted(c)
  /\ holders' = holders \cup {c}
  /\ pc' = [pc EXCEPT ![c] = "locked"]
  /\ UNCHANGED <<ledger, overdue, op, late, view>>

\* lockOpenContract and its variants.
Acquire(c) ==
  /\ pc[c] = "waiting" /\ holders = {}
  /\ Admitted(c)
  /\ holders' = holders \cup {c}
  /\ pc' = [pc EXCEPT ![c] = "locked"]
  /\ UNCHANGED <<ledger, overdue, op, late, view>>

\* ErrClosed, ErrExpired.
Refused(c) ==
  /\ pc[c] = "waiting" /\ holders = {}
  /\ ~Admitted(c)
  /\ Done(c) /\ late' = [late EXCEPT ![c] = FALSE]
  /\ UNCHANGED <<ledger, overdue, holders>>

\* The operation's own checks, on what its statements read.  An item that was
\* removed while the lock was awaited is noticed by some operations; the UPDATE
\* and DELETE of the others then match no row.
Passes(o) ==
  LET i == o.item
      u == o.user
      res == reserved[i]
      open == res[u] - delivered[i][u]
  IN CASE o.kind = "add" -> i \notin spent /\ Cardinality(items) < MaxItems
       [] o.kind = "update" -> i \in items => o.qty >= Total(res)
       [] o.kind = "participate" -> i \in items /\ o.qty <= required[i] - Total(res)
       [] o.kind \in {"deliver", "release"} -> <<i, u>> \in rows /\ o.qty <= open
       [] o.kind = "set" -> /\ <<i, u>> \in rows
                            /\ o.qty >= delivered[i][u]
                            /\ o.qty <= required[i] - Total([res EXCEPT ![u] = 0])
       [] o.kind = "drop" -> <<i, u>> \in rows
       [] OTHER -> TRUE

\* Mutant: the checks run in a transaction of their own, which ends with them.
CheckAndUnlock(c) ==
  /\ pc[c] = "locked"
  /\ Passes(op[c])
  /\ view' = [view EXCEPT ![c] = [reserved |-> reserved[op[c].item],
                                  delivered |-> delivered[op[c].item]]]
  /\ pc' = [pc EXCEPT ![c] = "checked"]
  /\ holders' = {}
  /\ UNCHANGED <<ledger, overdue, op, late>>

Check(c) ==
  /\ pc[c] = "locked"
  /\ Passes(op[c])
  /\ view' = [view EXCEPT ![c] = [reserved |-> reserved[op[c].item],
                                  delivered |-> delivered[op[c].item]]]
  /\ pc' = [pc EXCEPT ![c] = "checked"]
  /\ UNCHANGED <<ledger, overdue, holders, op, late>>

Rejected(c) ==
  /\ pc[c] = "locked"
  /\ ~Passes(op[c])
  /\ Done(c) /\ late' = [late EXCEPT ![c] = FALSE]
  /\ holders' = holders \ {c}
  /\ UNCHANGED <<ledger, overdue>>

-----------------------------------------------------------------------------
(* The writes.  Quantities the SQL adds to are read by the UPDATE itself;   *)
(* those the code computed come from what it read before.                  *)

\* UPDATE ... SET reserved_qty = n, or DELETE if nothing is left of the row.
Put(i, u, n, del) ==
  /\ reserved' = [reserved EXCEPT ![i][u] = n]
  /\ rows' = IF n = 0 /\ del = 0 THEN rows \ {<<i, u>>} ELSE rows
  /\ UNCHANGED <<items, spent, required, delivered, rewarded, closing>>

\* Mutant: the DELETE spares the rows that recorded a delivery.
DeleteUndelivered(i) ==
  /\ items' = items \ {i}
  /\ required' = [required EXCEPT ![i] = 0]
  /\ rows' = {x \in rows : x[1] = i => delivered[i][x[2]] > 0}
  /\ UNCHANGED <<spent, reserved, delivered, rewarded, closing>>

\* DELETE of the item's reservations, then of the item.
Delete(i) ==
  /\ items' = items \ {i}
  /\ required' = [required EXCEPT ![i] = 0]
  /\ rows' = rows \ ({i} \X Users)
  /\ reserved' = [reserved EXCEPT ![i] = Nothing]
  /\ delivered' = [delivered EXCEPT ![i] = Nothing]
  /\ UNCHANGED <<spent, rewarded, closing>>

WriteItem(o) ==
  LET i == o.item
  IN \/ /\ o.kind = "add"
        /\ items' = items \cup {i} /\ spent' = spent \cup {i}
        /\ required' = [required EXCEPT ![i] = o.qty]
        /\ UNCHANGED <<rows, reserved, delivered, rewarded, closing>>
     \/ /\ o.kind = "update"
        /\ required' = IF i \in items THEN [required EXCEPT ![i] = o.qty] ELSE required
        /\ UNCHANGED <<items, spent, rows, reserved, delivered, rewarded, closing>>
     \/ o.kind = "remove" /\ Delete(i)

WriteRow(o, v) ==
  LET i == o.item
      u == o.user
  IN \/ /\ o.kind = "participate"
        /\ rows' = rows \cup {<<i, u>>}
        /\ reserved' = [reserved EXCEPT ![i][u] = @ + o.qty]
        /\ UNCHANGED <<items, spent, required, delivered, rewarded, closing>>
     \/ o.kind = "release" /\ Put(i, u, v.reserved[u] - o.qty, v.delivered[u])
     \/ o.kind = "set" /\ Put(i, u, o.qty, v.delivered[u])
     \/ /\ o.kind = "drop"
        /\ rows' = rows \ {<<i, u>>}
        /\ reserved' = [reserved EXCEPT ![i][u] = 0]
        /\ delivered' = [delivered EXCEPT ![i][u] = 0]
        /\ UNCHANGED <<items, spent, required, rewarded, closing>>
     \/ /\ o.kind = "deliver"
        /\ delivered' = [delivered EXCEPT ![i][u] = @ + o.qty]
        /\ Finish(delivered')
        /\ UNCHANGED <<items, spent, required, rows, reserved, rewarded>>

WriteContract(o) ==
  \/ o.kind = "reward" /\ rewarded' = ~rewarded /\ UNCHANGED <<quantities, closing>>
  \/ o.kind = "deadline" /\ UNCHANGED ledger
  \/ /\ o.kind \in {"cancel", "expire"}
     /\ status' = IF o.kind = "cancel" THEN "cancelled" ELSE "expired"
     /\ closes' = closes + 1
     /\ UNCHANGED <<quantities, rewarded, payouts>>

\* A new deadline is in the future of everybody who has captured the time.
Write(c) ==
  /\ pc[c] = "checked"
  /\ WriteItem(op[c]) \/ WriteRow(op[c], view[c]) \/ WriteContract(op[c])
  /\ IF op[c].kind = "deadline"
     THEN overdue' = FALSE /\ late' = [d \in Clients |-> FALSE]
     ELSE overdue' = overdue /\ late' = [late EXCEPT ![c] = FALSE]
  /\ holders' = holders \ {c}
  /\ Done(c)

\* A statement or the commit fails, or the interaction's context ends.
RollBack(c) ==
  /\ pc[c] \in {"loaded", "waiting", "locked", "checked"}
  /\ holders' = holders \ {c}
  /\ Done(c) /\ late' = [late EXCEPT ![c] = FALSE]
  /\ UNCHANGED <<ledger, overdue>>

DeadlinePasses ==
  /\ status = "open" /\ ~overdue
  /\ overdue' = TRUE
  /\ UNCHANGED <<ledger, holders, pc, op, late, view>>

TxStep(c) ==
  \/ Acquire(c) \/ Refused(c) \/ Check(c) \/ Rejected(c) \/ Write(c) \/ OfficerSets(c)

TxNext ==
  \/ \E c \in Clients : Begin(c) \/ OfficerLoads(c) \/ TxStep(c) \/ RollBack(c)
  \/ DeadlinePasses

TxSpec == TxInit /\ [][TxNext]_txVars

-----------------------------------------------------------------------------
(* Properties.                                                             *)

\* The interleaved transactions do what the ledger's atomic operations do, one
\* at a time: every step of one is a step of ContractLedger or none.
ActsAtomically == Spec

\* What a transaction read under the lock is still so when it writes.
ReadsAreCurrent ==
  \A c \in Clients :
    pc[c] = "checked" =>
      /\ Passes(op[c])
      /\ view[c] = [reserved |-> reserved[op[c].item], delivered |-> delivered[op[c].item]]

\* "the absolute value handed to the repository is correct"
\* (participant_modal.go:174-176): an officer who sets the outstanding quantity
\* of a member leaves the member with that much outstanding.
SetsWhatWasAsked ==
  [][\A c \in Clients :
       Write(c) /\ op[c].kind = "set" =>
         LET i == op[c].item
             u == op[c].user
         IN reserved'[i][u] - delivered'[i][u] = op[c].out]_txVars
=============================================================================
