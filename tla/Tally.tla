------------------------------- MODULE Tally -------------------------------
(***************************************************************************)
(* SUM(quantity) over the members' rows on one item, as the repositories   *)
(* of contracts and supply orders compute it in SQL.                       *)
(***************************************************************************)
EXTENDS Integers, FiniteSets, Functions

CONSTANTS
  Users,   \* the members
  MaxQty   \* the largest quantity a modal's input takes

ASSUME TallyAssumption ==
  /\ IsFiniteSet(Users)
  /\ MaxQty \in Nat \ {0}

Qty == 1 .. MaxQty

\* A quantity for each member.
Shares == [Users -> 0 .. MaxQty]
Nothing == [u \in Users |-> 0]

\* The units f allots, one by one: counting them sums f without recursion.
Units(f) == {x \in Users \X Qty : x[2] <= f[x[1]]}
Total(f) == Cardinality(Units(f))

\* The same sum of any numbers, as payout.go adds values and amounts.
Sum(f) == FoldFunction(LAMBDA x, y : x + y, 0, f)
=============================================================================
