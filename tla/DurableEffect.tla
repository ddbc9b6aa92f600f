---------------------------- MODULE DurableEffect ----------------------------
(***************************************************************************)
(* What the outbox promises a feature, without the queue: a committed      *)
(* change of a group's domain state owes that group an effect, the debt    *)
(* survives anything that happens to the process, and it is only written   *)
(* off when the effect reflects the latest committed state or when the     *)
(* group is given up on (a task of it was abandoned, loudly).              *)
(***************************************************************************)
EXTENDS Integers

CONSTANT Groups

VARIABLES
  version,  \* version[g]: committed changes of the state behind g
  effect,   \* effect[g]: the version the last effect of g reflected
  owed,     \* owed[g]: an effect of g is still to be performed
  gaveUp    \* the groups whose last settled task was abandoned

vars == <<version, effect, owed, gaveUp>>

Init ==
  /\ version = [g \in Groups |-> 0]
  /\ effect = [g \in Groups |-> 0]
  /\ owed = [g \in Groups |-> FALSE]
  /\ gaveUp = {}

Change(g) ==
  /\ version' = [version EXCEPT ![g] = @ + 1]
  /\ owed' = [owed EXCEPT ![g] = TRUE]
  /\ UNCHANGED <<effect, gaveUp>>

\* An effect never goes back to a state older than one already shown.
Perform(g) ==
  /\ owed[g]
  /\ \E v \in effect[g] .. version[g] : effect' = [effect EXCEPT ![g] = v]
  /\ UNCHANGED <<version, owed, gaveUp>>

\* A run succeeded.  The debt stays if a later change is still owed its effect.
Settle(g) ==
  /\ owed[g]
  /\ \/ owed' = owed
     \/ effect[g] = version[g] /\ owed' = [owed EXCEPT ![g] = FALSE]
  /\ gaveUp' = gaveUp \ {g}
  /\ UNCHANGED <<version, effect>>

GiveUp(g) ==
  /\ owed[g]
  /\ \E b \in BOOLEAN : owed' = [owed EXCEPT ![g] = b]
  /\ gaveUp' = gaveUp \cup {g}
  /\ UNCHANGED <<version, effect>>

Next == \E g \in Groups : Change(g) \/ Perform(g) \/ Settle(g) \/ GiveUp(g)

Spec == Init /\ [][Next]_vars

\* A group that shows something older than its committed state is either owed
\* an effect or was given up on: no change is silently lost.
NoLostChange ==
  \A g \in Groups : effect[g] # version[g] => owed[g] \/ g \in gaveUp
=============================================================================
