--------------------------- MODULE OutboxDelivery ---------------------------
(***************************************************************************)
(* The outbox with features on both sides of it: transactions that change  *)
(* the state behind a group and enqueue its task, and the handlers the     *)
(* package asks for ("tasks whose Payload is reconstructable from current  *)
(* state (the handler re-reads it)", internal/outbox/outbox.go:75-82).     *)
(*                                                                         *)
(* Several transactions of one group may be open at once, and commit in an *)
(* order other than that of their task ids.                                *)
(***************************************************************************)
EXTENDS Outbox

VARIABLES
  version,  \* version[g]: committed changes of the state behind g
  effect,   \* effect[g]: the version the last effect of g reflected
  seen,     \* the version the running handler read
  gaveUp    \* the groups whose last settled task was abandoned

vars == <<rows, issued, batch, run, faults, version, effect, seen, gaveUp>>

domainVars == <<version, effect, seen, gaveUp>>

TypeOK ==
  /\ OutboxTypeOK
  /\ version \in [Groups -> Nat]
  /\ effect \in [Groups -> Nat]
  /\ seen \in Nat
  /\ gaveUp \in SUBSET Groups

Init ==
  /\ OutboxInit
  /\ version = [g \in Groups |-> 0]
  /\ effect = [g \in Groups |-> 0]
  /\ seen = 0
  /\ gaveUp = {}

Running == rows[run.task].group

-----------------------------------------------------------------------------
(* The producers.                                                          *)

Enqueue(g) == Insert(g) /\ UNCHANGED domainVars

\* Mutant: a task is not inserted while another of its group is waiting, the
\* one whose handler runs included.
CommitCoalesced(i) ==
  /\ IF HasPending(rows[i].group) THEN Rollback(i) ELSE Commit(i)
  /\ version' = [version EXCEPT ![rows[i].group] = @ + 1]
  /\ UNCHANGED <<effect, seen, gaveUp>>

\* The domain write and the task row become visible together.
CommitChange(i) ==
  /\ Commit(i)
  /\ version' = [version EXCEPT ![rows[i].group] = @ + 1]
  /\ UNCHANGED <<effect, seen, gaveUp>>

RollbackChange(i) == Rollback(i) /\ UNCHANGED domainVars

-----------------------------------------------------------------------------
(* The worker and the handlers.                                            *)

Tick == ScanDue /\ UNCHANGED domainVars

Supersede(i) == MarkSuperseded(i) /\ UNCHANGED domainVars

Unsettled(i) == SettleLost(i) /\ UNCHANGED domainVars

Unhandled(i) ==
  /\ NoHandler(i)
  /\ gaveUp' = gaveUp \cup {rows[i].group}
  /\ UNCHANGED <<version, effect, seen>>

\* Mutant: the handler works from the payload, a state as old as the task.
HandlerTrustsPayload(i) ==
  /\ Begin(i)
  /\ seen' \in 0 .. version[rows[i].group]
  /\ UNCHANGED <<version, effect, gaveUp>>

\* The handler starts by reading the current state.
HandlerReads(i) ==
  /\ Begin(i)
  /\ seen' = version[rows[i].group]
  /\ UNCHANGED <<version, effect, gaveUp>>

HandlerActs ==
  /\ Land
  /\ effect' = [effect EXCEPT ![Running] = seen]
  /\ UNCHANGED <<version, seen, gaveUp>>

Succeed ==
  /\ MarkDone
  /\ gaveUp' = gaveUp \ {Running}
  /\ UNCHANGED <<version, effect, seen>>

Retry == MarkRetry /\ UNCHANGED domainVars

Abandon ==
  /\ MarkFailed
  /\ gaveUp' = gaveUp \cup {Running}
  /\ UNCHANGED <<version, effect, seen>>

OutcomeLost == MarkLost /\ UNCHANGED domainVars

Restart == Crash /\ UNCHANGED domainVars

BackoffOver(i) == BackoffElapses(i) /\ UNCHANGED domainVars

Purge == Cleanup /\ UNCHANGED domainVars

WorkerStep ==
  \/ Tick
  \/ \E i \in TaskId : Supersede(i) \/ Unsettled(i) \/ Unhandled(i) \/ HandlerReads(i)
  \/ HandlerActs \/ Succeed \/ Retry \/ Abandon \/ OutcomeLost

Next ==
  \/ \E g \in Groups : Enqueue(g)
  \/ \E i \in TaskId : CommitChange(i) \/ RollbackChange(i) \/ BackoffOver(i)
  \/ WorkerStep
  \/ Restart
  \/ Purge

Spec == Init /\ [][Next]_vars

\* The loop keeps polling, every handler ends (its statements with the task's
\* context after taskTimeout, its Discord calls with the client's own timeout),
\* and next_try_at arrives.
Fairness ==
  /\ WF_vars(WorkerStep)
  /\ \A i \in TaskId : WF_vars(BackoffOver(i))

FairSpec == Spec /\ Fairness

-----------------------------------------------------------------------------
(* Properties.                                                             *)

\* A group that shows an older state than the committed one has a task waiting
\* or was given up on.  This is what collapsing (only the newest task of a
\* group runs), purging and restarting must not break.
NoLostUpdate ==
  \A g \in Groups : effect[g] # version[g] => HasPending(g) \/ g \in gaveUp

\* A waiting task has attempts left, so a failing handler is not retried for
\* ever (a lost status update does not count as an attempt).
RetriesBounded ==
  \A i \in TaskId : Pending(i) => rows[i].attempts < MaxAttempts

\* An effect never goes back to an older state than the one already shown.
EffectMonotone == [][\A g \in Groups : effect'[g] >= effect[g]]_vars

\* Each waiting task is settled in the end...
TasksSettle == \A i \in TaskId : Pending(i) ~> ~Pending(i)

\* ...and each group ends up showing its committed state, or given up on.
Converges ==
  \A g \in Groups : <>[](effect[g] = version[g] \/ g \in gaveUp)

\* What makes NoLostUpdate inductive.  The tick's list and the running task are
\* still waiting in the table (there is one worker and it holds no stale list);
\* a change the running handler did not see has a task of its own; no id is
\* reused; and what the handler read lies between effect and committed state.
WorkerOwnsBatch ==
  /\ \A i \in batch : Pending(i)
  /\ run.task # NoTask => Pending(run.task) /\ run.task \notin batch

UnseenChangeWaits ==
  run.task # NoTask =>
    \/ seen = version[Running]
    \/ \E j \in TaskId : j # run.task /\ Pending(j) /\ rows[j].group = Running

FreshIds == \A i \in TaskId : i > issued => rows[i].status = "none"

EffectWithinReach ==
  /\ \A g \in Groups : effect[g] <= version[g]
  /\ run.task # NoTask =>
       /\ effect[Running] <= seen /\ seen <= version[Running]
       /\ run.landed => effect[Running] = seen

NewRowsUntried == \A i \in TaskId : rows[i].status = "open" => rows[i].attempts = 0

IInv ==
  /\ WorkerOwnsBatch
  /\ UnseenChangeWaits
  /\ FreshIds
  /\ EffectWithinReach
  /\ NewRowsUntried
  /\ NoLostUpdate
  /\ RetriesBounded

\* The queue implements the promise that knows nothing of queues.
Promise == INSTANCE DurableEffect
             WITH owed <- [g \in Groups |-> HasPending(g)]
KeepsPromise == Promise!Spec
=============================================================================
