------------------------------- MODULE Outbox -------------------------------
(***************************************************************************)
(* The transactional outbox: the outbox_tasks table, the Enqueuer that     *)
(* inserts into it on a caller's transaction, and the single background    *)
(* Worker that scans it (internal/outbox).  A task row belongs to a        *)
(* collapsing group, its (kind, chronometric_id) pair; every caller in the *)
(* repository passes a chronometric id, so the NULL case (a group of the   *)
(* row's own) does not arise.                                              *)
(*                                                                         *)
(* Task ids are UUIDv7s drawn before the transaction commits, so they      *)
(* order the inserts, not the commits.  Here they are 1, 2, 3, ...         *)
(***************************************************************************)
EXTENDS Integers, FiniteSets

CONSTANTS
  Groups,       \* the (kind, chronometric_id) pairs
  Handled,      \* the groups whose kind has a registered Handler
  BatchSize,    \* Config.BatchSize: rows one tick takes
  MaxAttempts,  \* Config.MaxAttempts: failures before a task is abandoned
  MaxTasks,     \* bound of the model: rows ever inserted
  MaxFaults     \* bound of the model: crashes and failed status updates

ASSUME OutboxAssumption ==
  /\ Groups # {}
  /\ Handled \subseteq Groups
  /\ BatchSize \in Nat \ {0}
  /\ MaxAttempts \in Nat \ {0}
  /\ MaxTasks \in Nat
  /\ MaxFaults \in Nat

VARIABLES
  rows,    \* rows[i]: the outbox_tasks row with id i, if it exists
  issued,  \* ids drawn so far
  batch,   \* the rest of the due list of the tick in progress
  run,     \* the task whose handler is running, and whether its effect landed
  faults   \* crashes and failed status updates so far

outboxVars == <<rows, issued, batch, run, faults>>

TaskId == 1 .. MaxTasks
NoTask == 0
Idle == [task |-> NoTask, landed |-> FALSE]

\* "none": no row (not inserted, rolled back or purged); "open": inserted by a
\* transaction that has not committed, invisible to the worker.
RowStatus == {"none", "open", "pending", "done", "failed"}

Row == [group : Groups, status : RowStatus, attempts : 0 .. MaxAttempts,
        due : BOOLEAN]

OutboxTypeOK ==
  /\ rows \in [TaskId -> Row]
  /\ issued \in 0 .. MaxTasks
  /\ batch \in SUBSET TaskId
  /\ run \in [task : TaskId \cup {NoTask}, landed : BOOLEAN]
  /\ faults \in 0 .. MaxFaults

NoRow == [group |-> CHOOSE g \in Groups : TRUE, status |-> "none",
          attempts |-> 0, due |-> FALSE]

OutboxInit ==
  /\ rows = [i \in TaskId |-> NoRow]
  /\ issued = 0
  /\ batch = {}
  /\ run = Idle
  /\ faults = 0

-----------------------------------------------------------------------------
(* The producers' side.                                                    *)

Pending(i) == rows[i].status = "pending"
HasPending(g) == \E i \in TaskId : Pending(i) /\ rows[i].group = g

\* The table after one more INSERT of a row of group g.
Inserted(g, status) ==
  [rows EXCEPT ![issued + 1] =
     [group |-> g, status |-> status, attempts |-> 0, due |-> TRUE]]

\* Enqueue on a transaction that stays open.
Insert(g) ==
  /\ issued < MaxTasks
  /\ rows' = Inserted(g, "open")
  /\ issued' = issued + 1
  /\ UNCHANGED <<batch, run, faults>>

Commit(i) ==
  /\ rows[i].status = "open"
  /\ rows' = [rows EXCEPT ![i].status = "pending"]
  /\ UNCHANGED <<issued, batch, run, faults>>

Rollback(i) ==
  /\ rows[i].status = "open"
  /\ rows' = [rows EXCEPT ![i] = NoRow]
  /\ UNCHANGED <<issued, batch, run, faults>>

-----------------------------------------------------------------------------
(* The worker.                                                             *)

Due == {i \in TaskId : Pending(i) /\ rows[i].due}

\* SELECT ... ORDER BY id LIMIT BatchSize
OldestDue == {i \in Due : Cardinality({j \in Due : j < i}) < BatchSize}

\* The id the loop over the batch looks at next.
Next1(S) == CHOOSE i \in S : \A j \in S : i <= j

\* newest[group] == id: the batch is in id order, so no later one of its group.
IsNewest(i) == \A j \in batch : rows[j].group = rows[i].group => j <= i

\* A tick's scan.
ScanDue ==
  /\ run = Idle /\ batch = {} /\ Due # {}
  /\ batch' = OldestDue
  /\ UNCHANGED <<rows, issued, run, faults>>

Turn(i) == run = Idle /\ i \in batch /\ i = Next1(batch)

\* An older task of a group is retired without running.
MarkSuperseded(i) ==
  /\ Turn(i) /\ ~IsNewest(i)
  /\ rows' = [rows EXCEPT ![i].status = "done"]
  /\ batch' = batch \ {i}
  /\ UNCHANGED <<issued, run, faults>>

\* The UPDATE that retires an older task, or abandons one that no handler
\* takes, fails: logged, and the row stays pending.
SettleLost(i) ==
  /\ Turn(i) /\ faults < MaxFaults
  /\ ~IsNewest(i) \/ rows[i].group \notin Handled
  /\ batch' = batch \ {i}
  /\ faults' = faults + 1
  /\ UNCHANGED <<rows, issued, run>>

\* No handler for the kind: abandoned, attempts as they were.
NoHandler(i) ==
  /\ Turn(i) /\ IsNewest(i) /\ rows[i].group \notin Handled
  /\ rows' = [rows EXCEPT ![i].status = "failed"]
  /\ batch' = batch \ {i}
  /\ UNCHANGED <<issued, run, faults>>

\* The newest of its group: the handler starts.
Begin(i) ==
  /\ Turn(i) /\ IsNewest(i) /\ rows[i].group \in Handled
  /\ run' = [task |-> i, landed |-> FALSE]
  /\ batch' = batch \ {i}
  /\ UNCHANGED <<rows, issued, faults>>

\* The handler's external effect takes place.
Land ==
  /\ run.task # NoTask /\ ~run.landed
  /\ run' = [run EXCEPT !.landed = TRUE]
  /\ UNCHANGED <<rows, issued, batch, faults>>

\* Mutant: the task is acknowledged as soon as its handler starts.
MarkDoneEarly ==
  /\ run.task # NoTask
  /\ rows' = [rows EXCEPT ![run.task].status = "done"]
  /\ run' = Idle
  /\ UNCHANGED <<issued, batch, faults>>

\* Mutant: the acknowledgement covers every waiting task of the group.
MarkGroupDone ==
  /\ run.task # NoTask /\ run.landed
  /\ rows' = [i \in TaskId |->
                IF Pending(i) /\ rows[i].group = rows[run.task].group
                THEN [rows[i] EXCEPT !.status = "done"] ELSE rows[i]]
  /\ run' = Idle
  /\ UNCHANGED <<issued, batch, faults>>

\* The handler returned nil.
MarkDone ==
  /\ run.task # NoTask /\ run.landed
  /\ rows' = [rows EXCEPT ![run.task].status = "done"]
  /\ run' = Idle
  /\ UNCHANGED <<issued, batch, faults>>

\* Mutant: one attempt too many.
MarkRetryOnceMore ==
  /\ run.task # NoTask
  /\ rows[run.task].attempts + 1 <= MaxAttempts
  /\ rows' = [rows EXCEPT ![run.task].attempts = @ + 1, ![run.task].due = FALSE]
  /\ run' = Idle
  /\ UNCHANGED <<issued, batch, faults>>

\* Mutant: no attempt is the last.
MarkRetryForEver ==
  /\ run.task # NoTask
  /\ rows' = [rows EXCEPT ![run.task].attempts = @ + 1, ![run.task].due = FALSE]
  /\ run' = Idle
  /\ UNCHANGED <<issued, batch, faults>>

\* Mutant: the failed attempt is not counted.
MarkRetryUncounted ==
  /\ run.task # NoTask
  /\ rows[run.task].attempts + 1 < MaxAttempts
  /\ rows' = [rows EXCEPT ![run.task].due = FALSE]
  /\ run' = Idle
  /\ UNCHANGED <<issued, batch, faults>>

\* The handler failed (an error, a panic or the end of its context, before or
\* after its effect landed) and has attempts left: rescheduled after a backoff.
MarkRetry ==
  /\ run.task # NoTask
  /\ rows[run.task].attempts + 1 < MaxAttempts
  /\ rows' = [rows EXCEPT ![run.task].attempts = @ + 1, ![run.task].due = FALSE]
  /\ run' = Idle
  /\ UNCHANGED <<issued, batch, faults>>

\* The handler failed for good: a Permanent error, or its last attempt.
MarkFailed ==
  /\ run.task # NoTask
  /\ rows' = [rows EXCEPT ![run.task].attempts = @ + 1,
                          ![run.task].status = "failed"]
  /\ run' = Idle
  /\ UNCHANGED <<issued, batch, faults>>

\* The UPDATE that records the outcome fails: logged, and the row stays as it
\* was, pending and due.
MarkLost ==
  /\ run.task # NoTask /\ faults < MaxFaults
  /\ run' = Idle
  /\ faults' = faults + 1
  /\ UNCHANGED <<rows, issued, batch>>

\* The process dies, or Stop cancels the worker's context: the tick is
\* abandoned, and open transactions roll back.
Crash ==
  /\ faults < MaxFaults
  /\ faults' = faults + 1
  /\ batch' = {} /\ run' = Idle
  /\ rows' = [i \in TaskId |-> IF rows[i].status = "open" THEN NoRow ELSE rows[i]]
  /\ UNCHANGED issued

\* next_try_at arrives.
BackoffElapses(i) ==
  /\ Pending(i) /\ ~rows[i].due
  /\ rows' = [rows EXCEPT ![i].due = TRUE]
  /\ UNCHANGED <<issued, batch, run, faults>>

\* The cleanup tick, between two polls: it deletes the terminal rows past their
\* retention.  Their age is abstracted: any of them may be old enough.
Cleanup ==
  /\ run = Idle /\ batch = {}
  /\ \E S \in SUBSET {i \in TaskId : rows[i].status \in {"done", "failed"}} :
       /\ S # {}
       /\ rows' = [i \in TaskId |-> IF i \in S THEN NoRow ELSE rows[i]]
  /\ UNCHANGED <<issued, batch, run, faults>>
=============================================================================
