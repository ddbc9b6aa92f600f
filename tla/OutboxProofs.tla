---------------------------- MODULE OutboxProofs ----------------------------
(***************************************************************************)
(* Proofs about OutboxDelivery, for every set of groups, batch size, retry *)
(* limit and number of tasks and faults: no committed change is silently   *)
(* lost, retries are bounded, effects never go back, and the queue         *)
(* implements DurableEffect.                                               *)
(***************************************************************************)
EXTENDS OutboxDelivery, TLAPS

Inv == TypeOK /\ IInv

USE DEF TaskId, NoTask, Pending, HasPending, Running

LEMMA NoRowIsRow ==
  /\ NoRow \in Row
  /\ NoRow.status = "none" /\ NoRow.attempts = 0
BY OutboxAssumption DEF NoRow, Row, RowStatus

LEMMA InitInv == Init => Inv
<1> SUFFICES ASSUME Init PROVE Inv
  OBVIOUS
<1> USE DEF Init, OutboxInit
<1>1. TypeOK
  BY NoRowIsRow, OutboxAssumption DEF TypeOK, OutboxTypeOK, Idle
<1>2. \A i \in TaskId : rows[i].status = "none"
  BY NoRowIsRow
<1>3. IInv
  BY <1>2 DEF IInv, WorkerOwnsBatch, UnseenChangeWaits, FreshIds,
     EffectWithinReach, NewRowsUntried, NoLostUpdate, RetriesBounded, Idle
<1> QED BY <1>1, <1>3 DEF Inv

-----------------------------------------------------------------------------
(* The producers' steps.                                                   *)

LEMMA EnqueueInv == ASSUME Inv, NEW g \in Groups, Enqueue(g) PROVE Inv'
<1> DEFINE row == [group |-> g, status |-> "open", attempts |-> 0, due |-> TRUE]
<1>1. /\ rows \in [TaskId -> Row] /\ issued \in 0 .. MaxTasks
      /\ \A i \in TaskId : i > issued => rows[i].status = "none"
  BY DEF Inv, TypeOK, OutboxTypeOK, IInv, FreshIds
<1>2. /\ issued < MaxTasks /\ issued' = issued + 1
      /\ rows' = [rows EXCEPT ![issued + 1] = row]
      /\ UNCHANGED <<batch, run, faults, version, effect, seen, gaveUp>>
  BY DEF Enqueue, Insert, Inserted, domainVars
<1>3. row \in Row /\ row.status = "open" /\ row.attempts = 0
  BY OutboxAssumption DEF Row, RowStatus
<1>4. PICK n \in TaskId : /\ n = issued + 1 /\ rows[n].status = "none" /\ rows'[n] = row
                         /\ \A i \in TaskId : i # n => rows'[i] = rows[i]
  BY <1>1, <1>2, OutboxAssumption
<1> HIDE DEF row
<1>5. TypeOK'
  <2>1. rows' \in [TaskId -> Row] /\ issued' \in 0 .. MaxTasks
    BY <1>1, <1>2, <1>3, OutboxAssumption
  <2> QED BY <2>1, <1>2 DEF Inv, TypeOK, OutboxTypeOK
<1>6. \A i \in TaskId : /\ Pending(i)' <=> Pending(i)
                        /\ Pending(i) => rows'[i] = rows[i]
  BY <1>3, <1>4
<1>7. IInv'
  <2>1. WorkerOwnsBatch' /\ RetriesBounded' /\ NoLostUpdate'
    BY <1>2, <1>6 DEF Inv, TypeOK, OutboxTypeOK, IInv, WorkerOwnsBatch, RetriesBounded,
       NoLostUpdate
  <2>2. run.task # NoTask => run.task \in TaskId /\ Pending(run.task) /\ Running' = Running
    BY <1>2, <1>6 DEF Inv, TypeOK, OutboxTypeOK, IInv, WorkerOwnsBatch
  <2>3. UnseenChangeWaits' /\ EffectWithinReach'
    BY <1>2, <1>6, <2>2 DEF Inv, IInv, UnseenChangeWaits, EffectWithinReach
  <2>4. FreshIds' /\ NewRowsUntried'
    BY <1>1, <1>2, <1>3, <1>4 DEF Inv, IInv, FreshIds, NewRowsUntried
  <2> QED BY <2>1, <2>3, <2>4 DEF IInv
<1> QED BY <1>5, <1>7 DEF Inv

\* The only step that makes an effect stale is the one that makes its task wait.
LEMMA CommitInv == ASSUME Inv, NEW i \in TaskId, CommitChange(i) PROVE Inv'
<1> USE DEF Inv, CommitChange, Commit
<1> DEFINE g == rows[i].group
<1>1. /\ g \in Groups
      /\ rows' = [rows EXCEPT ![i].status = "pending"]
      /\ rows'[i].status = "pending" /\ rows'[i].group = g /\ rows'[i].attempts = 0
      /\ \A j \in TaskId : j # i => rows'[j] = rows[j]
  BY DEF TypeOK, OutboxTypeOK, Row, IInv, NewRowsUntried
<1>2. TypeOK'
  <2>0. rows[i] \in Row /\ rows'[i] = [rows[i] EXCEPT !.status = "pending"]
    BY <1>1 DEF TypeOK, OutboxTypeOK
  <2>1. rows'[i] \in Row
    BY <2>0 DEF Row, RowStatus
  <2> QED BY <1>1, <2>1 DEF TypeOK, OutboxTypeOK
<1>3. \A j \in TaskId : Pending(j) => j # i /\ Pending(j)' /\ rows'[j] = rows[j]
  BY <1>1
<1>4. run.task # NoTask => run.task # i /\ Running' = Running
  BY <1>1 DEF TypeOK, OutboxTypeOK, IInv, WorkerOwnsBatch
<1>5. version' = [version EXCEPT ![g] = @ + 1] /\ version \in [Groups -> Nat]
  BY DEF TypeOK
<1>6. IInv'
  <2>1. WorkerOwnsBatch'
    BY <1>3 DEF TypeOK, OutboxTypeOK, IInv, WorkerOwnsBatch
  <2>2. UnseenChangeWaits'
    <3> SUFFICES ASSUME run.task # NoTask
                 PROVE  \/ seen = version'[Running]
                        \/ \E j \in TaskId : /\ j # run.task /\ Pending(j)'
                                             /\ rows'[j].group = Running
      BY <1>4 DEF UnseenChangeWaits
    <3>1. CASE Running = g
      BY <3>1, <1>1, <1>4
    <3>2. CASE Running # g
      BY <3>2, <1>3, <1>5 DEF TypeOK, OutboxTypeOK, Row, IInv, UnseenChangeWaits
    <3> QED BY <3>1, <3>2
  <2>3. FreshIds' /\ NewRowsUntried' /\ RetriesBounded'
    BY <1>1, OutboxAssumption DEF IInv, FreshIds, NewRowsUntried, RetriesBounded
  <2>4. EffectWithinReach'
    BY <1>1, <1>4, <1>5
       DEF TypeOK, OutboxTypeOK, Row, IInv, WorkerOwnsBatch, EffectWithinReach
  <2>5. NoLostUpdate'
    <3> SUFFICES ASSUME NEW h \in Groups, effect[h] # version'[h]
                 PROVE  HasPending(h)' \/ h \in gaveUp
      BY DEF NoLostUpdate
    <3>1. CASE h = g
      BY <3>1, <1>1
    <3>2. CASE h # g
      BY <3>2, <1>3, <1>5 DEF IInv, NoLostUpdate
    <3> QED BY <3>1, <3>2
  <2> QED BY <2>1, <2>2, <2>3, <2>4, <2>5 DEF IInv
<1> QED BY <1>2, <1>6

-----------------------------------------------------------------------------
(* Steps that leave every waiting row, the running task and the domain     *)
(* state as they are: a scan, a restart, a purge, a rollback, a backoff    *)
(* that ends, a lost status update.                                        *)

QuietStep ==
  /\ TypeOK'
  /\ UNCHANGED domainVars
  /\ issued' = issued
  /\ run' = run \/ run' = Idle
  /\ \A i \in TaskId :
       /\ Pending(i) <=> Pending(i)'
       /\ Pending(i) => /\ rows'[i].group = rows[i].group
                        /\ rows'[i].attempts = rows[i].attempts
       /\ ~Pending(i) => rows'[i] \in {rows[i], NoRow}
  /\ \A i \in batch' : Pending(i)'
  /\ run' = run /\ run.task # NoTask => run.task \notin batch'

LEMMA QuietInv == ASSUME Inv, QuietStep PROVE Inv'
<1> USE DEF Inv, domainVars, QuietStep
<1>1. WorkerOwnsBatch' /\ RetriesBounded' /\ NoLostUpdate'
  <2>1. WorkerOwnsBatch'
    BY DEF IInv, TypeOK, OutboxTypeOK, WorkerOwnsBatch, Idle
  <2>2. RetriesBounded'
    BY DEF IInv, RetriesBounded
  <2>3. NoLostUpdate'
    BY DEF IInv, NoLostUpdate
  <2> QED BY <2>1, <2>2, <2>3
<1>2. UnseenChangeWaits' /\ EffectWithinReach'
  <2>1. CASE run' = Idle
    BY <2>1 DEF IInv, UnseenChangeWaits, EffectWithinReach, Idle
  <2>2. CASE run' = run
    <3>1. run.task # NoTask => Pending(run.task) /\ run.task \in TaskId /\ Running' = Running
      BY <2>2 DEF IInv, WorkerOwnsBatch, TypeOK, OutboxTypeOK
    <3> QED BY <2>2, <3>1 DEF IInv, UnseenChangeWaits, EffectWithinReach
  <2> QED BY <2>1, <2>2
<1>3. FreshIds' /\ NewRowsUntried'
  BY NoRowIsRow DEF IInv, FreshIds, NewRowsUntried
<1> QED BY <1>1, <1>2, <1>3 DEF IInv

LEMMA QuietStepsInv ==
  ASSUME Inv,
         \/ Tick \/ Restart \/ Purge \/ OutcomeLost
         \/ \E i \in TaskId : RollbackChange(i) \/ BackoffOver(i)
         \/ \E i \in TaskId : Unsettled(i)
         \/ UNCHANGED vars
  PROVE  Inv'
<1>1. /\ rows \in [TaskId -> Row] /\ batch \subseteq TaskId
      /\ issued \in 0 .. MaxTasks /\ faults \in 0 .. MaxFaults
      /\ run \in [task : TaskId \cup {NoTask}, landed : BOOLEAN]
      /\ \A i \in batch : Pending(i)
      /\ run.task # NoTask => run.task \notin batch
  BY DEF Inv, TypeOK, OutboxTypeOK, IInv, WorkerOwnsBatch
<1>2. /\ \A i \in TaskId : rows[i] \in Row
      /\ version \in [Groups -> Nat] /\ effect \in [Groups -> Nat]
      /\ seen \in Nat /\ gaveUp \in SUBSET Groups
  BY <1>1 DEF Inv, TypeOK
<1> USE DEF QuietStep, domainVars, TypeOK, OutboxTypeOK, Idle
<1>3. CASE Tick
  BY <1>1, <1>2, <1>3, QuietInv DEF Tick, ScanDue, OldestDue, Due
<1>4. CASE Restart
  <2>1. /\ rows' = [i \in TaskId |-> IF rows[i].status = "open" THEN NoRow ELSE rows[i]]
        /\ batch' = {} /\ run' = Idle /\ faults' \in 0 .. MaxFaults
        /\ UNCHANGED <<issued, version, effect, seen, gaveUp>>
    BY <1>1, <1>4, OutboxAssumption DEF Restart, Crash
  <2>2. QuietStep
    BY <1>1, <1>2, <2>1, NoRowIsRow
  <2> QED BY <2>2, QuietInv
<1>5. CASE Purge
  <2>1. PICK S \in SUBSET {i \in TaskId : rows[i].status \in {"done", "failed"}} :
          rows' = [i \in TaskId |-> IF i \in S THEN NoRow ELSE rows[i]]
    BY <1>5 DEF Purge, Cleanup
  <2>2. UNCHANGED <<batch, run, faults, issued, version, effect, seen, gaveUp>>
    BY <1>5 DEF Purge, Cleanup
  <2>3. QuietStep
    BY <1>1, <1>2, <2>1, <2>2, NoRowIsRow
  <2> QED BY <2>3, QuietInv
<1>6. CASE OutcomeLost
  <2>1. /\ run' = Idle /\ faults' \in 0 .. MaxFaults
        /\ UNCHANGED <<rows, batch, issued, version, effect, seen, gaveUp>>
    BY <1>1, <1>6, OutboxAssumption DEF OutcomeLost, MarkLost
  <2>2. QuietStep
    BY <1>1, <1>2, <2>1
  <2> QED BY <2>2, QuietInv
<1>7. ASSUME NEW i \in TaskId, RollbackChange(i) PROVE Inv'
  <2>1. QuietStep
    BY <1>1, <1>2, <1>7, NoRowIsRow DEF RollbackChange, Rollback
  <2> QED BY <2>1, QuietInv
<1>8. ASSUME NEW i \in TaskId, BackoffOver(i) PROVE Inv'
  <2>1. /\ Pending(i) /\ rows' = [rows EXCEPT ![i].due = TRUE]
        /\ UNCHANGED <<batch, run, faults, issued, version, effect, seen, gaveUp>>
    BY <1>8 DEF BackoffOver, BackoffElapses
  <2>2. rows'[i] = [rows[i] EXCEPT !.due = TRUE] /\ rows'[i] \in Row
    BY <1>1, <1>2, <2>1 DEF Row
  <2>3. QuietStep
    BY <1>1, <1>2, <2>1, <2>2
  <2> QED BY <2>3, QuietInv
<1>9. ASSUME NEW i \in TaskId, Unsettled(i) PROVE Inv'
  <2>1. /\ batch' = batch \ {i} /\ faults' \in 0 .. MaxFaults
        /\ UNCHANGED <<rows, run, issued, version, effect, seen, gaveUp>>
    BY <1>1, <1>9, OutboxAssumption DEF Unsettled, SettleLost
  <2>2. QuietStep
    BY <1>1, <1>2, <2>1
  <2> QED BY <2>2, QuietInv
<1>10. CASE UNCHANGED vars
  <2>1. QuietStep
    BY <1>1, <1>2, <1>10 DEF vars
  <2> QED BY <2>1, QuietInv
<1> QED BY <1>3, <1>4, <1>5, <1>6, <1>7, <1>8, <1>9, <1>10

-----------------------------------------------------------------------------
(* The steps that settle a task, and those of a handler.                   *)

\* A superseded task leaves a newer one of its group waiting.
LEMMA SupersedeInv ==
  ASSUME Inv, NEW i \in TaskId, MarkSuperseded(i), UNCHANGED domainVars PROVE Inv'
<1> USE DEF Inv
<1>1. /\ run = Idle /\ run' = run /\ run.task = NoTask /\ i \in batch
      /\ rows' = [rows EXCEPT ![i].status = "done"]
      /\ batch' = batch \ {i}
      /\ UNCHANGED <<issued, faults, version, effect, seen, gaveUp>>
  BY DEF MarkSuperseded, Turn, domainVars, Idle
<1>2. rows \in [TaskId -> Row] /\ rows[i] \in Row /\ batch \subseteq TaskId
  BY DEF TypeOK, OutboxTypeOK
<1>3. /\ rows'[i] = [rows[i] EXCEPT !.status = "done"]
      /\ \A j \in TaskId : j # i => rows'[j] = rows[j]
  BY <1>1, <1>2
<1>4. /\ rows'[i] \in Row /\ rows'[i].group = rows[i].group /\ rows'[i].status = "done"
      /\ rows[i].status = "pending"
  BY <1>1, <1>2, <1>3 DEF Row, RowStatus, IInv, WorkerOwnsBatch
<1>5. PICK k \in batch : k # i /\ rows[k].group = rows[i].group /\ Pending(k)
  BY <1>2 DEF MarkSuperseded, IsNewest, IInv, WorkerOwnsBatch
<1>6. k \in TaskId /\ Pending(k)' /\ rows'[k].group = rows[i].group
  BY <1>2, <1>3, <1>5
<1>7. TypeOK'
  BY <1>1, <1>2, <1>3, <1>4 DEF TypeOK, OutboxTypeOK
<1>8. IInv'
  <2>1. WorkerOwnsBatch' /\ UnseenChangeWaits' /\ EffectWithinReach'
    BY <1>1, <1>2, <1>3 DEF IInv, WorkerOwnsBatch, UnseenChangeWaits, EffectWithinReach
  <2>2. FreshIds' /\ NewRowsUntried' /\ RetriesBounded'
    BY <1>1, <1>3, <1>4 DEF IInv, FreshIds, NewRowsUntried, RetriesBounded
  <2>3. NoLostUpdate'
    <3> SUFFICES ASSUME NEW g \in Groups, effect[g] # version[g], g \notin gaveUp
                 PROVE  HasPending(g)'
      BY <1>1 DEF NoLostUpdate
    <3>1. PICK j \in TaskId : Pending(j) /\ rows[j].group = g
      BY DEF IInv, NoLostUpdate
    <3> QED BY <1>3, <1>6, <3>1
  <2> QED BY <2>1, <2>2, <2>3 DEF IInv
<1> QED BY <1>7, <1>8

LEMMA UnhandledInv == ASSUME Inv, NEW i \in TaskId, Unhandled(i) PROVE Inv'
<1> USE DEF Inv
<1>1. /\ run = Idle /\ run' = run /\ run.task = NoTask /\ i \in batch
      /\ rows' = [rows EXCEPT ![i].status = "failed"]
      /\ batch' = batch \ {i}
      /\ gaveUp' = gaveUp \cup {rows[i].group}
      /\ UNCHANGED <<issued, faults, version, effect, seen>>
  BY DEF Unhandled, NoHandler, Turn, Idle
<1>2. rows \in [TaskId -> Row] /\ rows[i] \in Row /\ batch \subseteq TaskId
  BY DEF TypeOK, OutboxTypeOK
<1>3. /\ rows'[i] = [rows[i] EXCEPT !.status = "failed"]
      /\ \A j \in TaskId : j # i => rows'[j] = rows[j]
  BY <1>1, <1>2
<1>4. /\ rows'[i] \in Row /\ rows[i].group \in Groups /\ rows'[i].status = "failed"
      /\ rows[i].status = "pending"
  BY <1>1, <1>2, <1>3 DEF Row, RowStatus, IInv, WorkerOwnsBatch
<1>5. TypeOK'
  BY <1>1, <1>2, <1>3, <1>4 DEF TypeOK, OutboxTypeOK
<1>6. IInv'
  <2>1. WorkerOwnsBatch' /\ UnseenChangeWaits' /\ EffectWithinReach'
    BY <1>1, <1>2, <1>3 DEF IInv, WorkerOwnsBatch, UnseenChangeWaits, EffectWithinReach
  <2>2. FreshIds' /\ NewRowsUntried' /\ RetriesBounded'
    BY <1>1, <1>3, <1>4 DEF IInv, FreshIds, NewRowsUntried, RetriesBounded
  <2>3. NoLostUpdate'
    BY <1>1, <1>3, <1>4 DEF IInv, NoLostUpdate
  <2> QED BY <2>1, <2>2, <2>3 DEF IInv
<1> QED BY <1>5, <1>6

LEMMA HandlerReadsInv == ASSUME Inv, NEW i \in TaskId, HandlerReads(i) PROVE Inv'
<1> USE DEF Inv
<1>1. /\ i \in batch /\ run' = [task |-> i, landed |-> FALSE]
      /\ batch' = batch \ {i} /\ seen' = version[rows[i].group]
      /\ UNCHANGED <<rows, issued, faults, version, effect, gaveUp>>
  BY DEF HandlerReads, Begin, Turn
<1>2. /\ rows[i].group \in Groups /\ Pending(i) /\ i # NoTask
      /\ version \in [Groups -> Nat] /\ effect \in [Groups -> Nat]
  BY <1>1 DEF TypeOK, OutboxTypeOK, Row, IInv, WorkerOwnsBatch
<1>3. run'.task = i /\ run'.landed = FALSE /\ Running' = rows[i].group
  BY <1>1
<1>4. TypeOK'
  BY <1>1, <1>2 DEF TypeOK, OutboxTypeOK
<1>5. WorkerOwnsBatch' /\ UnseenChangeWaits'
  BY <1>1, <1>2, <1>3 DEF IInv, WorkerOwnsBatch, UnseenChangeWaits
<1>6. EffectWithinReach'
  BY <1>1, <1>2, <1>3 DEF IInv, EffectWithinReach
<1>7. FreshIds' /\ NewRowsUntried' /\ RetriesBounded' /\ NoLostUpdate'
  BY <1>1 DEF IInv, FreshIds, NewRowsUntried, RetriesBounded, NoLostUpdate
<1> QED BY <1>4, <1>5, <1>6, <1>7 DEF IInv

\* The effect may be older than the committed state: the task itself is then
\* still waiting.
LEMMA HandlerActsInv == ASSUME Inv, HandlerActs PROVE Inv'
<1> USE DEF Inv
<1> DEFINE g == Running
<1>1. /\ run.task \in TaskId /\ run.task # NoTask /\ Pending(run.task) /\ g \in Groups
      /\ run \in [task : TaskId \cup {NoTask}, landed : BOOLEAN]
      /\ effect \in [Groups -> Nat] /\ version \in [Groups -> Nat] /\ seen \in Nat
      /\ effect[g] <= seen /\ seen <= version[g]
  BY DEF HandlerActs, Land, TypeOK, OutboxTypeOK, Row, IInv, WorkerOwnsBatch,
     EffectWithinReach
<1>2. /\ run' = [run EXCEPT !.landed = TRUE]
      /\ effect' = [effect EXCEPT ![g] = seen]
      /\ UNCHANGED <<rows, issued, batch, faults, version, seen, gaveUp>>
  BY DEF HandlerActs, Land
<1>3. run'.task = run.task /\ run'.landed = TRUE /\ Running' = g
  BY <1>1, <1>2
<1>4. TypeOK'
  BY <1>1, <1>2 DEF TypeOK, OutboxTypeOK
<1> HIDE DEF g
<1>5. WorkerOwnsBatch' /\ FreshIds' /\ NewRowsUntried' /\ RetriesBounded'
  BY <1>2, <1>3 DEF IInv, WorkerOwnsBatch, FreshIds, NewRowsUntried, RetriesBounded
<1>6. UnseenChangeWaits'
  BY <1>2, <1>3 DEF IInv, UnseenChangeWaits, g
<1>7. EffectWithinReach'
  BY <1>1, <1>2, <1>3 DEF IInv, EffectWithinReach
<1>8. NoLostUpdate'
  BY <1>1, <1>2, <1>3 DEF IInv, NoLostUpdate, g
<1> QED BY <1>4, <1>5, <1>6, <1>7, <1>8 DEF IInv

\* What the three outcomes that are recorded share.
Outcome ==
  /\ run.task # NoTask /\ run' = Idle
  /\ UNCHANGED <<issued, batch, faults, version, effect, seen>>
  /\ rows'[run.task] \in Row /\ rows'[run.task].group = Running
  /\ rows'[run.task].status \in {"pending", "done", "failed"}
  /\ rows' \in [TaskId -> Row]
  /\ \A j \in TaskId : j # run.task => rows'[j] = rows[j]
  /\ gaveUp' \subseteq Groups
  /\ \A g \in Groups : g # Running => (g \in gaveUp <=> g \in gaveUp')

LEMMA OutcomeInv ==
  ASSUME Inv, Outcome,
         rows'[run.task].status = "pending" => rows'[run.task].attempts < MaxAttempts,
         effect[Running] # version[Running] =>
           \/ \E j \in TaskId : rows'[j].status = "pending" /\ rows'[j].group = Running
           \/ Running \in gaveUp'
  PROVE  Inv'
<1> USE DEF Inv, Outcome
<1>1. /\ run.task \in TaskId /\ Pending(run.task) /\ run.task \notin batch
      /\ run'.task = NoTask
  BY DEF TypeOK, OutboxTypeOK, IInv, WorkerOwnsBatch, Idle
<1>2. TypeOK'
  BY DEF TypeOK, OutboxTypeOK, Idle
<1>3. WorkerOwnsBatch' /\ UnseenChangeWaits' /\ EffectWithinReach'
  BY <1>1 DEF TypeOK, OutboxTypeOK, IInv, WorkerOwnsBatch, UnseenChangeWaits,
     EffectWithinReach
<1>4. FreshIds' /\ NewRowsUntried' /\ RetriesBounded'
  <2>1. FreshIds'
    BY <1>1 DEF IInv, FreshIds
  <2>2. NewRowsUntried' /\ RetriesBounded'
    BY <1>1 DEF IInv, NewRowsUntried, RetriesBounded
  <2> QED BY <2>1, <2>2
<1>5. NoLostUpdate'
  <2> SUFFICES ASSUME NEW g \in Groups, effect[g] # version[g]
               PROVE  HasPending(g)' \/ g \in gaveUp'
    BY DEF NoLostUpdate
  <2>1. CASE g = Running
    BY <2>1
  <2>2. CASE g # Running
    <3>1. HasPending(g) \/ g \in gaveUp
      BY DEF IInv, NoLostUpdate
    <3>2. CASE g \in gaveUp
      BY <2>2, <3>2
    <3>3. ASSUME NEW j \in TaskId, Pending(j), rows[j].group = g PROVE HasPending(g)'
      BY <2>2, <3>3
    <3> QED BY <3>1, <3>2, <3>3
  <2> QED BY <2>1, <2>2
<1> QED BY <1>2, <1>3, <1>4, <1>5 DEF IInv

\* A run that succeeded showed what it read: the committed state, or else a
\* change committed since is waiting under a task of its own.
LEMMA SucceedInv == ASSUME Inv, Succeed PROVE Inv'
<1> USE DEF Inv
<1>1. /\ run.task \in TaskId /\ rows \in [TaskId -> Row] /\ rows[run.task] \in Row
      /\ gaveUp \subseteq Groups
      /\ effect[Running] = seen
  BY DEF Succeed, MarkDone, TypeOK, OutboxTypeOK, IInv, EffectWithinReach
<1>2. /\ rows' = [rows EXCEPT ![run.task].status = "done"]
      /\ run.task # NoTask /\ run' = Idle
      /\ gaveUp' = gaveUp \ {Running}
      /\ UNCHANGED <<issued, batch, faults, version, effect, seen>>
  BY DEF Succeed, MarkDone
<1>3. /\ rows'[run.task] = [rows[run.task] EXCEPT !.status = "done"]
      /\ \A j \in TaskId : j # run.task => rows'[j] = rows[j]
  BY <1>1, <1>2
<1>4. /\ rows'[run.task] \in Row /\ rows'[run.task].group = Running
      /\ rows'[run.task].status = "done"
  BY <1>1, <1>3 DEF Row, RowStatus
<1>5. Outcome
  BY <1>1, <1>2, <1>3, <1>4 DEF Outcome
<1>6. effect[Running] # version[Running] =>
        \E j \in TaskId : rows'[j].status = "pending" /\ rows'[j].group = Running
  BY <1>1, <1>2, <1>3 DEF IInv, UnseenChangeWaits
<1> QED BY <1>4, <1>5, <1>6, OutcomeInv

LEMMA RetryInv == ASSUME Inv, Retry PROVE Inv'
<1> USE DEF Inv
<1>1. /\ run.task \in TaskId /\ rows \in [TaskId -> Row] /\ rows[run.task] \in Row
      /\ gaveUp \subseteq Groups /\ Pending(run.task)
      /\ rows[run.task].attempts + 1 < MaxAttempts
  BY DEF Retry, MarkRetry, TypeOK, OutboxTypeOK, IInv, WorkerOwnsBatch
<1>a. /\ rows[run.task].attempts + 1 \in 0 .. MaxAttempts
      /\ rows[run.task].group \in Groups
  BY <1>1, OutboxAssumption DEF Row
<1>2. /\ rows[run.task].attempts + 1 < MaxAttempts
      /\ rows' = [rows EXCEPT ![run.task].attempts = @ + 1, ![run.task].due = FALSE]
      /\ run.task # NoTask /\ run' = Idle
      /\ UNCHANGED <<issued, batch, faults, version, effect, seen, gaveUp>>
  BY DEF Retry, MarkRetry, domainVars
<1>3. /\ rows'[run.task] = [rows[run.task] EXCEPT !.attempts = @ + 1, !.due = FALSE]
      /\ \A j \in TaskId : j # run.task => rows'[j] = rows[j]
  BY <1>1, <1>2
<1>4. /\ rows'[run.task] \in Row /\ rows'[run.task].group = Running
      /\ rows'[run.task].status = "pending"
      /\ rows'[run.task].attempts < MaxAttempts
  BY <1>1, <1>2, <1>3, <1>a DEF Row, RowStatus
<1>5. Outcome
  BY <1>1, <1>2, <1>3, <1>4 DEF Outcome
<1> QED BY <1>1, <1>4, <1>5, OutcomeInv

LEMMA AbandonInv == ASSUME Inv, Abandon PROVE Inv'
<1> USE DEF Inv
<1>1. /\ run.task \in TaskId /\ rows \in [TaskId -> Row] /\ rows[run.task] \in Row
      /\ gaveUp \subseteq Groups /\ Pending(run.task)
      /\ rows[run.task].attempts < MaxAttempts
  BY DEF Abandon, MarkFailed, TypeOK, OutboxTypeOK, IInv, WorkerOwnsBatch, RetriesBounded
<1>a. /\ rows[run.task].attempts + 1 \in 0 .. MaxAttempts
      /\ rows[run.task].group \in Groups /\ rows[run.task].due \in BOOLEAN
  BY <1>1, OutboxAssumption DEF Row
<1>2. /\ rows' = [rows EXCEPT ![run.task].attempts = @ + 1,
                              ![run.task].status = "failed"]
      /\ run.task # NoTask /\ run' = Idle
      /\ gaveUp' = gaveUp \cup {Running}
      /\ UNCHANGED <<issued, batch, faults, version, effect, seen>>
  BY DEF Abandon, MarkFailed
<1>3. /\ rows'[run.task] = [rows[run.task] EXCEPT !.attempts = @ + 1, !.status = "failed"]
      /\ \A j \in TaskId : j # run.task => rows'[j] = rows[j]
  BY <1>1, <1>2
<1>4. /\ rows'[run.task] \in Row /\ rows'[run.task].group = Running
      /\ rows'[run.task].status = "failed" /\ Running \in Groups
  BY <1>1, <1>2, <1>3, <1>a, OutboxAssumption DEF Row, RowStatus
<1>5. Outcome
  BY <1>1, <1>2, <1>3, <1>4 DEF Outcome
<1> QED BY <1>2, <1>4, <1>5, OutcomeInv

LEMMA NextInv == ASSUME Inv, [Next]_vars PROVE Inv'
BY EnqueueInv, CommitInv, QuietStepsInv, SupersedeInv, UnhandledInv, HandlerReadsInv,
   HandlerActsInv, SucceedInv, RetryInv, AbandonInv
   DEF Next, WorkerStep, Supersede

-----------------------------------------------------------------------------
(* Safety.                                                                 *)

\* The state is well typed and the strengthened invariant holds throughout.
THEOREM InvHolds == Spec => []Inv
<1>1. Init => Inv
  BY InitInv
<1>2. Inv /\ [Next]_vars => Inv'
  BY NextInv
<1> QED BY <1>1, <1>2, PTL DEF Spec

\* Every variable of the queue and of the features keeps its type.
THEOREM TypeCorrect == Spec => []TypeOK
<1>1. Inv => TypeOK
  BY DEF Inv
<1> QED BY <1>1, InvHolds, PTL

\* Collapsing, purging, crashes, rollbacks and lost status updates never lose a
\* committed change: its group shows it, waits for it, or was given up on.
THEOREM NothingLost == Spec => []NoLostUpdate
<1>1. Inv => NoLostUpdate
  BY DEF Inv, IInv
<1> QED BY <1>1, InvHolds, PTL

\* A task that waits has an attempt left.
THEOREM BoundedRetries == Spec => []RetriesBounded
<1>1. Inv => RetriesBounded
  BY DEF Inv, IInv
<1> QED BY <1>1, InvHolds, PTL

-----------------------------------------------------------------------------
(* The queue implements DurableEffect.                                     *)

Owed == [g \in Groups |-> HasPending(g)]

\* A step that touches one row disturbs the debt of one group only.
LEMMA OneDebt ==
  ASSUME NEW i \in TaskId, NEW g \in Groups, rows[i].group = g,
         rows'[i].group = g \/ rows'[i].status # "pending",
         \A j \in TaskId : j # i => rows'[j] = rows[j]
  PROVE  Owed' = [Owed EXCEPT ![g] = Owed'[g]]
<1>1. Owed \in [Groups -> BOOLEAN] /\ Owed' \in [Groups -> BOOLEAN]
  BY DEF Owed
<1>2. \A h \in Groups : h # g => (HasPending(h)' <=> HasPending(h))
  OBVIOUS
<1>3. \A h \in Groups : h # g => Owed'[h] = Owed[h]
  BY <1>2 DEF Owed
<1> QED BY <1>1, <1>3

\* Quiet steps, insertions and superseding leave every debt as it is.
LEMMA SameDebt ==
  ASSUME \A h \in Groups : HasPending(h)' <=> HasPending(h)
  PROVE  Owed' = Owed
<1>1. \A h \in Groups : HasPending(h)' \in BOOLEAN /\ HasPending(h) \in BOOLEAN
  OBVIOUS
<1> HIDE DEF HasPending
<1> QED BY <1>1 DEF Owed

LEMMA InitRefines == Init => Promise!Init
<1> SUFFICES ASSUME Init PROVE Promise!Init
  OBVIOUS
<1>1. \A g \in Groups : HasPending(g) = FALSE
  BY NoRowIsRow DEF Init, OutboxInit
<1> HIDE DEF HasPending
<1> QED BY <1>1 DEF Init, Promise!Init

LEMMA StutterRefines ==
  ASSUME UNCHANGED <<version, effect, gaveUp>>,
         \A h \in Groups : HasPending(h)' <=> HasPending(h)
  PROVE  UNCHANGED Promise!vars
BY SameDebt DEF Promise!vars, Owed

LEMMA CommitRefines ==
  ASSUME Inv, NEW i \in TaskId, CommitChange(i) PROVE Promise!Next
<1>1. PICK g \in Groups : g = rows[i].group
  BY DEF CommitChange, Commit, Inv, TypeOK, OutboxTypeOK, Row
<1>2. /\ rows' = [rows EXCEPT ![i].status = "pending"]
      /\ rows \in [TaskId -> Row]
      /\ version' = [version EXCEPT ![g] = @ + 1]
      /\ UNCHANGED <<effect, gaveUp>>
  BY <1>1 DEF CommitChange, Commit, Inv, TypeOK, OutboxTypeOK
<1>3. rows'[i].group = g /\ rows'[i].status = "pending"
  BY <1>1, <1>2 DEF Row
<1>4. Owed'[g] = TRUE
  BY <1>3 DEF Owed
<1>5. Owed' = [Owed EXCEPT ![g] = TRUE]
  BY <1>1, <1>2, <1>3, <1>4, OneDebt
<1>6. Promise!Change(g)
  BY <1>2, <1>5 DEF Promise!Change, Owed
<1> QED BY <1>6 DEF Promise!Next

LEMMA UnhandledRefines ==
  ASSUME Inv, NEW i \in TaskId, Unhandled(i) PROVE Promise!Next
<1>1. PICK g \in Groups : g = rows[i].group
  BY DEF Inv, TypeOK, OutboxTypeOK, Row
<1>2. /\ rows' = [rows EXCEPT ![i].status = "failed"]
      /\ rows \in [TaskId -> Row] /\ Pending(i)
      /\ gaveUp' = gaveUp \cup {g}
      /\ UNCHANGED <<version, effect>>
  BY <1>1 DEF Unhandled, NoHandler, Turn, Inv, TypeOK, OutboxTypeOK, IInv, WorkerOwnsBatch
<1>3. rows'[i].status # "pending"
  BY <1>2 DEF Row
<1>4. Owed[g] = TRUE /\ Owed'[g] \in BOOLEAN
  BY <1>1, <1>2 DEF Owed
<1>5. Owed' = [Owed EXCEPT ![g] = Owed'[g]]
  BY <1>1, <1>2, <1>3, OneDebt
<1>6. Promise!GiveUp(g)
  BY <1>2, <1>4, <1>5 DEF Promise!GiveUp, Owed
<1> QED BY <1>6 DEF Promise!Next

LEMMA ActsRefines == ASSUME Inv, HandlerActs PROVE Promise!Next
<1>1. /\ run.task \in TaskId /\ run.task # NoTask /\ Pending(run.task) /\ Running \in Groups
      /\ version \in [Groups -> Nat] /\ effect \in [Groups -> Nat] /\ seen \in Nat
      /\ effect[Running] <= seen /\ seen <= version[Running]
  BY DEF HandlerActs, Land, Inv, TypeOK, OutboxTypeOK, Row, IInv, WorkerOwnsBatch,
     EffectWithinReach
<1>2. PICK g \in Groups : g = Running
  BY <1>1
<1>3. /\ effect' = [effect EXCEPT ![g] = seen]
      /\ UNCHANGED <<rows, version, gaveUp>>
  BY <1>2 DEF HandlerActs, Land
<1>4. Owed[g] = TRUE
  BY <1>1, <1>2 DEF Owed
<1>5. Owed' = Owed
  BY <1>3 DEF Owed
<1>6. seen \in effect[g] .. version[g]
  BY <1>1, <1>2
<1>7. Promise!Perform(g)
  BY <1>3, <1>4, <1>5, <1>6 DEF Promise!Perform, Owed
<1> QED BY <1>7 DEF Promise!Next

\* The task that ran goes; if the group is still waiting, so does the promise,
\* and if not, what was shown is the committed state.
LEMMA SucceedRefines == ASSUME Inv, Succeed PROVE Promise!Next
<1>1. /\ run.task \in TaskId /\ run.task # NoTask /\ Pending(run.task) /\ Running \in Groups
      /\ rows \in [TaskId -> Row]
      /\ effect[Running] = seen
  BY DEF Succeed, MarkDone, Inv, TypeOK, OutboxTypeOK, Row, IInv, WorkerOwnsBatch,
     EffectWithinReach
<1>2. PICK g \in Groups : g = Running
  BY <1>1
<1>3. PICK i \in TaskId : i = run.task
  BY <1>1
<1>4. /\ rows' = [rows EXCEPT ![i].status = "done"]
      /\ gaveUp' = gaveUp \ {g}
      /\ UNCHANGED <<version, effect>>
  BY <1>2, <1>3 DEF Succeed, MarkDone
<1>5. rows'[i].status # "pending" /\ rows[i].group = g /\ Pending(i)
  BY <1>1, <1>2, <1>3, <1>4 DEF Row
<1>6. Owed[g] = TRUE /\ Owed = [Owed EXCEPT ![g] = TRUE]
  BY <1>5 DEF Owed
<1>7. Owed' = [Owed EXCEPT ![g] = Owed'[g]]
  BY <1>4, <1>5, OneDebt
<1>8. Owed'[g] = TRUE \/ (effect[g] = version[g] /\ Owed'[g] = FALSE)
  <2>1. CASE seen = version[g]
    BY <1>1, <1>2, <2>1 DEF Owed
  <2>2. CASE \E j \in TaskId : j # i /\ Pending(j) /\ rows[j].group = g
    BY <1>4, <2>2 DEF Owed
  <2> QED BY <1>1, <1>2, <1>3, <2>1, <2>2 DEF Inv, IInv, UnseenChangeWaits
<1>9. \/ Owed' = Owed
      \/ effect[g] = version[g] /\ Owed' = [Owed EXCEPT ![g] = FALSE]
  BY <1>6, <1>7, <1>8
<1>10. Promise!Settle(g)
  BY <1>4, <1>6, <1>9 DEF Promise!Settle, Owed
<1> QED BY <1>10 DEF Promise!Next

LEMMA AbandonRefines == ASSUME Inv, Abandon PROVE Promise!Next
<1>1. /\ run.task \in TaskId /\ run.task # NoTask /\ Pending(run.task) /\ Running \in Groups
      /\ rows \in [TaskId -> Row]
  BY DEF Abandon, MarkFailed, Inv, TypeOK, OutboxTypeOK, Row, IInv, WorkerOwnsBatch
<1>2. PICK g \in Groups : g = Running
  BY <1>1
<1>3. PICK i \in TaskId : i = run.task
  BY <1>1
<1>4. /\ rows' = [rows EXCEPT ![i].attempts = @ + 1, ![i].status = "failed"]
      /\ gaveUp' = gaveUp \cup {g}
      /\ UNCHANGED <<version, effect>>
  BY <1>2, <1>3 DEF Abandon, MarkFailed
<1>5. rows'[i].status # "pending" /\ rows[i].group = g /\ Pending(i)
  BY <1>1, <1>2, <1>3, <1>4 DEF Row
<1>6. Owed[g] = TRUE /\ Owed'[g] \in BOOLEAN
  BY <1>5 DEF Owed
<1>a. \A j \in TaskId : j # i => rows'[j] = rows[j]
  BY <1>1, <1>4
<1>7. Owed' = [Owed EXCEPT ![g] = Owed'[g]]
  BY <1>5, <1>a, OneDebt
<1>8. Promise!GiveUp(g)
  BY <1>4, <1>6, <1>7 DEF Promise!GiveUp, Owed
<1> QED BY <1>8 DEF Promise!Next

LEMMA NextRefines ==
  ASSUME Inv, [Next]_vars PROVE [Promise!Next]_(Promise!vars)
<1>1. /\ rows \in [TaskId -> Row] /\ issued \in 0 .. MaxTasks /\ batch \subseteq TaskId
      /\ \A i \in TaskId : i > issued => rows[i].status = "none"
      /\ run.task # NoTask => run.task \in TaskId /\ Pending(run.task)
      /\ \A i \in batch : Pending(i)
  BY DEF Inv, TypeOK, OutboxTypeOK, IInv, FreshIds, WorkerOwnsBatch
<1> USE DEF domainVars
<1>2. ASSUME NEW g \in Groups, Enqueue(g) PROVE UNCHANGED Promise!vars
  <2>0. issued + 1 \in TaskId /\ ~Pending(issued + 1)
    BY <1>1, <1>2, OutboxAssumption DEF Enqueue, Insert
  <2>1. PICK n \in TaskId : /\ ~Pending(n) /\ rows'[n].status = "open"
                           /\ \A i \in TaskId : i # n => rows'[i] = rows[i]
    BY <1>1, <1>2, <2>0 DEF Enqueue, Insert, Inserted
  <2> QED BY <1>2, <2>1, StutterRefines DEF Enqueue
<1>3. ASSUME \/ Tick \/ OutcomeLost \/ UNCHANGED vars
             \/ \E i \in TaskId : Unsettled(i)
             \/ \E i \in TaskId : HandlerReads(i)
      PROVE  UNCHANGED Promise!vars
  <2>1. UNCHANGED <<rows, version, effect, gaveUp>>
    BY <1>3 DEF Tick, ScanDue, OutcomeLost, MarkLost, vars, Unsettled, SettleLost, HandlerReads, Begin
  <2> QED BY <2>1, StutterRefines
<1>4. ASSUME Restart PROVE UNCHANGED Promise!vars
  <2>1. \A i \in TaskId : Pending(i)' <=> Pending(i)
    BY <1>1, <1>4, NoRowIsRow DEF Restart, Crash
  <2>2. \A i \in TaskId : Pending(i) => rows'[i].group = rows[i].group
    BY <1>1, <1>4 DEF Restart, Crash
  <2> QED BY <1>4, <2>1, <2>2, StutterRefines DEF Restart
<1>5. ASSUME Purge PROVE UNCHANGED Promise!vars
  <2>1. \A i \in TaskId : Pending(i)' <=> Pending(i)
    BY <1>1, <1>5, NoRowIsRow DEF Purge, Cleanup
  <2>2. \A i \in TaskId : Pending(i) => rows'[i].group = rows[i].group
    BY <1>1, <1>5 DEF Purge, Cleanup
  <2> QED BY <1>5, <2>1, <2>2, StutterRefines DEF Purge
<1>6. ASSUME NEW i \in TaskId, RollbackChange(i) PROVE UNCHANGED Promise!vars
  BY <1>1, <1>6, NoRowIsRow, StutterRefines DEF RollbackChange, Rollback
<1>7. ASSUME NEW i \in TaskId, BackoffOver(i) PROVE UNCHANGED Promise!vars
  <2>1. /\ rows'[i] = [rows[i] EXCEPT !.due = TRUE] /\ rows[i] \in Row
        /\ \A j \in TaskId : j # i => rows'[j] = rows[j]
    BY <1>1, <1>7 DEF BackoffOver, BackoffElapses
  <2>2. rows'[i].status = rows[i].status /\ rows'[i].group = rows[i].group
    BY <2>1 DEF Row
  <2> QED BY <1>7, <2>1, <2>2, StutterRefines DEF BackoffOver
<1>8. ASSUME Retry PROVE UNCHANGED Promise!vars
  <2>1. PICK i \in TaskId : i = run.task
    BY <1>1, <1>8 DEF Retry, MarkRetry
  <2>2. /\ rows'[i] = [rows[i] EXCEPT !.attempts = @ + 1, !.due = FALSE] /\ rows[i] \in Row
        /\ \A j \in TaskId : j # i => rows'[j] = rows[j]
    BY <1>1, <1>8, <2>1 DEF Retry, MarkRetry
  <2>3. rows'[i].status = rows[i].status /\ rows'[i].group = rows[i].group
    BY <2>2 DEF Row
  <2> QED BY <1>8, <2>2, <2>3, StutterRefines DEF Retry
<1>9. ASSUME NEW i \in TaskId, MarkSuperseded(i), UNCHANGED domainVars
      PROVE  UNCHANGED Promise!vars
  <2>1. /\ rows'[i].status = "done" /\ \A j \in TaskId : j # i => rows'[j] = rows[j]
    BY <1>1, <1>9 DEF MarkSuperseded, Row
  <2>2. PICK k \in batch : k # i /\ rows[k].group = rows[i].group /\ Pending(k)
    BY <1>1, <1>9 DEF MarkSuperseded, IsNewest
  <2>3. \A h \in Groups : HasPending(h)' <=> HasPending(h)
    BY <1>1, <2>1, <2>2
  <2> QED BY <1>9, <2>3, StutterRefines
<1> QED
  BY <1>2, <1>3, <1>4, <1>5, <1>6, <1>7, <1>8, <1>9, CommitRefines, UnhandledRefines,
     ActsRefines, SucceedRefines, AbandonRefines DEF Next, WorkerStep, Supersede

\* The outbox, with its batches, retries, crashes and purges, implements the
\* promise that knows nothing of queues.
THEOREM QueueKeepsPromise == Spec => KeepsPromise
<1>1. Init => Promise!Init
  BY InitRefines
<1>2. Inv /\ [Next]_vars => [Promise!Next]_(Promise!vars)
  BY NextRefines
<1> QED BY <1>1, <1>2, InvHolds, PTL DEF Spec, KeepsPromise, Promise!Spec

\* No effect shows an older state than the one before it.
THEOREM EffectsNeverGoBack == Spec => EffectMonotone
<1>1. ASSUME Inv, Inv', [Next]_vars PROVE [\A g \in Groups : effect'[g] >= effect[g]]_vars
  <2>1. version \in [Groups -> Nat] /\ effect \in [Groups -> Nat]
    BY <1>1 DEF Inv, TypeOK
  <2>2. CASE HandlerActs
    <3>1. effect' = [effect EXCEPT ![Running] = seen] /\ effect[Running] <= seen /\ seen \in Nat
      BY <1>1, <2>2 DEF HandlerActs, Land, Inv, TypeOK, IInv, EffectWithinReach
    <3> QED BY <2>1, <3>1
  <2>3. CASE ~HandlerActs
    <3>1. effect' = effect
      BY <1>1, <2>3 DEF Next, vars, domainVars, Enqueue, CommitChange, RollbackChange,
         BackoffOver, WorkerStep, Tick, Supersede, Unsettled, Unhandled, HandlerReads, Succeed, Retry,
         Abandon, OutcomeLost, Restart, Purge
    <3> QED BY <2>1, <3>1
  <2> QED BY <2>2, <2>3
<1> QED BY <1>1, InvHolds, PTL DEF Spec, EffectMonotone
=============================================================================
