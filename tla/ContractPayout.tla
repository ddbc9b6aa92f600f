--------------------------- MODULE ContractPayout ---------------------------
(***************************************************************************)
(* The payout of a completed contract with a reward: the split of the      *)
(* members' pool (features/contracts/payout.go), the payout task that      *)
(* saves it and posts the report (tasks_payout.go, postgres_payouts.go),   *)
(* and the officers' Reprint and Mark paid (view_contract.go,              *)
(* payout_report.go).                                                      *)
(*                                                                         *)
(* It starts where ContractLedger ends: a completed contract's deliveries  *)
(* are final, and are what its items require (CompletedInFull,             *)
(* ClosedIsFinal).  What may change in between is the program: every       *)
(* release brings its own catalog of prices and precision of credits.      *)
(***************************************************************************)
EXTENDS Tally, Sequences

CONSTANTS
  Items,
  Deliveries,   \* what may have been delivered of every item, by whom
  Reward,       \* the members' pool, in the smallest unit of credit
  Releases,     \* what the bot may be started with: unit values and precision
  MaxMessages,  \* bound of the model: reports ever posted
  MaxFaults     \* bound of the model: failed runs, restarts, deleted reports

ASSUME PayoutAssumption ==
  /\ IsFiniteSet(Items) /\ Items # {}
  /\ Deliveries \subseteq [Items -> {f \in Shares : Total(f) \in Qty}]
  /\ Reward \in Nat
  /\ \A r \in Releases : r.price \in [Items -> Nat] /\ r.step \in Nat \ {0}
  /\ MaxMessages \in Nat /\ MaxFaults \in Nat

VARIABLES
  delivered,  \* contract_reservations.delivered_qty
  release,    \* the running release
  saved,      \* the release whose prices and precision the rows were computed by
  stamp,      \* contracts.payout_decimals, as the size of its smallest unit
  pending,    \* the payout tasks to come: the completion's, one or more reposts
  run,        \* the task being run
  at,         \* how far: "idle", "read", "figured", "shown", "latched"
  prog,       \* the contract as the run read it
  made,       \* the report the run has posted or edited
  channel,    \* the reports channel: "none" configured, "ok", or "gone"
  reports,    \* the report messages, in the order they were posted
  latch,      \* payout_posted_at is set
  report,     \* contracts.payout_report_message_id
  paid,       \* payouts_paid_at is set
  officer,    \* the report the winner of Mark paid is about to edit
  excused,    \* that edit failed, or fell into a run that had read "not paid",
              \* and no run that read "paid" has recorded its report since
  orphans,    \* reports whose run ended before they were recorded
  gaveUp,     \* the payout task was abandoned
  faults

task == <<pending, run, at, prog, made>>
rows == <<saved, stamp>>
recorded == <<latch, report>>
marking == <<paid, officer, excused>>
vars == <<delivered, release, rows, task, channel, reports, recorded, marking,
          orphans, gaveUp, faults>>

None == "none"
NoReport == 0
NoStep == 0
NoRelease == [price |-> [i \in Items |-> 0], step |-> NoStep]
NoProg == [latch |-> FALSE, report |-> NoReport, paid |-> FALSE, step |-> NoStep]
Nobody == [at |-> "idle", report |-> NoReport]
ReportId == 1 .. MaxMessages
Prog == [latch : BOOLEAN, report : {NoReport} \cup ReportId, paid : BOOLEAN,
         step : {r.step : r \in Releases} \cup {NoStep}]
Report == [there : BOOLEAN, rows : Releases, step : {r.step : r \in Releases},
           paid : BOOLEAN]

TypeOK ==
  /\ delivered \in Deliveries
  /\ release \in Releases
  /\ saved \in Releases \cup {NoRelease}
  /\ stamp \in {r.step : r \in Releases} \cup {NoStep}
  /\ pending \subseteq {"first", "repost"} /\ run \in {"first", "repost", None}
  /\ at \in {"idle", "read", "figured", "shown", "latched"}
  /\ prog \in Prog
  /\ channel \in {"none", "ok", "gone"}
  /\ reports \in Seq(Report) /\ Len(reports) <= MaxMessages
  /\ {made, report} \cup orphans \subseteq {NoReport} \cup DOMAIN reports
  /\ officer \in [at : {"idle", "won", "editing"}, report : {NoReport} \cup DOMAIN reports]
  /\ {latch, paid, excused, gaveUp} \subseteq BOOLEAN
  /\ faults \in 0 .. MaxFaults

\* The transaction that completed the contract enqueued its payout task.
Init ==
  /\ delivered \in Deliveries
  /\ release \in Releases
  /\ saved = NoRelease /\ stamp = NoStep
  /\ pending = {"first"} /\ run = None /\ at = "idle" /\ prog = NoProg /\ made = NoReport
  /\ channel \in {"none", "ok"}
  /\ reports = << >> /\ latch = FALSE /\ report = NoReport
  /\ paid = FALSE /\ officer = Nobody /\ excused = FALSE
  /\ orphans = {} /\ gaveUp = FALSE /\ faults = 0

-----------------------------------------------------------------------------
(* computePayout.                                                          *)

Truncated(x, step) == (x \div step) * step
Pool(step) == Truncated(Reward, step)

Deliverers == {u \in Users : \E i \in Items : delivered[i][u] > 0}

\* The value delivered by one member, and by all (what the items require).
ValueOf(r, u) == Sum([i \in Items |-> r.price[i] * delivered[i][u]])
Value(r) == Sum([i \in Items |-> r.price[i] * Total(delivered[i])])

\* Mutant: the split is rounded to the nearest unit.
AmountRounded(r, u) ==
  IF Value(r) = 0 THEN 0
  ELSE LET d == Value(r) * r.step
       IN ((2 * Pool(r.step) * ValueOf(r, u) + d) \div (2 * d)) * r.step

\* The zero-value case: nothing to weight the shares by.
Amount(r, u) ==
  IF Value(r) = 0 THEN 0
  ELSE Truncated((Pool(r.step) * ValueOf(r, u)) \div Value(r), r.step)

-----------------------------------------------------------------------------
(* The payout task, run by the outbox.                                     *)

\* The newest of the tasks that are due is run, and supersedes the others that
\* are; one that waits out its backoff stays, and may well run after a newer one.
Start(t) ==
  /\ run = None /\ t \in pending
  /\ run' = t /\ at' = "read"
  /\ pending' \in IF t = "first" THEN {pending \ {t}} ELSE SUBSET pending
  /\ prog' = [latch |-> latch, report |-> report, paid |-> paid, step |-> stamp]
  /\ UNCHANGED <<delivered, release, rows, made, channel, reports, recorded, marking,
                 orphans, gaveUp, faults>>

\* The end of a run, whatever its outcome.
Over ==
  /\ run' = None /\ at' = "idle" /\ prog' = NoProg /\ made' = NoReport
  /\ orphans' = (orphans \cup {made}) \ {report, NoReport}

Succeeds == Over /\ UNCHANGED pending /\ gaveUp' = FALSE

AlreadyPosted ==
  /\ at = "read" /\ prog.latch /\ run = "first"
  /\ Succeeds
  /\ UNCHANGED <<delivered, release, rows, channel, reports, recorded, marking, faults>>

ToPost == ~(prog.latch /\ run = "first")

\* Mutant: the split is computed anew by every run, over the rows of an earlier one.
RecomputeRows ==
  /\ at = "read" /\ ToPost
  /\ saved' = release
  /\ stamp' = IF stamp = NoStep THEN release.step ELSE stamp
  /\ at' = "figured"
  /\ UNCHANGED <<delivered, release, pending, run, prog, made, channel, reports, recorded,
                 marking, orphans, gaveUp, faults>>

\* Mutant: the precision is not recorded with the rows.
ComputeUnstamped ==
  /\ at = "read" /\ ToPost
  /\ saved' = IF saved = NoRelease THEN release ELSE saved
  /\ at' = "figured"
  /\ UNCHANGED <<delivered, release, stamp, pending, run, prog, made, channel, reports,
                 recorded, marking, orphans, gaveUp, faults>>

\* The rows of an earlier run, if any, are used; else SavePayouts writes them
\* and the precision in one transaction.
ComputeOnce ==
  /\ at = "read" /\ ToPost
  /\ saved' = IF saved = NoRelease THEN release ELSE saved
  /\ stamp' = IF saved = NoRelease /\ stamp = NoStep THEN release.step ELSE stamp
  /\ at' = "figured"
  /\ UNCHANGED <<delivered, release, pending, run, prog, made, channel, reports, recorded,
                 marking, orphans, gaveUp, faults>>

\* payoutContent: the rows, at the precision read with the contract or, before
\* any was recorded, that of the configuration.
Rendered ==
  [there |-> TRUE, rows |-> saved, paid |-> prog.paid,
   step |-> IF prog.step = NoStep THEN release.step ELSE prog.step]

\* A report that a run may edit: the recorded one, unless it was deleted.
Editable == prog.report # NoReport /\ reports[prog.report].there

\* No reports channel, or one that is gone: nothing is posted, nor latched.
NowhereToPost ==
  /\ at = "figured"
  /\ \/ channel = "none"
     \/ channel = "gone" /\ ~Editable
  /\ Succeeds
  /\ UNCHANGED <<delivered, release, rows, channel, reports, recorded, marking, faults>>

\* A report that is there is edited in place.
EditReport ==
  /\ at = "figured" /\ channel # "none"
  /\ Editable
  /\ reports' = [reports EXCEPT ![prog.report] = Rendered]
  /\ made' = prog.report /\ at' = "shown"
  /\ UNCHANGED <<delivered, release, rows, pending, run, prog, channel, recorded, marking,
                 orphans, gaveUp, faults>>

PostReport ==
  /\ at = "figured" /\ channel = "ok" /\ ~Editable
  /\ Len(reports) < MaxMessages
  /\ reports' = Append(reports, Rendered)
  /\ made' = Len(reports') /\ at' = "shown"
  /\ UNCHANGED <<delivered, release, rows, pending, run, prog, channel, recorded, marking,
                 orphans, gaveUp, faults>>

\* The message that was posted or edited is the contract's report.  It heals a
\* failed edit of Mark paid, if the run has read that mark.
Recorded ==
  /\ at = "shown" /\ at' = "latched"
  /\ report' = made /\ orphans' = orphans \ {made}
  /\ excused' = (excused /\ ~prog.paid)
  /\ prog' = NoProg /\ made' = NoReport
  /\ UNCHANGED <<delivered, release, rows, pending, run, channel, reports, paid, officer,
                 gaveUp, faults>>


MarkPayoutPosted == Recorded /\ latch' = TRUE

\* The outbox records the outcome; cut off before that, the task runs once more.
MarkDone ==
  /\ at = "latched"
  /\ Succeeds
  /\ UNCHANGED <<delivered, release, rows, channel, reports, recorded, marking, faults>>

\* An error or an outcome that was not recorded: the task is run again.
RunAgain ==
  /\ run # None
  /\ faults < MaxFaults /\ faults' = faults + 1
  /\ pending' = pending \cup {run}
  /\ Over
  /\ UNCHANGED <<delivered, release, rows, channel, reports, recorded, marking, gaveUp>>

Abandon ==
  /\ run # None
  /\ faults < MaxFaults /\ faults' = faults + 1
  /\ gaveUp' = TRUE
  /\ Over
  /\ UNCHANGED <<delivered, release, rows, pending, channel, reports, recorded, marking>>

\* A crash or a restart, possibly with another release; an officer's edit, too,
\* is cut off.
Restart ==
  /\ faults < MaxFaults /\ faults' = faults + 1
  /\ release' \in Releases
  /\ pending' = pending \cup ({run} \ {None})
  /\ officer' = Nobody /\ excused' = (excused \/ officer # Nobody)
  /\ Over
  /\ UNCHANGED <<delivered, rows, channel, reports, recorded, paid, gaveUp>>

-----------------------------------------------------------------------------
(* Officers and admins.                                                    *)

\* The button needs a reports channel.
RequestPayoutRepost ==
  /\ channel # "none"
  /\ pending' = pending \cup {"repost"}
  /\ UNCHANGED <<delivered, release, rows, run, at, prog, made, channel, reports,
                 recorded, marking, orphans, gaveUp, faults>>

\* One press wins (UPDATE ... WHERE payouts_paid_at IS NULL).
MarkPayoutsPaid ==
  /\ ~paid
  /\ paid' = TRUE /\ officer' = [at |-> "won", report |-> NoReport]
  /\ excused' = (at \in {"read", "figured", "shown"})
  /\ UNCHANGED <<delivered, release, rows, task, channel, reports, recorded,
                 orphans, gaveUp, faults>>

\* editReportAfterPaid: there may be no report to edit yet.
OfficerReads ==
  /\ officer.at = "won"
  /\ officer' = IF report = NoReport THEN Nobody ELSE [at |-> "editing", report |-> report]
  /\ UNCHANGED <<delivered, release, rows, task, channel, reports, recorded, paid, excused,
                 orphans, gaveUp, faults>>

\* Mutant: a report is left as it is.
OfficerForgets ==
  /\ officer.at = "editing"
  /\ officer' = Nobody
  /\ UNCHANGED <<delivered, release, rows, task, channel, reports, recorded, paid,
                 excused, orphans, gaveUp, faults>>

OfficerEdits ==
  /\ officer.at = "editing"
  /\ officer' = Nobody
  /\ reports' = IF reports[officer.report].there
                THEN [reports EXCEPT ![officer.report] =
                        [there |-> TRUE, rows |-> saved, step |-> stamp, paid |-> TRUE]]
                ELSE reports
  /\ UNCHANGED <<delivered, release, rows, task, channel, recorded, paid, excused,
                 orphans, gaveUp, faults>>

OfficerFails ==
  /\ officer # Nobody
  /\ faults < MaxFaults /\ faults' = faults + 1
  /\ officer' = Nobody /\ excused' = TRUE
  /\ UNCHANGED <<delivered, release, rows, task, channel, reports, recorded, paid,
                 orphans, gaveUp>>

SetReportsChannel(c) ==
  /\ channel' = c
  /\ UNCHANGED <<delivered, release, rows, task, reports, recorded, marking,
                 orphans, gaveUp, faults>>

DeletedByHand(m) ==
  /\ faults < MaxFaults /\ faults' = faults + 1
  /\ reports[m].there
  /\ reports' = [reports EXCEPT ![m].there = FALSE]
  /\ UNCHANGED <<delivered, release, rows, task, channel, recorded, marking,
                 orphans, gaveUp>>

-----------------------------------------------------------------------------

TaskStep ==
  \/ \E t \in {"first", "repost"} : Start(t)
  \/ AlreadyPosted \/ ComputeOnce \/ NowhereToPost
  \/ EditReport \/ PostReport \/ MarkPayoutPosted \/ MarkDone

Next ==
  \/ TaskStep \/ RunAgain \/ Abandon \/ Restart
  \/ RequestPayoutRepost
  \/ MarkPayoutsPaid \/ OfficerReads \/ OfficerEdits \/ OfficerFails
  \/ \E c \in {"none", "ok", "gone"} : SetReportsChannel(c)
  \/ \E m \in DOMAIN reports : DeletedByHand(m)

Spec == Init /\ [][Next]_vars

\* The outbox runs a task that is due (OutboxDelivery), and handlers end.
FairSpec == Spec /\ WF_vars(TaskStep)

-----------------------------------------------------------------------------
(* Properties.                                                             *)

\* "Sum of amounts <= pool holds structurally", and "the full pool distributes
\* up to the truncation remainder" (payout.go:70-78): less than one unit per
\* deliverer stays behind, unless nothing delivered has a price.
FiguresAddUp ==
  saved # NoRelease =>
    LET left == Pool(saved.step) - Sum([u \in Users |-> Amount(saved, u)])
    IN /\ left >= 0
       /\ Value(saved) > 0 => left < saved.step * Cardinality(Deliverers)

\* "a retry with drifted catalog prices can never change posted figures"
\* (tasks_payout.go:25-27): every report ever posted shows the saved rows at the
\* saved precision.  And apart from the recorded one there are only those whose
\* run was cut off between posting and recording (tasks_payout.go:31-33).
ReportsAgree ==
  \A m \in DOMAIN reports :
    /\ reports[m].rows = saved /\ reports[m].step = saved.step
    /\ reports[m].there => m \in {report, made} \cup orphans

\* A report that does not say "paid" though the payouts are: an edit that will
\* say so is under way, or it failed or Mark paid was pressed during a run that
\* had already read the contract.  Even then no report that was recorded by a run
\* started after Mark paid (a Reprint, editing in place or posting anew) denies it.
PaidIsShown ==
  paid /\ report # NoReport /\ reports[report].there /\ ~reports[report].paid =>
    officer # Nobody \/ excused

=============================================================================
