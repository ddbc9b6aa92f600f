---------------------------- MODULE ContractSweep ----------------------------
(***************************************************************************)
(* The sweeper and the deadline of one contract (features/contracts/       *)
(* sweeper.go and the DueContracts, MarkExpired, NotifyDue and             *)
(* MarkNotified statements of postgres.go), with the transactions of       *)
(* members and officers between its scans and its updates, and with more   *)
(* than one sweeper ("a double-run or second instance can't duplicate a    *)
(* side effect", sweeper.go:82-84).                                        *)
(*                                                                         *)
(* The database is external.  At READ COMMITTED an UPDATE that had to wait *)
(* for its row evaluates its condition again on the row it then finds, but *)
(* sees the rest of the database as it was when the statement began.       *)
(***************************************************************************)
EXTENDS Integers

CONSTANTS
  Sweepers,   \* the running instances' sweepers
  Clients,    \* the handlers, one transaction each
  Users,      \* the members
  Within,     \* Config.ExpiresNotify
  MaxTime,    \* bound of the model: the clock, and the latest deadline
  MaxFaults   \* bound of the model: failed statements and passes cut short

Nobody == "nobody"

ASSUME SweepAssumption ==
  /\ Within \in Nat /\ MaxTime \in Nat /\ MaxFaults \in Nat
  /\ Clients \cap Sweepers = {} /\ Nobody \notin Clients \cup Sweepers

VARIABLES
  clock,
  status,    \* contracts.status
  deadline,  \* contracts.deadline
  latch,     \* contracts.expiry_notified_at is set
  members,   \* the users with a contract_reservations row
  holder,    \* who holds the contract's row
  tx,        \* tx[c]: the transaction of client c
  sweep,     \* sweep[s]: where sweeper s is, and the times it captured
  notices,   \* notify tasks enqueued since the notice was last armed
  faults

row == <<status, deadline, latch, notices>>
vars == <<clock, row, members, holder, tx, sweep, faults>>

Time == 0 .. MaxTime
NoDeadline == MaxTime + 1
Deadline == 1 .. NoDeadline

Passed(t) == deadline # NoDeadline /\ deadline <= t

Kinds == {"none", "participate", "release", "deadline", "cancel"}
NoTx == [at |-> "idle", kind |-> "none", user |-> Nobody, deadline |-> NoDeadline, now |-> 0]
Resting == [at |-> "idle", now |-> 0, then |-> 0]

TypeOK ==
  /\ clock \in Time
  /\ status \in {"open", "expired", "cancelled"}
  /\ deadline \in Deadline /\ latch \in BOOLEAN
  /\ members \in SUBSET Users
  /\ holder \in {Nobody} \cup Clients \cup Sweepers
  /\ tx \in [Clients -> [at : {"idle", "waiting", "locked"}, kind : Kinds,
                         user : Users \cup {Nobody}, deadline : Deadline, now : Time]]
  /\ sweep \in [Sweepers -> [at : {"idle", "due", "expiring", "expired",
                                   "scanning", "soon", "noticing", "noticed"},
                             now : Time, then : Time]]
  /\ notices \in 0 .. 1
  /\ faults \in 0 .. MaxFaults

Init ==
  /\ clock = 0
  /\ status = "open" /\ deadline \in Deadline /\ latch = FALSE
  /\ members = {}
  /\ holder = Nobody
  /\ tx = [c \in Clients |-> NoTx]
  /\ sweep = [s \in Sweepers |-> Resting]
  /\ notices = 0 /\ faults = 0

TimePasses ==
  /\ clock < MaxTime
  /\ clock' = clock + 1
  /\ UNCHANGED <<row, members, holder, tx, sweep, faults>>

-----------------------------------------------------------------------------
(* Members and officers.                                                   *)

\* A new deadline is a time from now, or none.
Requests ==
  {[kind |-> k, user |-> u, deadline |-> NoDeadline] :
     k \in {"participate", "release"}, u \in Users}
  \cup {[kind |-> "deadline", user |-> Nobody, deadline |-> d] :
          d \in {e \in Deadline : e > clock}}
  \cup {[kind |-> "cancel", user |-> Nobody, deadline |-> NoDeadline]}

Begin(c) ==
  /\ tx[c].at = "idle" /\ status = "open"
  /\ \E r \in Requests :
       tx' = [tx EXCEPT ![c] = [at |-> "waiting", kind |-> r.kind, user |-> r.user,
                                deadline |-> r.deadline, now |-> clock]]
  /\ UNCHANGED <<clock, row, members, holder, sweep, faults>>

\* lockOpenContract (lockOpenContractByID) and, for a release, the member's row.
Admitted(c) ==
  /\ status = "open"
  /\ tx[c].kind # "cancel" => ~Passed(tx[c].now)
  /\ tx[c].kind = "release" => tx[c].user \in members

Lock(c) ==
  /\ tx[c].at = "waiting" /\ holder = Nobody /\ Admitted(c)
  /\ holder' = c
  /\ tx' = [tx EXCEPT ![c].at = "locked"]
  /\ UNCHANGED <<clock, row, members, sweep, faults>>

\* Mutant: an error path that leaves the transaction open.
RollBackForgotten(c) ==
  /\ tx[c].at \in {"waiting", "locked"}
  /\ tx' = [tx EXCEPT ![c] = NoTx]
  /\ UNCHANGED <<clock, row, members, holder, sweep, faults>>

\* Refused, given up, or failed.
RollBack(c) ==
  /\ \/ tx[c].at = "waiting" /\ holder = Nobody /\ ~Admitted(c)
     \/ tx[c].at \in {"waiting", "locked"} /\ faults < MaxFaults
  /\ faults' = IF tx[c].at = "waiting" /\ holder = Nobody /\ ~Admitted(c)
               THEN faults ELSE faults + 1
  /\ holder' = IF holder = c THEN Nobody ELSE holder
  /\ tx' = [tx EXCEPT ![c] = NoTx]
  /\ UNCHANGED <<clock, row, members, sweep>>

\* Mutant: the notice stays consumed.
SetDeadlineOnly(d) ==
  /\ deadline' = d
  /\ notices' = 0
  /\ UNCHANGED <<status, latch, members>>

\* The notice is armed again for the new deadline.
SetDeadline(d) ==
  /\ deadline' = d
  /\ latch' = FALSE /\ notices' = 0
  /\ UNCHANGED <<status, members>>

Commit(c) ==
  /\ tx[c].at = "locked"
  /\ CASE tx[c].kind = "participate" ->
            members' = members \cup {tx[c].user} /\ UNCHANGED row
       [] tx[c].kind = "release" ->
            \* of all of it, or of a part
            members' \in {members, members \ {tx[c].user}} /\ UNCHANGED row
       [] tx[c].kind = "deadline" -> SetDeadline(tx[c].deadline)
       [] tx[c].kind = "cancel" ->
            status' = "cancelled" /\ UNCHANGED <<deadline, latch, notices, members>>
  /\ holder' = Nobody
  /\ tx' = [tx EXCEPT ![c] = NoTx]
  /\ UNCHANGED <<clock, sweep, faults>>

-----------------------------------------------------------------------------
(* A sweep: the two scans, and after each the update of what it found.     *)

Goes(s, place) == sweep' = [sweep EXCEPT ![s].at = place]
Scans(s) == sweep' = [sweep EXCEPT ![s].at = "scanning", ![s].then = 0]
Rests(s) == sweep' = [sweep EXCEPT ![s] = Resting]

DueContracts(s) ==
  /\ sweep[s].at = "idle" /\ status = "open"
  /\ sweep' = [sweep EXCEPT ![s] = [at |-> IF Passed(clock) THEN "due" ELSE "scanning",
                                    now |-> clock, then |-> 0]]
  /\ UNCHANGED <<clock, row, members, holder, tx, faults>>

\* The UPDATE of MarkExpired begins, with a time of its own.
Expirable(t) == status = "open" /\ Passed(t)

ExpireStarts(s) ==
  /\ sweep[s].at = "due"
  /\ IF Expirable(clock)
     THEN sweep' = [sweep EXCEPT ![s].at = "expiring", ![s].then = clock]
     ELSE Scans(s)
  /\ UNCHANGED <<clock, row, members, holder, tx, faults>>

\* Mutant: the deadline is not checked again.
ExpireLocksAnyway(s) ==
  /\ sweep[s].at = "expiring" /\ holder = Nobody
  /\ IF status = "open" THEN holder' = s /\ Goes(s, "expired")
     ELSE UNCHANGED holder /\ Scans(s)
  /\ UNCHANGED <<clock, row, members, tx, faults>>

\* It has the row, with the deadline that may have been set meanwhile.
ExpireLocks(s) ==
  /\ sweep[s].at = "expiring" /\ holder = Nobody
  /\ IF Expirable(sweep[s].then) THEN holder' = s /\ Goes(s, "expired")
     ELSE UNCHANGED holder /\ Scans(s)
  /\ UNCHANGED <<clock, row, members, tx, faults>>

MarkExpired(s) ==
  /\ sweep[s].at = "expired"
  /\ status' = "expired"
  /\ holder' = Nobody
  /\ Scans(s)
  /\ UNCHANGED <<clock, deadline, latch, notices, members, tx, faults>>

\* The scan for contracts about to expire goes by the time the sweep began.
NotifyDue(s) ==
  /\ sweep[s].at = "scanning"
  /\ IF /\ status = "open" /\ ~latch /\ members # {}
        /\ deadline # NoDeadline
        /\ deadline > sweep[s].now /\ deadline <= sweep[s].now + Within
     THEN Goes(s, "soon") ELSE Rests(s)
  /\ UNCHANGED <<clock, row, members, holder, tx, faults>>

\* The UPDATE of MarkNotified begins: its EXISTS sees the reservations of now.
NoticeStarts(s) ==
  /\ sweep[s].at = "soon"
  /\ IF status = "open" /\ ~latch /\ members # {} THEN Goes(s, "noticing") ELSE Rests(s)
  /\ UNCHANGED <<clock, row, members, holder, tx, faults>>

\* Mutant: the latch is checked by the scan alone.
NoticeLocksAgain(s) ==
  /\ sweep[s].at = "noticing" /\ holder = Nobody
  /\ IF status = "open" THEN holder' = s /\ Goes(s, "noticed")
     ELSE UNCHANGED holder /\ Rests(s)
  /\ UNCHANGED <<clock, row, members, tx, faults>>

\* It has the row, whose own columns are looked at again.
NoticeLocks(s) ==
  /\ sweep[s].at = "noticing" /\ holder = Nobody
  /\ IF status = "open" /\ ~latch THEN holder' = s /\ Goes(s, "noticed")
     ELSE UNCHANGED holder /\ Rests(s)
  /\ UNCHANGED <<clock, row, members, tx, faults>>

MarkNotified(s) ==
  /\ sweep[s].at = "noticed"
  /\ latch' = TRUE /\ notices' = notices + 1
  /\ holder' = Nobody
  /\ Rests(s)
  /\ UNCHANGED <<clock, status, deadline, members, tx, faults>>

\* A statement fails (logged; the sweep goes on with its next pass), or the
\* sweep's context ends with the sweep timeout or with the process.
Fails(s) ==
  /\ sweep[s].at # "idle" /\ faults < MaxFaults
  /\ faults' = faults + 1
  /\ holder' = IF holder = s THEN Nobody ELSE holder
  /\ \/ Rests(s)
     \/ sweep[s].at \in {"due", "expiring", "expired"} /\ Scans(s)
  /\ UNCHANGED <<clock, row, members, tx>>

SweepStep(s) ==
  \/ DueContracts(s) \/ ExpireStarts(s) \/ ExpireLocks(s) \/ MarkExpired(s)
  \/ NotifyDue(s) \/ NoticeStarts(s) \/ NoticeLocks(s) \/ MarkNotified(s)

-----------------------------------------------------------------------------

ClientStep(c) == Lock(c) \/ Commit(c) \/ RollBack(c)

Next ==
  \/ TimePasses
  \/ \E c \in Clients : Begin(c) \/ ClientStep(c)
  \/ \E s \in Sweepers : SweepStep(s) \/ Fails(s)

Spec == Init /\ [][Next]_vars

\* The ticker ticks, statements return, and nobody keeps a transaction open.
Fairness ==
  /\ \A s \in Sweepers : WF_vars(SweepStep(s))
  /\ \A c \in Clients : WF_vars(ClientStep(c))

FairSpec == Spec /\ Fairness

-----------------------------------------------------------------------------
(* Properties.                                                             *)

\* Sweepers that overlap enqueue one notice between them, for each time the
\* deadline was set.
OneNotice == notices = IF latch THEN 1 ELSE 0

\* A contract is never expired ahead of its deadline, not even when an officer
\* extends or clears it between the sweeper's scan and its update.
NeverExpiredEarly ==
  [][status' = "expired" /\ status = "open" => Passed(clock)]_vars

\* An open contract does not outlive its deadline for ever, unless it gets
\* another one.
OverdueExpires ==
  \A d \in Time :
    status = "open" /\ deadline = d /\ d <= clock ~> ~(status = "open" /\ deadline = d)

\* "contracts within notifyWithin of their deadline (and not yet notified) post
\* the one-shot 'closing soon' participant ping" (sweeper.go:87-88).
InWindow == deadline # NoDeadline /\ deadline <= clock + Within

\* "so the one-shot is never consumed without someone to ping"
\* (postgres.go:1401-1402).
HasAudience == members # {}

\* A notice that is consumed keeps at least one of these two promises: a step that
\* violates this breaks both of them at once.
NoticeIsWarranted == [][latch' /\ ~latch => InWindow \/ HasAudience]_vars
=============================================================================
