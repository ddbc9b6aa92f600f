------------------------- MODULE ContractSweepProofs -------------------------
(***************************************************************************)
(* Proofs about ContractSweep, for any number of sweepers and of           *)
(* transactions beside them, any notice window, and any number of faults:  *)
(* sweepers that overlap enqueue one notice between them, no contract is   *)
(* expired ahead of the deadline it has then, and a closed one is final.   *)
(***************************************************************************)
EXTENDS ContractSweep, TLAPS

\* The contract's row is held by the transaction or the update that has locked
\* it and by no other, and only while the contract is open.
RowLock ==
  /\ \A c \in Clients : holder = c <=> tx[c].at = "locked"
  /\ \A s \in Sweepers : holder = s <=> sweep[s].at \in {"expired", "noticed"}
  /\ holder # Nobody => status = "open"

\* A transaction that is under way does something, to a member if it must.
TxAsked ==
  \A c \in Clients :
    tx[c].at # "idle" =>
      /\ tx[c].kind # "none"
      /\ tx[c].kind \in {"participate", "release"} => tx[c].user \in Users

\* The time MarkExpired goes by is past, and once it has the row the deadline is
\* known to be behind that time.
DueWhenExpired ==
  \A s \in Sweepers :
    /\ sweep[s].at \in {"expiring", "expired"} => sweep[s].then <= clock
    /\ sweep[s].at = "expired" => Passed(sweep[s].then)

\* A sweeper about to latch the notice found it unlatched.
UnlatchedWhenNoticed == \A s \in Sweepers : sweep[s].at = "noticed" => ~latch

IInv ==
  /\ TypeOK
  /\ RowLock
  /\ TxAsked
  /\ DueWhenExpired
  /\ UnlatchedWhenNoticed
  /\ OneNotice

TxRecord == [at : {"idle", "waiting", "locked"}, kind : Kinds,
             user : Users \cup {Nobody}, deadline : Deadline, now : Time]
Sweep == [at : {"idle", "due", "expiring", "expired",
                "scanning", "soon", "noticing", "noticed"},
          now : Time, then : Time]

LEMMA Constants ==
  /\ MaxTime \in Nat /\ MaxFaults \in Nat /\ 0 \in Time
  /\ NoDeadline \in Deadline
  /\ \A t \in Time : t \in Nat
  /\ NoTx \in TxRecord /\ Resting \in Sweep
BY SweepAssumption DEF Time, Deadline, NoDeadline, NoTx, Resting, TxRecord, Sweep, Kinds

LEMMA InitInv == Init => IInv
<1> SUFFICES ASSUME Init PROVE IInv
  OBVIOUS
<1> USE DEF Init
<1>1. TypeOK
  <2>1. tx \in [Clients -> TxRecord] /\ sweep \in [Sweepers -> Sweep]
    BY Constants
  <2>2. notices \in 0 .. 1 /\ faults \in 0 .. MaxFaults /\ clock \in Time
    BY Constants
  <2> QED BY <2>1, <2>2 DEF TypeOK, TxRecord, Sweep
<1>2. RowLock
  BY SweepAssumption DEF RowLock, NoTx, Resting
<1>3. TxAsked /\ DueWhenExpired /\ UnlatchedWhenNoticed /\ OneNotice
  BY DEF TxAsked, DueWhenExpired, UnlatchedWhenNoticed, OneNotice, NoTx, Resting
<1> QED BY <1>1, <1>2, <1>3 DEF IInv

-----------------------------------------------------------------------------
(* Time, and the members' and officers' transactions.                      *)

LEMMA TimeInv == ASSUME IInv, TimePasses PROVE IInv'
<1> USE DEF IInv, TimePasses, row
<1>1. clock' \in Time /\ clock <= clock' /\ \A t \in Time : t <= clock => t <= clock'
  BY SweepAssumption DEF TypeOK, Time
<1>2. TypeOK'
  BY <1>1 DEF TypeOK
<1>3. DueWhenExpired'
  BY <1>1 DEF TypeOK, DueWhenExpired, Passed
<1>4. RowLock' /\ TxAsked' /\ UnlatchedWhenNoticed' /\ OneNotice'
  BY DEF RowLock, TxAsked, UnlatchedWhenNoticed, OneNotice
<1> QED BY <1>2, <1>3, <1>4

LEMMA BeginInv == ASSUME IInv, NEW c \in Clients, Begin(c) PROVE IInv'
<1> USE DEF IInv, row
<1>1. PICK r \in Requests :
        tx' = [tx EXCEPT ![c] = [at |-> "waiting", kind |-> r.kind, user |-> r.user,
                                 deadline |-> r.deadline, now |-> clock]]
  BY DEF Begin
<1> DEFINE t == [at |-> "waiting", kind |-> r.kind, user |-> r.user,
                 deadline |-> r.deadline, now |-> clock]
<1>2. /\ r.kind \in Kinds \ {"none"} /\ r.user \in Users \cup {Nobody} /\ r.deadline \in Deadline
      /\ r.kind \in {"participate", "release"} => r.user \in Users
  BY Constants DEF Requests, Kinds
<1>3. t \in TxRecord /\ t.at = "waiting" /\ t.kind = r.kind /\ t.user = r.user
  BY <1>2 DEF TxRecord, TypeOK
<1>4. /\ tx' = [tx EXCEPT ![c] = t] /\ tx[c].at = "idle"
      /\ UNCHANGED <<clock, row, members, holder, sweep, faults>>
  BY <1>1 DEF Begin
<1> HIDE DEF t
<1>5. TypeOK'
  BY <1>3, <1>4 DEF TypeOK, TxRecord
<1>6. RowLock'
  BY <1>3, <1>4 DEF RowLock, TypeOK
<1>7. TxAsked'
  BY <1>2, <1>3, <1>4 DEF TxAsked, TypeOK
<1>8. DueWhenExpired' /\ UnlatchedWhenNoticed' /\ OneNotice'
  BY <1>4 DEF DueWhenExpired, Passed, UnlatchedWhenNoticed, OneNotice
<1> QED BY <1>5, <1>6, <1>7, <1>8

LEMMA LockInv == ASSUME IInv, NEW c \in Clients, Lock(c) PROVE IInv'
<1> USE DEF IInv, Lock, row
<1>1. TypeOK'
  BY DEF TypeOK
<1>2. RowLock'
  BY SweepAssumption DEF RowLock, TypeOK, Admitted
<1>3. TxAsked'
  BY DEF TxAsked, TypeOK
<1>4. DueWhenExpired' /\ UnlatchedWhenNoticed' /\ OneNotice'
  BY DEF DueWhenExpired, Passed, UnlatchedWhenNoticed, OneNotice
<1> QED BY <1>1, <1>2, <1>3, <1>4

LEMMA RollBackInv == ASSUME IInv, NEW c \in Clients, RollBack(c) PROVE IInv'
<1> USE DEF IInv, RollBack, row
<1>0. tx' = [tx EXCEPT ![c] = NoTx] /\ NoTx \in TxRecord /\ NoTx.at = "idle"
  BY Constants DEF NoTx
<1>1. TypeOK'
  <2>1. faults' \in 0 .. MaxFaults
    BY SweepAssumption DEF TypeOK
  <2> QED BY <1>0, <2>1 DEF TypeOK, TxRecord
<1>2. RowLock'
  BY <1>0, SweepAssumption DEF RowLock, TypeOK
<1>3. TxAsked'
  BY <1>0 DEF TxAsked, TypeOK
<1>4. DueWhenExpired' /\ UnlatchedWhenNoticed' /\ OneNotice'
  BY DEF DueWhenExpired, Passed, UnlatchedWhenNoticed, OneNotice
<1> QED BY <1>1, <1>2, <1>3, <1>4

\* The lock is the client's, so no sweeper stands on what the commit changes.
LEMMA CommitInv == ASSUME IInv, NEW c \in Clients, Commit(c) PROVE IInv'
<1> USE DEF IInv, row
<1>0. tx' = [tx EXCEPT ![c] = NoTx] /\ NoTx \in TxRecord /\ NoTx.at = "idle"
  BY Constants DEF Commit, NoTx
<1>1. /\ tx[c].at = "locked" /\ holder = c /\ holder' = Nobody
      /\ UNCHANGED <<clock, sweep, faults>>
      /\ tx[c] \in TxRecord /\ tx[c].kind \in {"participate", "release", "deadline", "cancel"}
      /\ tx[c].kind \in {"participate", "release"} => tx[c].user \in Users
  BY DEF Commit, RowLock, TypeOK, TxAsked, TxRecord, Kinds
<1>2. \A s \in Sweepers : sweep[s].at \notin {"expired", "noticed"}
  BY <1>1, SweepAssumption DEF RowLock
<1>3. /\ status' \in {"open", "expired", "cancelled"} /\ deadline' \in Deadline
      /\ latch' \in BOOLEAN /\ notices' \in 0 .. 1 /\ members' \in SUBSET Users
      /\ OneNotice'
  <2>1. CASE tx[c].kind = "participate"
    BY <1>1, <2>1 DEF Commit, TypeOK, OneNotice
  <2>2. CASE tx[c].kind = "release"
    BY <1>1, <2>2 DEF Commit, TypeOK, OneNotice
  <2>3. CASE tx[c].kind = "deadline"
    <3>1. SetDeadline(tx[c].deadline)
      BY <1>1, <2>3 DEF Commit
    <3>2. tx[c].deadline \in Deadline
      BY <1>1 DEF TxRecord
    <3>3. /\ deadline' \in Deadline /\ latch' = FALSE /\ notices' = 0
          /\ status' = status /\ members' = members
      BY <3>1, <3>2 DEF SetDeadline
    <3>4. OneNotice' /\ latch' \in BOOLEAN
      BY <3>3, Zenon DEF OneNotice
    <3>5. notices' \in 0 .. 1
      BY <3>3
    <3> QED BY <3>3, <3>4, <3>5 DEF TypeOK
  <2>4. CASE tx[c].kind = "cancel"
    BY <1>1, <2>4 DEF Commit, TypeOK, OneNotice
  <2> QED BY <1>1, <2>1, <2>2, <2>3, <2>4
<1>4. TypeOK'
  BY <1>0, <1>1, <1>3 DEF TypeOK, TxRecord
<1>5. RowLock'
  BY <1>0, <1>1, <1>2, SweepAssumption DEF RowLock, TypeOK
<1>6. TxAsked'
  BY <1>0 DEF TxAsked, TypeOK
<1>7. DueWhenExpired' /\ UnlatchedWhenNoticed'
  BY <1>1, <1>2 DEF DueWhenExpired, UnlatchedWhenNoticed
<1> QED BY <1>3, <1>4, <1>5, <1>6, <1>7

-----------------------------------------------------------------------------
(* The sweepers.                                                           *)

\* A sweeper's step that changes no row and takes no lock: it gets to a place
\* from which it has still to begin, or it rests, giving up the lock if it had it.
Moves(s) ==
  /\ \E w \in Sweep :
       /\ sweep' = [sweep EXCEPT ![s] = w]
       /\ w.at \notin {"expired", "noticed"}
       /\ w.at = "expiring" => w.then <= clock
  /\ holder' = IF holder = s THEN Nobody ELSE holder
  /\ faults' \in 0 .. MaxFaults
  /\ UNCHANGED <<clock, row, members, tx>>

LEMMA MovesInv == ASSUME IInv, NEW s \in Sweepers, Moves(s) PROVE IInv'
<1> USE DEF IInv, row
<1>1. PICK w \in Sweep :
        /\ sweep' = [sweep EXCEPT ![s] = w]
        /\ w.at \notin {"expired", "noticed"}
        /\ w.at = "expiring" => w.then <= clock
  BY DEF Moves
<1>2. /\ holder' = IF holder = s THEN Nobody ELSE holder
      /\ faults' \in 0 .. MaxFaults
      /\ UNCHANGED <<clock, row, members, tx>>
  BY DEF Moves
<1>3. TypeOK'
  BY <1>1, <1>2 DEF TypeOK, Sweep
<1>4. RowLock'
  BY <1>1, <1>2, SweepAssumption DEF RowLock, TypeOK
<1>5. TxAsked' /\ OneNotice'
  BY <1>2 DEF TxAsked, OneNotice
<1>6. DueWhenExpired' /\ UnlatchedWhenNoticed'
  BY <1>1, <1>2 DEF DueWhenExpired, Passed, UnlatchedWhenNoticed, TypeOK
<1> QED BY <1>3, <1>4, <1>5, <1>6

LEMMA SweepMoves ==
  ASSUME IInv, NEW s \in Sweepers,
         \/ DueContracts(s) \/ ExpireStarts(s) \/ NotifyDue(s) \/ NoticeStarts(s)
         \/ Fails(s)
         \/ ExpireLocks(s) /\ ~Expirable(sweep[s].then)
         \/ NoticeLocks(s) /\ ~(status = "open" /\ ~latch)
  PROVE  Moves(s)
<1> USE DEF IInv
<1>0. /\ sweep \in [Sweepers -> Sweep] /\ sweep[s] \in Sweep
      /\ clock \in Time /\ 0 \in Time /\ clock <= clock
      /\ faults \in 0 .. MaxFaults
      /\ Resting \in Sweep /\ Resting.at = "idle"
  BY Constants DEF TypeOK, Sweep, Resting
<1> DEFINE w == sweep'[s]
<1>1. CASE DueContracts(s)
  <2> DEFINE v == [at |-> IF Passed(clock) THEN "due" ELSE "scanning", now |-> clock, then |-> 0]
  <2>1. v \in Sweep /\ v.at \in {"due", "scanning"} /\ sweep' = [sweep EXCEPT ![s] = v]
    BY <1>0, <1>1 DEF DueContracts, Sweep
  <2>2. holder # s
    BY <1>1 DEF DueContracts, RowLock
  <2> QED BY <1>0, <1>1, <2>1, <2>2 DEF DueContracts, Moves
<1>2. CASE ExpireStarts(s)
  <2>1. holder # s
    BY <1>2 DEF ExpireStarts, RowLock
  <2>2. CASE Expirable(clock)
    <3> DEFINE v == [sweep[s] EXCEPT !.at = "expiring", !.then = clock]
    <3>1. v \in Sweep /\ v.at = "expiring" /\ v.then = clock
      BY <1>0 DEF Sweep
    <3>2. sweep' = [sweep EXCEPT ![s] = v]
      BY <1>0, <1>2, <2>2 DEF ExpireStarts
    <3> HIDE DEF v
    <3> QED BY <1>0, <1>2, <2>1, <3>1, <3>2 DEF ExpireStarts, Moves
  <2>3. CASE ~Expirable(clock)
    <3> DEFINE v == [sweep[s] EXCEPT !.at = "scanning", !.then = 0]
    <3>1. v \in Sweep /\ v.at = "scanning"
      BY <1>0 DEF Sweep
    <3>2. sweep' = [sweep EXCEPT ![s] = v]
      BY <1>0, <1>2, <2>3 DEF ExpireStarts, Scans
    <3> HIDE DEF v
    <3> QED BY <1>0, <1>2, <2>1, <3>1, <3>2 DEF ExpireStarts, Moves
  <2> QED BY <2>2, <2>3
<1>s. ASSUME NEW place \in {"scanning", "soon", "noticing"},
             \/ Goes(s, place) \/ Rests(s) \/ Scans(s),
             faults' \in 0 .. MaxFaults,
             holder' = IF holder = s THEN Nobody ELSE holder,
             UNCHANGED <<clock, row, members, tx>>
      PROVE  Moves(s)
  <2>1. CASE Goes(s, place)
    <3> DEFINE v == [sweep[s] EXCEPT !.at = place]
    <3>1. v \in Sweep /\ v.at = place /\ sweep' = [sweep EXCEPT ![s] = v]
      BY <1>0, <2>1 DEF Sweep, Goes
    <3> HIDE DEF v
    <3> QED BY <1>s, <3>1 DEF Moves
  <2>2. CASE Rests(s)
    BY <1>0, <1>s, <2>2 DEF Rests, Moves
  <2>3. CASE Scans(s)
    <3> DEFINE v == [sweep[s] EXCEPT !.at = "scanning", !.then = 0]
    <3>1. v \in Sweep /\ v.at = "scanning" /\ sweep' = [sweep EXCEPT ![s] = v]
      BY <1>0, <2>3 DEF Sweep, Scans
    <3> HIDE DEF v
    <3> QED BY <1>s, <3>1 DEF Moves
  <2> QED BY <1>s, <2>1, <2>2, <2>3
<1>3. CASE NotifyDue(s)
  <2>1. holder # s
    BY <1>3 DEF NotifyDue, RowLock
  <2> QED BY <1>0, <1>s, <1>3, <2>1 DEF NotifyDue
<1>4. CASE NoticeStarts(s)
  <2>1. holder # s
    BY <1>4 DEF NoticeStarts, RowLock
  <2> QED BY <1>0, <1>s, <1>4, <2>1 DEF NoticeStarts
<1>5. CASE Fails(s)
  <2>1. faults' \in 0 .. MaxFaults
    BY <1>5, <1>0, SweepAssumption DEF Fails
  <2> QED BY <1>s, <1>5, <2>1 DEF Fails
<1>6. CASE ExpireLocks(s) /\ ~Expirable(sweep[s].then)
  <2>1. holder # s
    BY <1>6 DEF ExpireLocks, RowLock
  <2> QED BY <1>0, <1>s, <1>6, <2>1 DEF ExpireLocks
<1>7. CASE NoticeLocks(s) /\ ~(status = "open" /\ ~latch)
  <2>1. holder # s
    BY <1>7 DEF NoticeLocks, RowLock
  <2> QED BY <1>0, <1>s, <1>7, <2>1 DEF NoticeLocks
<1> QED BY <1>1, <1>2, <1>3, <1>4, <1>5, <1>6, <1>7

\* It gets the row, and looks at its columns again.
LEMMA SweepLocksInv ==
  ASSUME IInv, NEW s \in Sweepers,
         \/ ExpireLocks(s) /\ Expirable(sweep[s].then)
         \/ NoticeLocks(s) /\ status = "open" /\ ~latch
  PROVE  IInv'
<1> USE DEF IInv, row
<1> DEFINE place == IF ExpireLocks(s) THEN "expired" ELSE "noticed"
<1>1. PICK at \in {"expired", "noticed"} :
        /\ sweep' = [sweep EXCEPT ![s].at = at]
        /\ at = "expired" => /\ sweep[s].at = "expiring"
                             /\ Passed(sweep[s].then)
        /\ at = "noticed" => ~latch
  BY DEF ExpireLocks, NoticeLocks, Expirable, Goes
<1>2. /\ holder = Nobody /\ holder' = s /\ status = "open"
      /\ UNCHANGED <<clock, row, members, tx, faults>>
  BY DEF ExpireLocks, NoticeLocks, Expirable
<1>3. /\ sweep'[s].at = at /\ sweep'[s].then = sweep[s].then
      /\ \A r \in Sweepers \ {s} : sweep'[r] = sweep[r]
  BY <1>1 DEF TypeOK
<1>4. TypeOK'
  BY <1>1, <1>2 DEF TypeOK
<1>5. RowLock'
  BY <1>2, <1>3, SweepAssumption DEF RowLock
<1>6. TxAsked' /\ OneNotice'
  BY <1>2 DEF TxAsked, OneNotice
<1>7. DueWhenExpired' /\ UnlatchedWhenNoticed'
  BY <1>1, <1>2, <1>3 DEF DueWhenExpired, Passed, UnlatchedWhenNoticed
<1> QED BY <1>4, <1>5, <1>6, <1>7

LEMMA MarkExpiredInv == ASSUME IInv, NEW s \in Sweepers, MarkExpired(s) PROVE IInv'
<1> USE DEF IInv, row
<1>1. /\ sweep[s].at = "expired" /\ holder = s
      /\ status' = "expired" /\ holder' = Nobody
      /\ sweep' = [sweep EXCEPT ![s].at = "scanning", ![s].then = 0]
      /\ UNCHANGED <<clock, deadline, latch, notices, members, tx, faults>>
  BY DEF MarkExpired, RowLock, Scans
<1>2. /\ sweep'[s].at = "scanning"
      /\ \A r \in Sweepers \ {s} : sweep'[r] = sweep[r]
  BY <1>1 DEF TypeOK
<1>3. TypeOK'
  BY <1>1, Constants DEF TypeOK
<1>4. RowLock'
  BY <1>1, <1>2, SweepAssumption DEF RowLock
<1>5. TxAsked' /\ OneNotice'
  BY <1>1 DEF TxAsked, OneNotice
<1>6. DueWhenExpired' /\ UnlatchedWhenNoticed'
  BY <1>1, <1>2 DEF DueWhenExpired, Passed, UnlatchedWhenNoticed
<1> QED BY <1>3, <1>4, <1>5, <1>6

LEMMA MarkNotifiedInv == ASSUME IInv, NEW s \in Sweepers, MarkNotified(s) PROVE IInv'
<1> USE DEF IInv, row
<1>1. /\ sweep[s].at = "noticed" /\ holder = s /\ ~latch /\ notices = 0
      /\ latch' = TRUE /\ notices' = notices + 1 /\ holder' = Nobody
      /\ sweep' = [sweep EXCEPT ![s] = Resting]
      /\ UNCHANGED <<clock, status, deadline, members, tx, faults>>
  BY DEF MarkNotified, RowLock, UnlatchedWhenNoticed, OneNotice, Rests
<1>2. /\ sweep'[s].at = "idle" /\ Resting \in Sweep
      /\ \A r \in Sweepers \ {s} : sweep'[r] = sweep[r]
  BY <1>1, Constants DEF TypeOK, Resting
<1>3. TypeOK'
  BY <1>1, <1>2 DEF TypeOK, Sweep
<1>4. RowLock'
  BY <1>1, <1>2, SweepAssumption DEF RowLock
<1>5. \A r \in Sweepers : sweep'[r].at \notin {"expired", "noticed"}
  BY <1>1, <1>2, SweepAssumption DEF RowLock
<1>6. TxAsked' /\ OneNotice'
  BY <1>1 DEF TxAsked, OneNotice
<1>7. DueWhenExpired' /\ UnlatchedWhenNoticed'
  BY <1>1, <1>2, <1>5 DEF DueWhenExpired, Passed, UnlatchedWhenNoticed
<1> QED BY <1>3, <1>4, <1>6, <1>7

LEMMA NextInv == ASSUME IInv, [Next]_vars PROVE IInv'
<1>1. CASE UNCHANGED vars
  BY <1>1 DEF vars, row, IInv, TypeOK, RowLock, TxAsked, DueWhenExpired, Passed,
     UnlatchedWhenNoticed, OneNotice
<1>2. CASE TimePasses
  BY <1>2, TimeInv
<1>3. ASSUME NEW c \in Clients, Begin(c) \/ ClientStep(c) PROVE IInv'
  BY <1>3, BeginInv, LockInv, CommitInv, RollBackInv DEF ClientStep
<1>4. ASSUME NEW s \in Sweepers, SweepStep(s) \/ Fails(s) PROVE IInv'
  BY <1>4, SweepMoves, MovesInv, SweepLocksInv, MarkExpiredInv, MarkNotifiedInv
     DEF SweepStep
<1> QED BY <1>1, <1>2, <1>3, <1>4 DEF Next

-----------------------------------------------------------------------------

THEOREM IInvHolds == Spec => []IInv
<1>1. Init => IInv
  BY InitInv
<1>2. IInv /\ [Next]_vars => IInv'
  BY NextInv
<1> QED BY <1>1, <1>2, PTL DEF Spec

\* The contract's columns, and what sweepers and transactions carry, keep their types.
THEOREM TypeCorrect == Spec => []TypeOK
<1>1. IInv => TypeOK
  BY DEF IInv
<1> QED BY <1>1, IInvHolds, PTL

\* However many sweepers overlap (sweeper.go:82-84), one notice is enqueued each
\* time the deadline was set.
THEOREM OneNoticeHolds == Spec => []OneNotice
<1>1. IInv => OneNotice
  BY DEF IInv
<1> QED BY <1>1, IInvHolds, PTL

\* The deadline is behind when MarkExpired closes the contract, even if it was
\* extended between the scan and the update.
THEOREM ExpiresOnTime == Spec => NeverExpiredEarly
<1>1. ASSUME IInv, Next, status' = "expired", status = "open" PROVE Passed(clock)
  <2>1. PICK s \in Sweepers : MarkExpired(s)
    <3>1. ~TimePasses /\ \A c \in Clients : ~Begin(c) /\ ~Lock(c) /\ ~RollBack(c)
      BY <1>1 DEF TimePasses, Begin, Lock, RollBack, row
    <3>2. ASSUME NEW c \in Clients, Commit(c) PROVE FALSE
      <4>1. tx[c].kind \in {"participate", "release", "deadline", "cancel"}
        BY <1>1, <3>2 DEF IInv, TypeOK, TxAsked, Commit, Kinds
      <4> QED BY <1>1, <3>2, <4>1 DEF Commit, SetDeadline, row
    <3>3. \A s \in Sweepers :
            /\ ~DueContracts(s) /\ ~ExpireStarts(s) /\ ~ExpireLocks(s) /\ ~NotifyDue(s)
            /\ ~NoticeStarts(s) /\ ~NoticeLocks(s) /\ ~MarkNotified(s) /\ ~Fails(s)
      BY <1>1 DEF DueContracts, ExpireStarts, ExpireLocks, NotifyDue, NoticeStarts,
         NoticeLocks, MarkNotified, Fails, row
    <3> QED BY <1>1, <3>1, <3>2, <3>3 DEF Next, ClientStep, SweepStep
  <2>2. Passed(sweep[s].then) /\ sweep[s].then <= clock
    BY <1>1, <2>1 DEF IInv, DueWhenExpired, MarkExpired
  <2>3. sweep[s].then \in Nat /\ clock \in Nat /\ deadline \in Nat
    BY <1>1, Constants DEF IInv, TypeOK, Deadline, NoDeadline
  <2> QED BY <2>2, <2>3 DEF Passed
<1> QED BY <1>1, IInvHolds, PTL DEF Spec, NeverExpiredEarly

\* Once cancelled or expired, a contract stays so, whatever sweeper or transaction
\* was already waiting for its row.
THEOREM ClosedStaysClosed == Spec => [][status # "open" => status' = status]_vars
<1>1. ASSUME IInv, Next, status # "open" PROVE status' = status
  <2>1. /\ \A c \in Clients : ~Commit(c)
        /\ \A s \in Sweepers : ~MarkExpired(s)
    BY <1>1, SweepAssumption DEF IInv, RowLock, Commit, MarkExpired
  <2> QED BY <1>1, <2>1 DEF Next, TimePasses, Begin, ClientStep, Lock, RollBack, SweepStep,
      DueContracts, ExpireStarts, ExpireLocks, NotifyDue, NoticeStarts, NoticeLocks,
      MarkNotified, Fails, row
<1> QED BY <1>1, IInvHolds, PTL DEF Spec
=============================================================================
