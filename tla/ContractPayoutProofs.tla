------------------------ MODULE ContractPayoutProofs ------------------------
(***************************************************************************)
(* Proofs about ContractPayout, for any releases, any number of reports    *)
(* and of faults: the figures of a report add up and never change, no      *)
(* report is lost track of but by a run that was cut off, and none goes on *)
(* denying that the payouts were made.                                     *)
(***************************************************************************)
EXTENDS ContractPayout, SequenceTheorems, TallyProofs

\* How far a run is, and what it then holds: the report it made, once it has,
\* and until it is recorded the report the contract had when it was read.
RunInStep ==
  /\ run = None <=> at = "idle"
  /\ at = "shown" <=> made # NoReport
  /\ at \in {"read", "figured", "shown"} => prog.report = report

\* The rows and the precision are written together, once.
RowsStamped == stamp = saved.step

\* The precision a run will show is that of the rows: it read it with the
\* contract, or it has just computed them under the running release.
PrecisionRead ==
  /\ at = "read" => prog.step = stamp
  /\ at = "figured" =>
       /\ saved # NoRelease
       /\ prog.step = saved.step \/ (prog.step = NoStep /\ release.step = saved.step)

\* A run makes a new report only when the recorded one is no longer there.
OldGone ==
  at = "shown" => report \in {made, NoReport} \/ ~reports[report].there

\* What a run knows of Mark paid, unless it was pressed after the run had read
\* the contract, and what the report it made says of it.
PaidRead ==
  /\ prog.paid => paid
  /\ paid /\ ~excused /\ at \in {"read", "figured", "shown"} => prog.paid
  /\ at = "shown" /\ prog.paid => ~reports[made].there \/ reports[made].paid

\* The officer edits a report that exists.
OfficerHasReport == officer.at = "editing" => officer.report \in DOMAIN reports

\* PaidIsShown, with the edit that is under way: the one of this very report.
PaidIsComing ==
  paid /\ ~excused /\ report # NoReport /\ reports[report].there /\ ~reports[report].paid =>
    officer.at = "won" \/ (officer.at = "editing" /\ officer.report = report)

IInv ==
  /\ TypeOK
  /\ RunInStep
  /\ RowsStamped
  /\ PrecisionRead
  /\ ReportsAgree
  /\ OldGone
  /\ PaidRead
  /\ OfficerHasReport
  /\ PaidIsComing

Steps == {r.step : r \in Releases}

LEMMA Constants ==
  /\ MaxMessages \in Nat /\ MaxFaults \in Nat
  /\ NoRelease \notin Releases /\ NoRelease.step = NoStep
  /\ \A r \in Releases : r.step # NoStep /\ r.step \in Steps
  /\ NoProg \in Prog
<1>1. \A r \in Releases : r.step # NoStep /\ r.step \in Steps
  BY PayoutAssumption DEF NoStep, Steps
<1>2. NoRelease.step = NoStep
  BY DEF NoRelease
<1>3. NoProg \in Prog
  BY DEF NoProg, Prog
<1> QED BY <1>1, <1>2, <1>3, PayoutAssumption

LEMMA InitInv == Init => IInv
<1> SUFFICES ASSUME Init PROVE IInv
  OBVIOUS
<1> USE DEF Init
<1>1. reports \in Seq(Report) /\ Len(reports) = 0 /\ DOMAIN reports = {}
  BY EmptySeq, LenProperties
<1>2. Nobody \in [at : {"idle", "won", "editing"}, report : {NoReport} \cup DOMAIN reports]
  BY DEF Nobody
<1>3. TypeOK
  <2>1. {latch, paid, excused, gaveUp} \subseteq BOOLEAN
    OBVIOUS
  <2>2. Len(reports) <= MaxMessages /\ faults \in 0 .. MaxFaults
    BY <1>1, Constants
  <2> QED BY <1>1, <1>2, <2>1, <2>2, Constants DEF TypeOK, None
<1>4. RunInStep /\ RowsStamped /\ PrecisionRead
  BY Constants DEF RunInStep, RowsStamped, PrecisionRead, None
<1>5. ReportsAgree /\ OldGone /\ PaidRead /\ OfficerHasReport /\ PaidIsComing
  BY <1>1 DEF ReportsAgree, OldGone, PaidRead, OfficerHasReport, PaidIsComing, Nobody, NoProg
<1> QED BY <1>3, <1>4, <1>5 DEF IInv

-----------------------------------------------------------------------------
(* The report messages.                                                    *)

\* The messages are numbered in the order they were posted.
LEMMA Numbered ==
  ASSUME TypeOK
  PROVE  /\ Len(reports) \in 0 .. MaxMessages
         /\ DOMAIN reports = 1 .. Len(reports) /\ DOMAIN reports \subseteq ReportId
         /\ \A m \in DOMAIN reports : m # NoReport /\ reports[m] \in Report
<1>1. reports \in Seq(Report) /\ Len(reports) <= MaxMessages
  BY DEF TypeOK
<1>2. /\ Len(reports) \in Nat
      /\ reports \in [1 .. Len(reports) -> Report]
      /\ DOMAIN reports = 1 .. Len(reports)
  BY <1>1, LenProperties
<1> QED BY <1>1, <1>2, Constants DEF ReportId, NoReport

\* A report shows rows, so they have been saved.
LEMMA ReportedIsSaved ==
  ASSUME TypeOK, ReportsAgree, NEW m \in DOMAIN reports
  PROVE  saved \in Releases /\ saved # NoRelease
BY Numbered, Constants DEF ReportsAgree, Report

\* One message is edited: the others are as they were.
LEMMA OneEdited ==
  ASSUME TypeOK, NEW m \in DOMAIN reports, NEW e \in Report,
         reports' = [reports EXCEPT ![m] = e]
  PROVE  /\ reports' \in Seq(Report) /\ Len(reports') <= MaxMessages
         /\ DOMAIN reports' = DOMAIN reports
         /\ \A n \in DOMAIN reports : reports'[n] = IF n = m THEN e ELSE reports[n]
<1>1. reports \in Seq(Report) /\ m \in 1 .. Len(reports)
  BY Numbered DEF TypeOK
<1>2. /\ [reports EXCEPT ![m] = e] \in Seq(Report)
      /\ Len([reports EXCEPT ![m] = e]) = Len(reports)
  BY <1>1, ExceptSeq
<1> QED BY <1>2 DEF TypeOK

\* One message more: it comes last.
LEMMA OnePosted ==
  ASSUME TypeOK, NEW e \in Report, Len(reports) < MaxMessages,
         reports' = Append(reports, e)
  PROVE  /\ reports' \in Seq(Report) /\ Len(reports') <= MaxMessages
         /\ DOMAIN reports' = DOMAIN reports \cup {Len(reports')}
         /\ Len(reports') \notin DOMAIN reports /\ Len(reports') # NoReport
         /\ reports'[Len(reports')] = e
         /\ \A n \in DOMAIN reports : reports'[n] = reports[n]
<1>1. reports \in Seq(Report) /\ Len(reports) \in Nat /\ DOMAIN reports = 1 .. Len(reports)
  BY Numbered DEF TypeOK
<1>2. /\ reports' \in Seq(Report) /\ Len(reports') = Len(reports) + 1
      /\ \A n \in 1 .. Len(reports) : reports'[n] = reports[n]
      /\ reports'[Len(reports) + 1] = e
  BY <1>1, AppendProperties
<1>3. DOMAIN reports' = 1 .. Len(reports')
  BY <1>2, LenProperties
<1> QED BY <1>1, <1>2, <1>3, Constants DEF NoReport

\* What a run shows are the saved rows at their precision.
LEMMA RenderedRows ==
  ASSUME IInv, at = "figured"
  PROVE  /\ Rendered \in Report /\ Rendered.rows = saved /\ Rendered.step = saved.step
         /\ Rendered.there /\ Rendered.paid = prog.paid
<1>1. /\ saved \in Releases /\ release \in Releases
      /\ prog.step = saved.step \/ (prog.step = NoStep /\ release.step = saved.step)
  BY DEF IInv, PrecisionRead, TypeOK
<1>2. (IF prog.step = NoStep THEN release.step ELSE prog.step) = saved.step
  BY <1>1, Constants
<1>3. saved.step \in {r.step : r \in Releases} /\ prog.paid \in BOOLEAN
  BY <1>1 DEF IInv, TypeOK, Prog
<1> QED BY <1>1, <1>2, <1>3 DEF Rendered, Report

-----------------------------------------------------------------------------
(* The payout task.                                                        *)

LEMMA StartInv == ASSUME IInv, NEW t \in {"first", "repost"}, Start(t) PROVE IInv'
<1> USE DEF IInv, Start, rows, recorded, marking
<1>1. report \in {NoReport} \cup ReportId
  BY Numbered DEF TypeOK
<1>2. prog' \in Prog
  BY <1>1 DEF TypeOK, Prog
<1>3. TypeOK'
  <2>1. pending' \subseteq pending
    OBVIOUS
  <2> QED BY <1>2, <2>1 DEF TypeOK
<1>4. RunInStep'
  BY DEF RunInStep, None
<1>5. RowsStamped' /\ PrecisionRead'
  BY DEF RowsStamped, PrecisionRead
<1>6. ReportsAgree' /\ OldGone' /\ OfficerHasReport' /\ PaidIsComing'
  BY DEF ReportsAgree, OldGone, OfficerHasReport, PaidIsComing
<1>7. PaidRead'
  BY DEF PaidRead
<1> QED BY <1>3, <1>4, <1>5, <1>6, <1>7

\* The end of a run: the report it made, if it was not recorded, is an orphan.
LEMMA OverInv ==
  ASSUME IInv, Over,
         UNCHANGED <<delivered, rows, channel, reports, recorded, paid>>,
         release' \in Releases, pending' \subseteq {"first", "repost"},
         gaveUp' \in BOOLEAN, faults' \in 0 .. MaxFaults,
         \/ UNCHANGED <<officer, excused>>
         \/ officer' = Nobody /\ excused' = (excused \/ officer # Nobody)
  PROVE  IInv'
<1> USE DEF IInv, Over, rows, recorded
<1>1. TypeOK'
  <2>1. excused' \in BOOLEAN
    BY DEF TypeOK
  <2>2. officer' \in [at : {"idle", "won", "editing"}, report : {NoReport} \cup DOMAIN reports]
    BY DEF TypeOK, Nobody
  <2> QED BY <2>1, <2>2, Constants DEF TypeOK
<1>2. RunInStep' /\ OldGone' /\ PaidRead'
  BY DEF RunInStep, OldGone, PaidRead, NoProg
<1>3. RowsStamped' /\ PrecisionRead'
  BY DEF RowsStamped, PrecisionRead
<1>4. ReportsAgree'
  <2>1. \A m \in DOMAIN reports : m # NoReport
    BY Numbered
  <2> QED BY <2>1 DEF ReportsAgree
<1>5. officer' = officer \/ officer'.at = "idle"
  BY DEF Nobody
<1>6. excused' \/ (~excused /\ officer' = officer)
  BY Zenon
<1>7. OfficerHasReport' /\ PaidIsComing'
  BY <1>5, <1>6 DEF OfficerHasReport, PaidIsComing
<1> QED BY <1>1, <1>2, <1>3, <1>4, <1>7

LEMMA RunEndsInv ==
  ASSUME IInv, AlreadyPosted \/ NowhereToPost \/ MarkDone \/ RunAgain \/ Abandon \/ Restart
  PROVE  IInv'
<1>1. /\ Over /\ UNCHANGED <<delivered, rows, channel, reports, recorded, paid>>
      /\ \/ UNCHANGED <<officer, excused>>
         \/ officer' = Nobody /\ excused' = (excused \/ officer # Nobody)
  BY DEF AlreadyPosted, NowhereToPost, MarkDone, RunAgain, Abandon, Restart, Succeeds,
         marking
<1>2. release' \in Releases /\ gaveUp' \in BOOLEAN
  BY DEF IInv, TypeOK, AlreadyPosted, NowhereToPost, MarkDone, RunAgain, Abandon, Restart,
         Succeeds
<1>3. pending' \subseteq {"first", "repost"}
  <2>1. pending \subseteq {"first", "repost"} /\ {run} \ {None} \subseteq {"first", "repost"}
    BY DEF IInv, TypeOK
  <2>2. pending' \subseteq pending \cup ({run} \ {None})
    BY DEF AlreadyPosted, NowhereToPost, MarkDone, RunAgain, Abandon, Restart, Succeeds
  <2> QED BY <2>1, <2>2
<1>4. faults' \in 0 .. MaxFaults
  BY Constants DEF IInv, TypeOK, AlreadyPosted, NowhereToPost, MarkDone, RunAgain, Abandon,
                   Restart
<1> QED BY <1>1, <1>2, <1>3, <1>4, OverInv

\* Only when nothing was saved are rows written: no report shows others.
LEMMA ComputeInv == ASSUME IInv, ComputeOnce PROVE IInv'
<1> USE DEF IInv, ComputeOnce, recorded, marking
<1>1. /\ saved' \in Releases /\ saved' # NoRelease /\ stamp' = saved'.step
      /\ saved # NoRelease => saved' = saved /\ stamp' = stamp
      /\ saved = NoRelease => saved' = release /\ stamp = NoStep
  BY Constants DEF TypeOK, RowsStamped
<1>2. stamp' \in {r.step : r \in Releases}
  BY <1>1
<1>3. TypeOK'
  BY <1>1, <1>2 DEF TypeOK
<1>4. RunInStep' /\ RowsStamped'
  BY <1>1 DEF RunInStep, RowsStamped
<1>5. PrecisionRead'
  BY <1>1 DEF PrecisionRead, RowsStamped
<1>6. ReportsAgree'
  BY <1>1, ReportedIsSaved DEF ReportsAgree
<1>7. OldGone' /\ PaidRead' /\ OfficerHasReport' /\ PaidIsComing'
  BY DEF OldGone, PaidRead, OfficerHasReport, PaidIsComing
<1> QED BY <1>3, <1>4, <1>5, <1>6, <1>7

LEMMA EditInv == ASSUME IInv, EditReport PROVE IInv'
<1> USE DEF IInv, EditReport, rows, recorded, marking
<1>1. /\ prog.report = report /\ report \in DOMAIN reports /\ report # NoReport
      /\ made = NoReport /\ reports[report].there
  BY DEF RunInStep, Editable, TypeOK
<1> DEFINE e == Rendered
<1>2. /\ e \in Report /\ e.rows = saved /\ e.step = saved.step /\ e.there
      /\ e.paid = prog.paid
  BY RenderedRows
<1>3. reports' = [reports EXCEPT ![report] = e]
  BY <1>1
<1> HIDE DEF e
<1>4. /\ reports' \in Seq(Report) /\ Len(reports') <= MaxMessages
      /\ DOMAIN reports' = DOMAIN reports
      /\ \A n \in DOMAIN reports : reports'[n] = IF n = report THEN e ELSE reports[n]
  BY <1>1, <1>2, <1>3, OneEdited
<1>5. TypeOK'
  BY <1>1, <1>4 DEF TypeOK
<1>6. RunInStep' /\ RowsStamped' /\ PrecisionRead'
  BY <1>1 DEF RunInStep, RowsStamped, PrecisionRead
<1>7. ReportsAgree'
  <2> SUFFICES ASSUME NEW m \in DOMAIN reports
               PROVE  /\ reports'[m].rows = saved /\ reports'[m].step = saved.step
                      /\ reports'[m].there => m \in {report, report} \cup orphans
    BY <1>1, <1>4 DEF ReportsAgree
  <2>1. m # NoReport
    BY Numbered
  <2> QED BY <1>1, <1>2, <1>4, <2>1 DEF ReportsAgree
<1>8. OldGone' /\ OfficerHasReport'
  BY <1>1, <1>4 DEF OldGone, OfficerHasReport
<1>9. PaidRead'
  BY <1>1, <1>2, <1>4 DEF PaidRead
<1>10. PaidIsComing'
  BY <1>1, <1>2, <1>4 DEF PaidIsComing, PaidRead
<1> QED BY <1>5, <1>6, <1>7, <1>8, <1>9, <1>10

\* A new report while the recorded one, if any, is gone: nothing contradicts it.
LEMMA PostInv == ASSUME IInv, PostReport PROVE IInv'
<1> USE DEF IInv, PostReport, rows, recorded, marking
<1>1. /\ prog.report = report /\ made = NoReport
      /\ report = NoReport \/ ~reports[report].there
  BY DEF RunInStep, Editable
<1> DEFINE e == Rendered
<1>2. /\ e \in Report /\ e.rows = saved /\ e.step = saved.step /\ e.there
      /\ e.paid = prog.paid
  BY RenderedRows
<1>3. reports' = Append(reports, e)
  OBVIOUS
<1> HIDE DEF e
<1>4. /\ reports' \in Seq(Report) /\ Len(reports') <= MaxMessages
      /\ DOMAIN reports' = DOMAIN reports \cup {made'}
      /\ made' \notin DOMAIN reports /\ made' # NoReport
      /\ reports'[made'] = e
      /\ \A n \in DOMAIN reports : reports'[n] = reports[n]
  BY <1>2, <1>3, OnePosted
<1>5. /\ report \in {NoReport} \cup DOMAIN reports
      /\ \A m \in DOMAIN reports : m # NoReport
  BY Numbered DEF TypeOK
<1>6. TypeOK'
  BY <1>4 DEF TypeOK
<1>7. RunInStep' /\ RowsStamped' /\ PrecisionRead'
  BY <1>4 DEF RunInStep, RowsStamped, PrecisionRead
<1>8. ReportsAgree'
  <2> SUFFICES ASSUME NEW m \in DOMAIN reports \cup {made'}
               PROVE  /\ reports'[m].rows = saved /\ reports'[m].step = saved.step
                      /\ reports'[m].there => m \in {report, made'} \cup orphans
    BY <1>4 DEF ReportsAgree
  <2>1. CASE m = made'
    BY <1>2, <1>4, <2>1
  <2>2. CASE m \in DOMAIN reports
    BY <1>1, <1>4, <1>5, <2>2 DEF ReportsAgree
  <2> QED BY <2>1, <2>2
<1>9. OldGone' /\ OfficerHasReport'
  BY <1>1, <1>4, <1>5 DEF OldGone, OfficerHasReport
<1>10. PaidRead'
  BY <1>2, <1>4 DEF PaidRead
<1>11. PaidIsComing'
  BY <1>1, <1>4, <1>5 DEF PaidIsComing
<1> QED BY <1>6, <1>7, <1>8, <1>9, <1>10, <1>11

\* The recorded report becomes the one just made, which shows what the run has read
\* of Mark paid: if it read it, nothing is excused; the report it replaces is gone.
LEMMA RecordInv == ASSUME IInv, MarkPayoutPosted PROVE IInv'
<1> USE DEF IInv, MarkPayoutPosted, Recorded, rows, marking
<1>1. /\ made \in DOMAIN reports /\ made # NoReport
      /\ report \in {made, NoReport} \/ ~reports[report].there
  BY DEF RunInStep, TypeOK, OldGone
<1>2. \A m \in DOMAIN reports : m # NoReport
  BY Numbered
<1>3. TypeOK'
  BY <1>1, Constants DEF TypeOK
<1>4. RunInStep' /\ RowsStamped' /\ PrecisionRead'
  BY DEF RunInStep, RowsStamped, PrecisionRead
<1>5. ReportsAgree'
  BY <1>1, <1>2 DEF ReportsAgree
<1>6. OldGone' /\ PaidRead' /\ OfficerHasReport'
  BY DEF OldGone, PaidRead, OfficerHasReport, NoProg
<1>7. PaidIsComing'
  BY DEF PaidIsComing, PaidRead
<1> QED BY <1>3, <1>4, <1>5, <1>6, <1>7

-----------------------------------------------------------------------------
(* Officers, admins, and members who may delete a message.                 *)

LEMMA RepostInv ==
  ASSUME IInv, RequestPayoutRepost \/ \E c \in {"none", "ok", "gone"} : SetReportsChannel(c)
  PROVE  IInv'
<1> USE DEF IInv, RequestPayoutRepost, SetReportsChannel, rows, task, recorded, marking
<1>1. TypeOK'
  BY DEF TypeOK
<1>2. RunInStep' /\ RowsStamped' /\ PrecisionRead'
  BY DEF RunInStep, RowsStamped, PrecisionRead
<1>3. ReportsAgree' /\ OldGone' /\ PaidRead' /\ OfficerHasReport' /\ PaidIsComing'
  BY DEF ReportsAgree, OldGone, PaidRead, OfficerHasReport, PaidIsComing
<1> QED BY <1>1, <1>2, <1>3

LEMMA MarkPaidInv == ASSUME IInv, MarkPayoutsPaid PROVE IInv'
<1> USE DEF IInv, MarkPayoutsPaid, rows, task, recorded
<1>1. excused' \in BOOLEAN /\ (excused' \/ at \notin {"read", "figured", "shown"})
  <2>1. excused' = (at \in {"read", "figured", "shown"})
    BY Zenon
  <2>2. excused' \/ at \notin {"read", "figured", "shown"}
    BY <2>1, Zenon
  <2>3. (at \in {"read", "figured", "shown"}) \in BOOLEAN
    OBVIOUS
  <2>4. excused' \in BOOLEAN
    BY <2>1, <2>3, Zenon
  <2> QED BY <2>2, <2>4
<1>2. officer' \in [at : {"idle", "won", "editing"}, report : {NoReport} \cup DOMAIN reports]
  OBVIOUS
<1>3. TypeOK'
  BY <1>1, <1>2 DEF TypeOK
<1>4. RunInStep' /\ RowsStamped' /\ PrecisionRead'
  BY DEF RunInStep, RowsStamped, PrecisionRead
<1>5. ReportsAgree' /\ OldGone' /\ OfficerHasReport' /\ PaidIsComing'
  BY DEF ReportsAgree, OldGone, OfficerHasReport, PaidIsComing
<1>6. PaidRead'
  BY <1>1 DEF PaidRead
<1> QED BY <1>3, <1>4, <1>5, <1>6

LEMMA OfficerReadsInv == ASSUME IInv, OfficerReads PROVE IInv'
<1> USE DEF IInv, OfficerReads, rows, task, recorded
<1>1. officer' \in [at : {"idle", "won", "editing"}, report : {NoReport} \cup DOMAIN reports]
  BY DEF TypeOK, Nobody
<1>2. TypeOK'
  BY <1>1 DEF TypeOK
<1>3. RunInStep' /\ RowsStamped' /\ PrecisionRead'
  BY DEF RunInStep, RowsStamped, PrecisionRead
<1>4. ReportsAgree' /\ OldGone' /\ PaidRead'
  BY DEF ReportsAgree, OldGone, PaidRead
<1>5. OfficerHasReport' /\ PaidIsComing'
  BY DEF OfficerHasReport, PaidIsComing, Nobody, TypeOK
<1> QED BY <1>2, <1>3, <1>4, <1>5

\* The officer's edit shows what every report shows, and "paid".
LEMMA OfficerEditsInv == ASSUME IInv, OfficerEdits PROVE IInv'
<1> USE DEF IInv, OfficerEdits, rows, task, recorded
<1>1. officer.report \in DOMAIN reports
  BY DEF OfficerHasReport
<1>2. officer' = Nobody /\ Nobody.at = "idle"
      /\ Nobody \in [at : {"idle", "won", "editing"}, report : {NoReport} \cup DOMAIN reports]
  BY DEF Nobody
<1>3. CASE ~reports[officer.report].there
  <2>1. UNCHANGED reports
    BY <1>3
  <2>2. TypeOK'
    BY <1>2, <2>1 DEF TypeOK
  <2>3. RunInStep' /\ RowsStamped' /\ PrecisionRead'
    BY DEF RunInStep, RowsStamped, PrecisionRead
  <2>4. ReportsAgree' /\ OldGone' /\ PaidRead'
    BY <2>1 DEF ReportsAgree, OldGone, PaidRead
  <2>5. OfficerHasReport' /\ PaidIsComing'
    BY <1>2, <1>3, <2>1 DEF OfficerHasReport, PaidIsComing
  <2> QED BY <2>2, <2>3, <2>4, <2>5
<1>4. CASE reports[officer.report].there
  <2> DEFINE e == [there |-> TRUE, rows |-> saved, step |-> stamp, paid |-> TRUE]
  <2>1. reports' = [reports EXCEPT ![officer.report] = e]
    BY <1>4
  <2>2. e \in Report /\ e.rows = saved /\ e.step = saved.step /\ e.there /\ e.paid
    BY <1>1, ReportedIsSaved DEF Report, TypeOK, RowsStamped
  <2> HIDE DEF e
  <2>3. /\ reports' \in Seq(Report) /\ Len(reports') <= MaxMessages
        /\ DOMAIN reports' = DOMAIN reports
        /\ \A n \in DOMAIN reports :
             reports'[n] = IF n = officer.report THEN e ELSE reports[n]
    BY <1>1, <2>1, <2>2, OneEdited
  <2>4. TypeOK'
    BY <1>2, <2>3 DEF TypeOK
  <2>5. RunInStep' /\ RowsStamped' /\ PrecisionRead'
    BY DEF RunInStep, RowsStamped, PrecisionRead
  <2>6. ReportsAgree'
    BY <1>4, <2>2, <2>3 DEF ReportsAgree
  <2>7. OldGone' /\ PaidRead'
    BY <1>4, <2>2, <2>3 DEF OldGone, PaidRead, TypeOK, RunInStep
  <2>8. OfficerHasReport' /\ PaidIsComing'
    BY <1>2, <2>2, <2>3 DEF OfficerHasReport, PaidIsComing, TypeOK
  <2> QED BY <2>4, <2>5, <2>6, <2>7, <2>8
<1> QED BY <1>3, <1>4

LEMMA OfficerFailsInv == ASSUME IInv, OfficerFails PROVE IInv'
<1> USE DEF IInv, OfficerFails, rows, task, recorded
<1>1. /\ Nobody \in [at : {"idle", "won", "editing"}, report : {NoReport} \cup DOMAIN reports]
      /\ Nobody.at = "idle" /\ faults' \in 0 .. MaxFaults
  BY Constants DEF Nobody, TypeOK
<1>2. TypeOK'
  BY <1>1 DEF TypeOK
<1>3. RunInStep' /\ RowsStamped' /\ PrecisionRead'
  BY DEF RunInStep, RowsStamped, PrecisionRead
<1>4. ReportsAgree' /\ OldGone' /\ PaidRead' /\ OfficerHasReport' /\ PaidIsComing'
  BY <1>1 DEF ReportsAgree, OldGone, PaidRead, OfficerHasReport, PaidIsComing
<1> QED BY <1>2, <1>3, <1>4

LEMMA DeletedInv == ASSUME IInv, NEW m \in DOMAIN reports, DeletedByHand(m) PROVE IInv'
<1> USE DEF IInv, DeletedByHand, rows, task, recorded, marking
<1> DEFINE e == [reports[m] EXCEPT !.there = FALSE]
<1>1. reports[m] \in Report
  BY Numbered
<1>2. e \in Report /\ ~e.there /\ e.rows = reports[m].rows /\ e.step = reports[m].step
  BY <1>1 DEF Report
<1>3. reports' = [reports EXCEPT ![m] = e]
  OBVIOUS
<1> HIDE DEF e
<1>4. /\ reports' \in Seq(Report) /\ Len(reports') <= MaxMessages
      /\ DOMAIN reports' = DOMAIN reports
      /\ \A n \in DOMAIN reports : reports'[n] = IF n = m THEN e ELSE reports[n]
  BY <1>2, <1>3, OneEdited
<1>5. faults' \in 0 .. MaxFaults
  BY Constants DEF TypeOK
<1>6. TypeOK'
  BY <1>4, <1>5 DEF TypeOK
<1>7. RunInStep' /\ RowsStamped' /\ PrecisionRead'
  BY DEF RunInStep, RowsStamped, PrecisionRead
<1>8. ReportsAgree'
  BY <1>2, <1>4 DEF ReportsAgree
<1>9. OldGone' /\ PaidRead' /\ OfficerHasReport' /\ PaidIsComing'
  BY <1>2, <1>4 DEF OldGone, PaidRead, OfficerHasReport, PaidIsComing, TypeOK, RunInStep
<1> QED BY <1>6, <1>7, <1>8, <1>9

-----------------------------------------------------------------------------

LEMMA NextInv == IInv /\ [Next]_vars => IInv'
<1> SUFFICES ASSUME IInv, [Next]_vars PROVE IInv'
  OBVIOUS
<1>1. CASE \E t \in {"first", "repost"} : Start(t)
  BY <1>1, StartInv
<1>2. CASE AlreadyPosted \/ NowhereToPost \/ MarkDone \/ RunAgain \/ Abandon \/ Restart
  BY <1>2, RunEndsInv
<1>3. CASE ComputeOnce
  BY <1>3, ComputeInv
<1>4. CASE EditReport
  BY <1>4, EditInv
<1>5. CASE PostReport
  BY <1>5, PostInv
<1>6. CASE MarkPayoutPosted
  BY <1>6, RecordInv
<1>7. CASE RequestPayoutRepost \/ \E c \in {"none", "ok", "gone"} : SetReportsChannel(c)
  BY <1>7, RepostInv
<1>8. CASE MarkPayoutsPaid
  BY <1>8, MarkPaidInv
<1>9. CASE OfficerReads
  BY <1>9, OfficerReadsInv
<1>10. CASE OfficerEdits
  BY <1>10, OfficerEditsInv
<1>11. CASE OfficerFails
  BY <1>11, OfficerFailsInv
<1>12. CASE \E m \in DOMAIN reports : DeletedByHand(m)
  BY <1>12, DeletedInv
<1>13. CASE UNCHANGED vars
  <2> USE <1>13 DEF vars, rows, task, recorded, marking, IInv
  <2>1. TypeOK'
    BY DEF TypeOK
  <2>2. RunInStep' /\ RowsStamped' /\ PrecisionRead'
    BY DEF RunInStep, RowsStamped, PrecisionRead
  <2>3. ReportsAgree' /\ OldGone' /\ PaidRead' /\ OfficerHasReport' /\ PaidIsComing'
    BY DEF ReportsAgree, OldGone, PaidRead, OfficerHasReport, PaidIsComing
  <2> QED BY <2>1, <2>2, <2>3
<1> QED BY <1>1, <1>2, <1>3, <1>4, <1>5, <1>6, <1>7, <1>8, <1>9, <1>10, <1>11, <1>12,
           <1>13 DEF Next, TaskStep

\* The invariant holds in every reachable state, for any releases, deliveries and
\* reward, and any number of reports and of faults.
THEOREM IInvHolds == Spec => []IInv
BY InitInv, NextInv, PTL DEF Spec

\* Type correctness: a recorded, a made and an orphaned report all exist, and no
\* run leaves a partial row behind.
THEOREM TypeCorrect == Spec => []TypeOK
<1>1. IInv => TypeOK
  BY DEF IInv
<1> QED BY IInvHolds, <1>1, PTL

\* "A retry with drifted catalog prices can never change posted figures": through
\* any restarts under other releases, every report shows the rows that were saved
\* first, at their precision, and none is there that is neither the recorded one,
\* nor the run's, nor one whose run was cut off.
THEOREM FiguresNeverDrift == Spec => []ReportsAgree
<1>1. IInv => ReportsAgree
  BY DEF IInv
<1> QED BY IInvHolds, <1>1, PTL

\* A report that still denies the payment is about to be edited, or the edit
\* failed, or Mark paid was pressed during a run that had read the contract; and
\* any run that has read it since, a Reprint's say, leaves no such report behind.
THEOREM PaidGetsShown == Spec => []PaidIsShown
<1>1. IInv => PaidIsShown
  BY DEF IInv, PaidIsComing, PaidIsShown, Nobody
<1> QED BY IInvHolds, <1>1, PTL

\* What was saved stays: once there are rows, no step of any run, restart or
\* release changes them or their precision, and what was paid stays paid.
RowsFinal == [][(saved # NoRelease => UNCHANGED rows) /\ (paid => paid')]_vars

THEOREM RowsStay == Spec => RowsFinal
<1>1. IInv /\ [Next]_vars => [(saved # NoRelease => UNCHANGED rows) /\ (paid => paid')]_vars
  <2> SUFFICES ASSUME IInv, Next PROVE (saved # NoRelease => UNCHANGED rows) /\ (paid => paid')
    OBVIOUS
  <2>1. CASE ComputeOnce
    BY <2>1 DEF ComputeOnce, rows, marking
  <2>2. CASE Next /\ ~ComputeOnce
    BY <2>2 DEF Next, TaskStep, Start, AlreadyPosted, NowhereToPost, EditReport, PostReport,
                MarkPayoutPosted, Recorded, MarkDone, RunAgain, Abandon, Restart,
                RequestPayoutRepost, MarkPayoutsPaid, OfficerReads, OfficerEdits,
                OfficerFails, SetReportsChannel, DeletedByHand, marking
  <2> QED BY <2>1, <2>2
<1> QED BY IInvHolds, <1>1, PTL DEF Spec, RowsFinal

-----------------------------------------------------------------------------
(* The split.                                                              *)

\* A quotient, truncated to a multiple of s, times its divisor: less than what
\* was divided, by less than one s per part.
LEMMA DivBounds ==
  ASSUME NEW n \in Nat, NEW v \in Nat \ {0}, NEW s \in Nat \ {0}
  PROVE  /\ Truncated(n \div v, s) \in Nat
         /\ v * Truncated(n \div v, s) <= n
         /\ n + 1 <= v * Truncated(n \div v, s) + v * s
<1> DEFINE a == n \div v
           b == a \div s
<1>1. a \in Nat /\ v * a <= n /\ n < v * (a + 1)
  OBVIOUS
<1> HIDE DEF a
<1>2. b \in Nat /\ s * b <= a /\ a < s * (b + 1)
  BY <1>1
<1> HIDE DEF b
<1>3. \A x, y \in Nat : x <= y => v * x <= v * y
  OBVIOUS
<1>4. b * s \in Nat /\ b * s <= a /\ a + 1 <= b * s + s
  BY <1>1, <1>2
<1> DEFINE q == b * s
<1> HIDE DEF q
<1>5. q \in Nat /\ q <= a /\ a + 1 <= q + s
  BY <1>4 DEF q
<1>6. v * q <= v * a /\ v * (a + 1) <= v * (q + s)
  BY <1>1, <1>3, <1>5
<1>7. v * (q + s) = v * q + v * s
  BY <1>5
<1>8. v * q \in Nat /\ v * s \in Nat /\ v * a \in Nat /\ v * (a + 1) \in Nat
  BY <1>1, <1>5
<1>9. v * q <= n /\ n + 1 <= v * q + v * s
  BY <1>1, <1>6, <1>7, <1>8
<1>10. Truncated(n \div v, s) = q
  BY DEF Truncated, q, b, a
<1> QED BY <1>5, <1>9, <1>10

LEMMA PoolBounds ==
  ASSUME NEW s \in Nat \ {0} PROVE Pool(s) \in Nat /\ Pool(s) <= Reward
<1>1. Reward \in Nat
  BY PayoutAssumption
<1> DEFINE b == Reward \div s
<1>2. b \in Nat /\ s * b <= Reward
  BY <1>1
<1>3. Pool(s) = b * s
  BY DEF Pool, Truncated
<1> HIDE DEF b
<1>4. b * s \in Nat /\ b * s = s * b
  BY <1>2
<1> QED BY <1>2, <1>3, <1>4

\* What the members delivered is worth, together, what the items required.
LEMMA ValuesAddUp ==
  ASSUME delivered \in Deliveries, NEW r \in Releases
  PROVE  /\ \A u \in Users : ValueOf(r, u) \in Nat
         /\ Value(r) \in Nat
         /\ Sum([u \in Users |-> ValueOf(r, u)]) = Value(r)
         /\ \A u \in Users : u \notin Deliverers => ValueOf(r, u) = 0
<1> DEFINE w == [u \in Users |-> [i \in Items |-> r.price[i] * delivered[i][u]]]
           all == [i \in Items |-> r.price[i] * Total(delivered[i])]
<1>1. /\ IsFiniteSet(Users) /\ IsFiniteSet(Items)
      /\ r.price \in [Items -> Nat]
      /\ \A i \in Items : delivered[i] \in Shares /\ delivered[i] \in [Users -> Nat]
  BY TallyAssumption, PayoutAssumption DEF Shares
<1>2. w \in [Users -> [Items -> Nat]]
  <2>1. \A u \in Users, i \in Items : r.price[i] * delivered[i][u] \in Nat
    <3> TAKE u \in Users, i \in Items
    <3>1. r.price[i] \in Nat /\ delivered[i][u] \in Nat
      BY <1>1
    <3> QED BY <3>1
  <2> QED BY <2>1
<1>3. \A i \in Items : /\ all[i] \in Nat
                       /\ Sum([u \in Users |-> w[u][i]]) = all[i]
  <2> TAKE i \in Items
  <2> DEFINE h == [u \in Users |-> w[u][i]]
             k == r.price[i]
             d == delivered[i]
  <2>1. h \in [Users -> Nat] /\ k \in Nat /\ d \in [Users -> Nat]
    BY <1>1, <1>2
  <2>2. \A u \in Users : h[u] = k * d[u]
    OBVIOUS
  <2>3. Total(d) = Sum(d) /\ Total(d) \in Nat
    BY <1>1, TotalIsSum, UnitsFinite
  <2>4. all[i] = k * Total(d)
    OBVIOUS
  <2> HIDE DEF h, k, d, all, w
  <2>5. Sum(h) = k * Sum(d)
    BY <1>1, <2>1, <2>2, SumScaled
  <2>6. Sum(h) = all[i] /\ all[i] \in Nat
    BY <2>1, <2>3, <2>4, <2>5
  <2> QED BY <2>6 DEF h
<1>4. all \in [Items -> Nat] /\ all = [i \in Items |-> Sum([u \in Users |-> w[u][i]])]
  <2>1. all = [i \in Items |-> all[i]]
    OBVIOUS
  <2> HIDE DEF all, w
  <2> QED BY <1>3, <2>1
<1>5. \A u \in Users : ValueOf(r, u) = Sum(w[u])
  BY DEF ValueOf
<1>6. Value(r) = Sum(all)
  BY DEF Value
<1>7. \A u \in Users : w[u] \in [Items -> Nat]
  BY <1>2
<1> HIDE DEF w, all
<1>8. [u \in Users |-> ValueOf(r, u)] = [u \in Users |-> Sum(w[u])]
  BY <1>5
<1>9. Sum([u \in Users |-> Sum(w[u])]) = Sum(all)
  BY <1>1, <1>2, <1>4, SumExchange
<1>10. \A u \in Users : ValueOf(r, u) \in Nat
  BY <1>1, <1>5, <1>7, SumsStep DEF AddsUp
<1>11. Value(r) \in Nat
  <2>1. AddsUp(all, Items)
    BY <1>1, <1>4, SumsStep
  <2> QED BY <1>6, <2>1 DEF AddsUp
<1>12. ASSUME NEW u \in Users, u \notin Deliverers PROVE ValueOf(r, u) = 0
  <2>1. \A i \in Items : w[u][i] = 0
    <3> TAKE i \in Items
    <3>1. delivered[i][u] \in Nat /\ ~(delivered[i][u] > 0) /\ r.price[i] \in Nat
      BY <1>1, <1>12 DEF Deliverers
    <3>2. delivered[i][u] = 0
      BY <3>1
    <3> QED BY <3>1, <3>2 DEF w
  <2> QED BY <1>1, <1>5, <1>7, <2>1, SumOfNothing
<1> QED BY <1>6, <1>8, <1>9, <1>10, <1>11, <1>12

\* The split of any release's figures, once for every deliverer.
LEMMA SplitAddsUp ==
  ASSUME delivered \in Deliveries, NEW r \in Releases
  PROVE  LET left == Pool(r.step) - Sum([u \in Users |-> Amount(r, u)])
         IN /\ left >= 0
            /\ Value(r) > 0 => left < r.step * Cardinality(Deliverers)
<1> DEFINE s == r.step
           P == Pool(s)
           V == Value(r)
           D == Deliverers
           n == Cardinality(D)
           amounts == [u \in Users |-> Amount(r, u)]
           values == [u \in Users |-> ValueOf(r, u)]
<1>1. s \in Nat \ {0} /\ P \in Nat /\ IsFiniteSet(Users)
  BY PayoutAssumption, PoolBounds, TallyAssumption
<1>2. /\ values \in [Users -> Nat] /\ V \in Nat /\ Sum(values) = V
      /\ \A u \in Users : u \notin D => values[u] = 0
  BY ValuesAddUp
<1>3. D \in SUBSET Users /\ IsFiniteSet(D) /\ n \in Nat
  <2>1. D \in SUBSET Users
    BY DEF Deliverers
  <2> QED BY <1>1, <2>1, FS_Subset, FS_CardinalityType
<1>4. CASE V = 0
  <2>1. \A u \in Users : amounts[u] = 0
    BY <1>4 DEF Amount
  <2>2. amounts \in [Users -> Nat]
    BY <2>1
  <2> HIDE DEF amounts, V, P, D, s
  <2>3. Sum(amounts) = 0
    BY <1>1, <2>1, <2>2, SumOfNothing
  <2>4. P - Sum(amounts) >= 0 /\ ~(V > 0)
    BY <1>1, <1>4, <2>3
  <2> QED BY <2>4 DEF amounts, V, P, D, s
<1>5. CASE V # 0
  <2>1. \A u \in Users : amounts[u] = Truncated((P * values[u]) \div V, s)
    BY <1>5 DEF Amount
  <2> HIDE DEF amounts, values, V, P, D, s
  <2> DEFINE shares == [u \in Users |-> P * values[u]]
             floors == [u \in Users |-> V * amounts[u]]
             ones == [u \in Users |-> IF u \in D THEN 1 ELSE 0]
             units == [u \in Users |-> (V * s) * ones[u]]
             low == [u \in Users |-> shares[u] + ones[u]]
             high == [u \in Users |-> floors[u] + units[u]]
  <2>2. ASSUME NEW u \in Users
        PROVE  /\ shares[u] \in Nat /\ amounts[u] \in Nat /\ floors[u] \in Nat
               /\ ones[u] \in {0, 1} /\ units[u] \in Nat
               /\ floors[u] <= shares[u]
               /\ low[u] <= high[u]
    <3>1. P * values[u] \in Nat
      BY <1>1, <1>2
    <3>2. /\ amounts[u] \in Nat
          /\ V * amounts[u] <= P * values[u]
          /\ P * values[u] + 1 <= V * amounts[u] + V * s
      <4> DEFINE m == P * values[u]
      <4>1. m \in Nat
        BY <3>1
      <4>2. amounts[u] = Truncated(m \div V, s)
        BY <2>1
      <4> HIDE DEF m
      <4>3. /\ amounts[u] \in Nat /\ V * amounts[u] <= m
            /\ m + 1 <= V * amounts[u] + V * s
        BY <1>1, <1>2, <1>5, <4>1, <4>2, DivBounds
      <4> QED BY <4>3 DEF m
    <3>3. V * amounts[u] \in Nat /\ V * s \in Nat
      BY <1>1, <1>2, <3>2
    <3>4. u \notin D => P * values[u] = 0
      BY <1>1, <1>2
    <3>5. CASE u \in D
      BY <3>1, <3>2, <3>3, <3>5
    <3>6. CASE u \notin D
      BY <3>1, <3>2, <3>3, <3>4, <3>6
    <3> QED BY <3>5, <3>6
  <2>3. /\ shares \in [Users -> Nat] /\ amounts \in [Users -> Nat]
        /\ floors \in [Users -> Nat] /\ ones \in [Users -> Nat]
        /\ units \in [Users -> Nat] /\ low \in [Users -> Nat] /\ high \in [Users -> Nat]
    <3>1. amounts \in [Users -> Nat]
      BY <2>2 DEF amounts
    <3> QED BY <2>2, <3>1
  <2>4. /\ \A u \in Users : shares[u] = P * values[u]
        /\ \A u \in Users : floors[u] = V * amounts[u]
        /\ \A u \in Users : units[u] = (V * s) * ones[u]
        /\ \A u \in Users : low[u] = shares[u] + ones[u]
        /\ \A u \in Users : high[u] = floors[u] + units[u]
    OBVIOUS
  <2>5. Sum(ones) = n
    BY <1>1, <1>3, SumOfOnes
  <2>6. V * s \in Nat
    BY <1>1, <1>2
  <2>7. \A u \in Users : floors[u] <= shares[u] /\ low[u] <= high[u]
    BY <2>2
  <2> HIDE DEF shares, floors, ones, units, low, high, n
  <2>8. Sum(shares) = P * V /\ Sum(floors) = V * Sum(amounts)
    <3>1. Sum(shares) = P * Sum(values)
      <4>1. IsFiniteSet(Users) /\ values \in [Users -> Nat] /\ shares \in [Users -> Nat]
            /\ P \in Nat
        BY <1>1, <1>2, <2>3
      <4>2. \A u \in Users : shares[u] = P * values[u]
        BY <2>4
      <4> QED BY ONLY <4>1, <4>2, SumScaled
    <3>2. Sum(floors) = V * Sum(amounts)
      <4>1. IsFiniteSet(Users) /\ amounts \in [Users -> Nat] /\ floors \in [Users -> Nat]
            /\ V \in Nat
        BY <1>1, <1>2, <2>3
      <4>2. \A u \in Users : floors[u] = V * amounts[u]
        BY <2>4
      <4> QED BY ONLY <4>1, <4>2, SumScaled
    <3> QED BY <1>2, <3>1, <3>2
  <2>9. Sum(units) = (V * s) * n
    BY <1>1, <2>3, <2>4, <2>5, <2>6, SumScaled
  <2>10. Sum(low) = Sum(shares) + Sum(ones) /\ Sum(high) = Sum(floors) + Sum(units)
    BY <1>1, <2>3, <2>4, SumOfSums
  <2>11. Sum(floors) <= Sum(shares) /\ Sum(low) <= Sum(high)
    BY <1>1, <2>3, <2>7, SumMonotone
  <2>12. Sum(amounts) \in Nat
    BY <1>1, <2>3, SumsStep DEF AddsUp
  <2>13. n # 0
    <3> SUFFICES ASSUME n = 0 PROVE FALSE
      OBVIOUS
    <3>1. D = {}
      BY <1>3, FS_EmptySet DEF n
    <3>2. Sum(values) = 0
      BY <1>1, <1>2, <3>1, SumOfNothing
    <3> QED BY <1>2, <1>5, <3>2
  <2> DEFINE A == Sum(amounts)
  <2>14. V * A <= P * V /\ P * V + n <= V * A + (V * s) * n /\ A \in Nat
    BY <2>5, <2>8, <2>9, <2>10, <2>11, <2>12
  <2> HIDE DEF A
  <2>15. V \in Nat /\ P \in Nat /\ n \in Nat /\ n # 0 /\ s \in Nat /\ V # 0
    BY <1>1, <1>2, <1>3, <1>5, <2>13
  <2>16. A <= P
    <3>1. ASSUME P < A PROVE FALSE
      <4>1. V * (P + 1) <= V * A
        BY <2>14, <2>15, <3>1
      <4>2. V * (P + 1) = P * V + V
        BY <2>15
      <4> QED BY <2>14, <2>15, <4>1, <4>2
    <3> QED BY <2>14, <2>15, <3>1
  <2>17. P - A < s * n
    <3> DEFINE x == P - A
               y == s * n
    <3>1. x \in Nat /\ y \in Nat
      BY <2>14, <2>15, <2>16
    <3>2. V * x = P * V - V * A
      BY <2>14, <2>15
    <3>3. V * y = (V * s) * n
      BY <2>15
    <3>4. P * V \in Int /\ V * A \in Int /\ (V * s) * n \in Int
      BY <2>14, <2>15
    <3> HIDE DEF x, y
    <3>5. V * x < V * y
      BY <2>14, <2>15, <3>2, <3>3, <3>4
    <3>6. ASSUME y <= x PROVE FALSE
      <4>1. V * y <= V * x
        BY <2>15, <3>1, <3>6
      <4>2. V * x \in Nat /\ V * y \in Nat
        BY <2>15, <3>1
      <4> QED BY <3>5, <4>1, <4>2
    <3>7. x < y
      BY <3>1, <3>6
    <3> QED BY <3>7 DEF x, y
  <2>18. P - A >= 0
    BY <2>14, <2>15, <2>16
  <2> QED BY <2>17, <2>18 DEF A, amounts, V, P, D, s, n
<1> QED BY <1>4, <1>5

-----------------------------------------------------------------------------

\* "Sum of amounts <= pool holds structurally" and "the full pool distributes up to
\* the truncation remainder", for any members, items, deliveries, prices, precision
\* and reward: once rows are saved they never add up to more than the pool, and
\* less than one smallest unit per deliverer stays behind.
THEOREM FiguresHold == Spec => []FiguresAddUp
<1>1. IInv => FiguresAddUp
  <2> SUFFICES ASSUME IInv, saved # NoRelease PROVE FiguresAddUp
    BY DEF FiguresAddUp
  <2>1. saved \in Releases /\ delivered \in Deliveries
    BY DEF IInv, TypeOK
  <2> QED BY <2>1, SplitAddsUp DEF FiguresAddUp
<1> QED BY IInvHolds, <1>1, PTL
=============================================================================
