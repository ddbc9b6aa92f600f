------------------------- MODULE ContractPostProofs -------------------------
(***************************************************************************)
(* Proofs about ContractPost, for any number of tasks, posts, retries and  *)
(* faults: however the contract changes, closes, is repaired or upgraded   *)
(* while its tasks run, collapse, fail and are given up on, the forum has  *)
(* one card of it, and the work that makes the card true is never dropped. *)
(*                                                                         *)
(* The invariant says what every point of a handler may rely on: there is  *)
(* one worker, so the thread id and the post's format stay as they were    *)
(* read, and whatever the transactions commit meanwhile leaves a task that *)
(* only runs afterwards (NewsWaits).                                       *)
(***************************************************************************)
EXTENDS ContractPost, SequenceTheorems, FiniteSetTheorems, TLAPS

\* The queue: the worker holds distinct waiting tasks, ids above the last one
\* drawn are unused, and a task that waits has an attempt left.
QueueOK ==
  /\ OutboxTypeOK
  /\ \A i \in batch : Pending(i)
  /\ run.task # NoTask => Pending(run.task) /\ run.task \notin batch
  /\ \A i \in TaskId : i > issued => rows[i].status = "none"
  /\ \A i \in TaskId : Pending(i) => rows[i].attempts < MaxAttempts

\* Posts are numbered in the order they were made.
PostsNumbered == \E n \in 0 .. MaxPosts : posts \in [1 .. n -> Post]

\* The kind whose task brings the post up to date.
LastWord == IF open THEN "refresh" ELSE "close"

\* Between handlers there is nothing of one.
Rests == run.task = NoTask => run = Idle /\ ~called /\ made = NoThread

\* Until a handler's last effect, the thread and its format are what it read; as
\* long as what it read is current, so is the status.
ReadsHold ==
  run.task # NoTask =>
    /\ ~run.landed => prog.thread = thread /\ prog.stale = stale
    /\ open => prog.open
    /\ prog.current => prog.open = open

\* What the handler does not know, a task that waits behind it will show.
NewsWaits ==
  run.task # NoTask /\ ~prog.current =>
    \E j \in TaskId : j # run.task /\ Pending(j) /\ rows[j].group = LastWord

\* A post that was made shows what its create read, and is recorded last.
Making ==
  /\ ToCreate /\ called => made # NoThread
  /\ made # NoThread =>
       /\ run.task # NoTask /\ Running = "create" /\ called
       /\ posts[made].current = prog.current /\ posts[made].bornOpen = prog.open
       /\ thread = IF run.landed THEN made ELSE NoThread

\* Halfway through a repost the old post is gone; halfway through a close the
\* card has its final form.
Halfway ==
  /\ (ToEdit \/ Migrates) /\ called => ~posts[thread].there
  /\ ToClose /\ ~prog.stale /\ called /\ posts[thread].there =>
       posts[thread].current = prog.current /\ ~posts[thread].buttons

\* What a task leaves behind when its last effect is through.
Landed(g) == run.task # NoTask /\ run.landed /\ Running = g
Achieved ==
  /\ Landed("create") => thread # NoThread
  /\ Landed("refresh") /\ Shown => posts[thread].current = prog.current \/ ~prog.open
  /\ Landed("close") /\ Shown =>
       /\ posts[thread].current = prog.current
       /\ posts[thread].locked /\ ~posts[thread].buttons

\* PostShowsContract, with the one kind of task that counts.
LastWordComes ==
  Shown /\ ~posts[thread].current => HasPending(LastWord) \/ GivenUp(LastWord)

IInv ==
  /\ TypeOK
  /\ QueueOK
  /\ PostsNumbered
  /\ Rests
  /\ ReadsHold
  /\ NewsWaits
  /\ Making
  /\ Halfway
  /\ Achieved
  /\ LastWordComes
  /\ PostIsComing
  /\ OneLivePost
  /\ OpenPostsGetLocked

USE DEF TaskId, NoTask, NoThread, Pending, Running, Runs

LEMMA Constants ==
  /\ Groups = Tasks /\ Handled = Tasks
  /\ MaxPosts \in Nat /\ MaxPosts >= 1 /\ MaxTasks \in Nat /\ MaxTasks >= 1
  /\ MaxFaults \in Nat /\ MaxAttempts \in Nat /\ MaxAttempts >= 1
  /\ NoRow \in Row /\ NoRow.status = "none"
  /\ NoProgress \in Progress /\ ~NoProgress.open
  /\ Idle \in [task : TaskId \cup {NoTask}, landed : BOOLEAN]
  /\ Idle.task = NoTask /\ ~Idle.landed
<1>1. /\ Groups = Tasks /\ Handled = Tasks
      /\ MaxPosts \in Nat /\ MaxPosts >= 1 /\ MaxTasks \in Nat /\ MaxTasks >= 1
      /\ MaxFaults \in Nat /\ MaxAttempts \in Nat /\ MaxAttempts >= 1
  BY PostAssumption, OutboxAssumption
<1>2. NoRow \in Row /\ NoRow.status = "none"
  BY OutboxAssumption DEF NoRow, Row, RowStatus
<1>3. NoProgress \in Progress /\ ~NoProgress.open
  BY DEF NoProgress, Progress
<1>4. /\ Idle \in [task : TaskId \cup {NoTask}, landed : BOOLEAN]
      /\ Idle.task = NoTask /\ ~Idle.landed
  BY DEF Idle
<1> QED BY <1>1, <1>2, <1>3, <1>4

-----------------------------------------------------------------------------
(* The posts.                                                              *)

\* Numbered posts are typed.
LEMMA NumberedTyped ==
  ASSUME PostsNumbered
  PROVE  /\ DOMAIN posts \in SUBSET PostId
         /\ \A t \in DOMAIN posts : t # NoThread /\ posts[t] \in Post
<1>1. PICK n \in 0 .. MaxPosts : posts \in [1 .. n -> Post]
  BY DEF PostsNumbered
<1> QED BY <1>1, Constants DEF PostId

\* One post is edited.
LEMMA OneEdited ==
  ASSUME PostsNumbered, NEW t \in DOMAIN posts, NEW e \in Post,
         posts' = [posts EXCEPT ![t] = e]
  PROVE  /\ PostsNumbered' /\ DOMAIN posts' = DOMAIN posts
         /\ posts'[t] = e
         /\ \A u \in DOMAIN posts : u # t => posts'[u] = posts[u]
<1>1. PICK n \in 0 .. MaxPosts : posts \in [1 .. n -> Post]
  BY DEF PostsNumbered
<1>2. posts' \in [1 .. n -> Post]
  BY <1>1
<1> QED BY <1>1, <1>2 DEF PostsNumbered

\* One post more.
LEMMA OneMade ==
  ASSUME PostsNumbered, NEW e \in Post, Cardinality(DOMAIN posts) < MaxPosts,
         posts' = Append(posts, e), NEW m, m = Cardinality(DOMAIN posts) + 1
  PROVE  /\ PostsNumbered' /\ DOMAIN posts' = DOMAIN posts \cup {m}
         /\ m \notin DOMAIN posts /\ m \in PostId /\ m # NoThread /\ posts'[m] = e
         /\ \A t \in DOMAIN posts : posts'[t] = posts[t]
<1>1. PICK n \in 0 .. MaxPosts : posts \in [1 .. n -> Post]
  BY DEF PostsNumbered
<1>2. n \in Nat /\ DOMAIN posts = 1 .. n
  BY <1>1, Constants
<1>3. Cardinality(1 .. n) = n
  <2>1. \A b \in Int : Cardinality(1 .. b) = IF 1 > b THEN 0 ELSE b - 1 + 1
    BY FS_Interval
  <2> QED BY <1>2, <2>1
<1>4. n < MaxPosts /\ m = n + 1
  BY <1>2, <1>3
<1>5. posts \in Seq(Post) /\ Len(posts) = n
  <2>1. posts \in Seq(Post)
    BY <1>1, <1>2, SeqDef
  <2>2. Len(posts) \in Nat /\ DOMAIN posts = 1 .. Len(posts)
    BY <2>1, LenProperties
  <2> QED BY <1>2, <2>1, <2>2
<1>6. /\ posts' \in Seq(Post) /\ Len(posts') = n + 1
      /\ \A i \in 1 .. n : posts'[i] = posts[i]
      /\ posts'[n + 1] = e
  BY <1>5, AppendProperties
<1>7. posts' \in [1 .. n + 1 -> Post]
  BY <1>6, LenProperties
<1>8. n + 1 \in 0 .. MaxPosts /\ DOMAIN posts' = 1 .. n + 1
  BY <1>2, <1>4, <1>7, Constants
<1>9. PostsNumbered'
  BY <1>7, <1>8 DEF PostsNumbered
<1>10. m \in PostId
  BY <1>2, <1>4, Constants DEF PostId
<1> QED BY <1>2, <1>4, <1>6, <1>8, <1>9, <1>10

LEMMA InitInv == Init => IInv
<1> SUFFICES ASSUME Init PROVE IInv
  OBVIOUS
<1>1. /\ batch = {} /\ run = Idle /\ faults = 0 /\ open = TRUE
      /\ prog = NoProgress /\ made = NoThread /\ called = FALSE
      /\ gaveUp = {} /\ orphans = {}
  BY DEF Init
<1>2. CASE JustCreated
  <2> DEFINE first == [group |-> "create", status |-> "pending", attempts |-> 0, due |-> TRUE]
  <2>1. first \in Row /\ first.status = "pending" /\ first.group = "create" /\ first.attempts = 0
    BY Constants DEF Row, RowStatus, Tasks
  <2>2. rows = [i \in TaskId |-> IF i = 1 THEN first ELSE NoRow] /\ issued = 1
        /\ thread = NoThread /\ posts = << >> /\ stale = FALSE
    BY <1>2 DEF JustCreated
  <2> HIDE DEF first
  <2>3. rows \in [TaskId -> Row] /\ 1 \in TaskId /\ rows[1] = first
        /\ \A i \in TaskId : i > 1 => rows[i].status = "none"
    BY <2>1, <2>2, Constants
  <2>4. QueueOK
    BY <1>1, <2>1, <2>2, <2>3, Constants DEF QueueOK, OutboxTypeOK
  <2>5. PostsNumbered /\ DOMAIN posts = {}
    BY <2>2, Constants DEF PostsNumbered
  <2>6. TypeOK
    BY <1>1, <2>2, <2>4, <2>5, Constants DEF TypeOK, QueueOK
  <2>7. HasPending("create")
    BY <2>1, <2>3 DEF HasPending
  <2>8. LastWordComes /\ PostIsComing /\ OneLivePost /\ OpenPostsGetLocked
    BY <2>2, <2>5, <2>7 DEF LastWordComes, PostIsComing, OneLivePost, OpenPostsGetLocked, Shown
  <2> QED BY <1>1, <2>4, <2>5, <2>6, <2>8, Constants
          DEF IInv, Rests, ReadsHold, NewsWaits, Making, Halfway, Achieved, ToCreate, ToEdit,
              ToClose, Migrates, Landed
<1>3. CASE AtRest
  <2> DEFINE p == [there |-> TRUE, current |-> TRUE, buttons |-> TRUE, locked |-> FALSE,
                   bornOpen |-> TRUE]
  <2>1. p \in Post /\ p.current
    BY DEF Post
  <2>2. rows = [i \in TaskId |-> NoRow] /\ issued = 0 /\ thread = 1 /\ stale \in BOOLEAN
        /\ posts = << p >>
    BY <1>3 DEF AtRest
  <2> HIDE DEF p
  <2>3. QueueOK
    BY <1>1, <2>2, Constants DEF QueueOK, OutboxTypeOK
  <2>4. posts \in [1 .. 1 -> Post] /\ DOMAIN posts = 1 .. 1 /\ posts[1] = p
    BY <2>1, <2>2
  <2>5. PostsNumbered
    BY <2>4, Constants DEF PostsNumbered
  <2>6. TypeOK
    <3>1. /\ DOMAIN posts \in SUBSET PostId /\ thread \in DOMAIN posts
          /\ \A t \in DOMAIN posts : posts[t] \in Post
      BY <2>1, <2>2, <2>4, Constants DEF PostId
    <3> QED BY <1>1, <2>2, <2>3, <3>1, Constants DEF TypeOK, QueueOK
  <2>7. LastWordComes /\ PostIsComing /\ OneLivePost /\ OpenPostsGetLocked
    BY <1>1, <2>1, <2>2, <2>4
       DEF LastWordComes, PostIsComing, OneLivePost, OpenPostsGetLocked, Shown
  <2> QED BY <1>1, <2>3, <2>5, <2>6, <2>7, Constants
          DEF IInv, Rests, ReadsHold, NewsWaits, Making, Halfway, Achieved, ToCreate, ToEdit,
              ToClose, Migrates, Landed
<1> QED BY <1>2, <1>3 DEF Init

-----------------------------------------------------------------------------
(* The queue.                                                              *)

\* No waiting task is lost or changes its kind.
NoneLost ==
  \A i \in TaskId : Pending(i) => Pending(i)' /\ rows'[i].group = rows[i].group

\* An INSERT leaves every other task as it was, and its own waits behind the one
\* that runs.
LEMMA EnqueuedQueue ==
  ASSUME QueueOK, NEW g \in Tasks, Enqueued(g), UNCHANGED <<batch, faults>>,
         run' \in [task : TaskId \cup {NoTask}, landed : BOOLEAN], run'.task = run.task
  PROVE  /\ QueueOK' /\ NoneLost
         /\ \E j \in TaskId : j # run.task /\ Pending(j)' /\ rows'[j].group = g
<1> DEFINE row == [group |-> g, status |-> "pending", attempts |-> 0, due |-> TRUE]
<1>1. /\ rows \in [TaskId -> Row] /\ issued \in 0 .. MaxTasks
      /\ \A i \in TaskId : i > issued => rows[i].status = "none"
  BY DEF QueueOK, OutboxTypeOK
<1>2. /\ issued < MaxTasks /\ issued' = issued + 1
      /\ rows' = [rows EXCEPT ![issued + 1] = row]
  BY DEF Enqueued, Inserted
<1>3. /\ row \in Row /\ row.status = "pending" /\ row.attempts = 0 /\ row.group = g
  BY Constants DEF Row, RowStatus
<1> HIDE DEF row
<1>4. PICK n \in TaskId : /\ n = issued + 1 /\ rows[n].status = "none" /\ rows'[n] = row
                         /\ \A i \in TaskId : i # n => rows'[i] = rows[i]
  BY <1>1, <1>2, Constants
<1>5. rows' \in [TaskId -> Row] /\ issued' \in 0 .. MaxTasks
  BY <1>1, <1>2, <1>3, Constants
<1>6. \A i \in TaskId : Pending(i) => i # n /\ rows'[i] = rows[i]
  BY <1>4
<1>7. QueueOK'
  BY <1>1, <1>2, <1>3, <1>4, <1>5, <1>6, Constants DEF QueueOK, OutboxTypeOK
<1>8. run.task # n
  BY <1>4 DEF QueueOK
<1> QED BY <1>3, <1>4, <1>6, <1>7, <1>8 DEF NoneLost

\* One waiting task is touched: it goes on waiting, later, or it is settled.
LEMMA OneTouched ==
  ASSUME QueueOK, NEW i \in TaskId, Pending(i), NEW r \in Row,
         rows' = [rows EXCEPT ![i] = r], r.group = rows[i].group,
         \/ r.status = "pending" /\ r.attempts < MaxAttempts
         \/ r.status \in {"done", "failed"} /\ i \notin batch' /\ i # run'.task,
         issued' = issued, faults' \in 0 .. MaxFaults, batch' \subseteq batch,
         run' \in {run, Idle}
  PROVE  QueueOK' /\ \A j \in TaskId : j # i => rows'[j] = rows[j]
<1>1. rows \in [TaskId -> Row] /\ issued \in 0 .. MaxTasks /\ rows[i].status = "pending"
  BY DEF QueueOK, OutboxTypeOK
<1>2. /\ rows' \in [TaskId -> Row] /\ rows'[i] = r
      /\ \A j \in TaskId : j # i => rows'[j] = rows[j]
  BY <1>1
<1>3. /\ batch' \in SUBSET TaskId
      /\ run' \in [task : TaskId \cup {NoTask}, landed : BOOLEAN]
  BY Constants DEF QueueOK, OutboxTypeOK
<1>4. OutboxTypeOK'
  BY <1>1, <1>2, <1>3 DEF OutboxTypeOK
<1>5. \A j \in TaskId : j > issued' => rows'[j].status = "none"
  BY <1>1, <1>2 DEF QueueOK
<1>6. \A j \in TaskId : Pending(j)' => rows'[j].attempts < MaxAttempts
  BY <1>2 DEF QueueOK
<1>7. \A j \in batch' : Pending(j)'
  BY <1>2 DEF QueueOK, OutboxTypeOK
<1>8. run'.task # NoTask => Pending(run.task)' /\ run'.task \notin batch'
  <2>1. CASE run' = Idle
    BY <2>1, Constants
  <2>2. CASE run' = run /\ run.task # NoTask
    <3>1. run.task \in TaskId /\ Pending(run.task) /\ run.task \notin batch
      BY <2>2 DEF QueueOK, OutboxTypeOK
    <3>2. rows'[run.task].status = "pending"
      BY <1>2, <2>2, <3>1
    <3> QED BY <2>2, <3>1, <3>2
  <2> QED BY <2>1, <2>2
<1>9. QueueOK'
  BY <1>4, <1>5, <1>6, <1>7, <1>8 DEF QueueOK
<1> QED BY <1>2, <1>9

\* The rows stay; the worker may take or drop some.
LEMMA SameRows ==
  ASSUME QueueOK, UNCHANGED <<rows, issued>>, faults' \in 0 .. MaxFaults,
         batch' \subseteq TaskId, \A i \in batch' : Pending(i),
         run' \in [task : TaskId \cup {NoTask}, landed : BOOLEAN],
         run'.task # NoTask => Pending(run'.task) /\ run'.task \notin batch'
  PROVE  QueueOK' /\ NoneLost
<1>1. OutboxTypeOK'
  BY DEF QueueOK, OutboxTypeOK
<1> QED BY <1>1 DEF QueueOK, NoneLost

LEMMA CrashQueue ==
  ASSUME QueueOK, Crash
  PROVE  QueueOK' /\ NoneLost /\ run' = Idle
<1>1. /\ rows \in [TaskId -> Row] /\ issued \in 0 .. MaxTasks /\ faults \in 0 .. MaxFaults
      /\ rows' = [i \in TaskId |-> IF rows[i].status = "open" THEN NoRow ELSE rows[i]]
      /\ batch' = {} /\ run' = Idle /\ faults < MaxFaults /\ faults' = faults + 1
      /\ issued' = issued
  BY DEF QueueOK, OutboxTypeOK, Crash
<1>2. \A i \in TaskId : /\ Pending(i)' <=> Pending(i)
                        /\ Pending(i) => rows'[i] = rows[i]
                        /\ rows'[i] \in {rows[i], NoRow}
  BY <1>1, Constants
<1>3. OutboxTypeOK'
  <2>1. rows' \in [TaskId -> Row] /\ faults' \in 0 .. MaxFaults
    BY <1>1, Constants
  <2> QED BY <1>1, <2>1, Constants DEF OutboxTypeOK
<1> QED BY <1>1, <1>2, <1>3, Constants DEF QueueOK, NoneLost

-----------------------------------------------------------------------------
(* Steps that only move the queue along.                                   *)

\* Some task of the kind still waits, whichever it is.
KindsKept == \A g \in Tasks : HasPending(g) => HasPending(g)'

LEMMA NoneLostKinds == NoneLost => KindsKept
BY DEF NoneLost, KindsKept, HasPending

LEMMA WordIsTask == IInv => LastWord \in Tasks /\ "create" \in Tasks /\ "close" \in Tasks
BY DEF LastWord, Tasks

LEMMA QuietInv ==
  ASSUME IInv, QueueOK', KindsKept, run.task # NoTask => NoneLost,
         UNCHANGED <<contract, posts, handler, history, run>>
  PROVE  IInv'
<1> USE DEF IInv, contract, handler, history
<1>1. TypeOK' /\ PostsNumbered' /\ Rests'
  BY DEF TypeOK, QueueOK, PostsNumbered, Rests
<1>2. run.task # NoTask => Running' = Running /\ NoneLost
  BY DEF NoneLost, QueueOK, OutboxTypeOK
<1>3. ReadsHold' /\ NewsWaits'
  BY <1>2 DEF ReadsHold, NewsWaits, NoneLost, LastWord
<1>4. Making' /\ Halfway' /\ Achieved'
  BY <1>2 DEF Making, Halfway, Achieved, ToCreate, ToEdit, ToClose, Migrates, Landed, Shown
<1>5. LastWordComes' /\ PostIsComing' /\ OneLivePost' /\ OpenPostsGetLocked'
  BY WordIsTask DEF LastWordComes, PostIsComing, OneLivePost, OpenPostsGetLocked, KindsKept,
     Shown, GivenUp, LastWord
<1> QED BY <1>1, <1>3, <1>4, <1>5

\* A tick's scan, a lost retirement, a backoff that ends, a repair, a stutter.
LEMMA QuietStepsInv ==
  ASSUME IInv,
         \/ Tick \/ Republish \/ UNCHANGED vars
         \/ \E i \in TaskId : BackoffOver(i)
         \/ \E i \in TaskId : SettleLost(i) /\ UNCHANGED <<contract, posts, handler, history>>
  PROVE  IInv'
<1> USE DEF IInv
<1>1. /\ rows \in [TaskId -> Row] /\ batch \subseteq TaskId /\ faults \in 0 .. MaxFaults
      /\ run \in [task : TaskId \cup {NoTask}, landed : BOOLEAN]
      /\ run.task # NoTask => Pending(run.task) /\ run.task \notin batch
      /\ \A i \in batch : Pending(i)
  BY DEF QueueOK, OutboxTypeOK
<1>2. CASE Tick
  <2>1. /\ UNCHANGED <<rows, issued, faults, run, contract, posts, handler, history>>
        /\ run.task = NoTask /\ batch' \subseteq TaskId /\ \A i \in batch' : Pending(i)
    BY <1>2, Constants DEF Tick, ScanDue, OldestDue, Due
  <2> QED BY <1>1, <2>1, SameRows, NoneLostKinds, QuietInv
<1>3. CASE Republish
  <2>1. PICK g \in Tasks : Enqueued(g)
    BY <1>3 DEF Republish, Tasks
  <2> QED BY <1>1, <1>3, <2>1, EnqueuedQueue, NoneLostKinds, QuietInv DEF Republish
<1>4. CASE UNCHANGED vars
  BY <1>1, <1>4, SameRows, NoneLostKinds, QuietInv DEF vars, outboxVars
<1>5. ASSUME NEW i \in TaskId, BackoffOver(i) PROVE IInv'
  <2> DEFINE r == [rows[i] EXCEPT !.due = TRUE]
  <2>1. /\ Pending(i) /\ rows' = [rows EXCEPT ![i] = r]
        /\ UNCHANGED <<issued, batch, run, faults, contract, posts, handler, history>>
    BY <1>5 DEF BackoffOver, BackoffElapses
  <2>2. /\ r \in Row /\ r.group = rows[i].group /\ r.status = "pending"
        /\ r.attempts < MaxAttempts
    <3>1. rows[i] \in Row /\ rows[i].status = "pending" /\ rows[i].attempts < MaxAttempts
      BY <1>1, <2>1 DEF QueueOK
    <3> QED BY <3>1 DEF Row
  <2> HIDE DEF r
  <2>3. QueueOK' /\ (\A j \in TaskId : j # i => rows'[j] = rows[j]) /\ rows'[i] = r
    BY <1>1, <2>1, <2>2, OneTouched
  <2>4. NoneLost
    BY <2>2, <2>3 DEF NoneLost
  <2> QED BY <2>1, <2>3, <2>4, NoneLostKinds, QuietInv
<1>6. ASSUME NEW i \in TaskId, SettleLost(i), UNCHANGED <<contract, posts, handler, history>>
      PROVE  IInv'
  <2>1. /\ UNCHANGED <<rows, issued, run>> /\ faults' \in 0 .. MaxFaults /\ batch' \subseteq batch
    BY <1>1, <1>6, Constants DEF SettleLost
  <2> QED BY <1>1, <1>6, <2>1, SameRows, NoneLostKinds, QuietInv
<1> QED BY <1>2, <1>3, <1>4, <1>5, <1>6

\* An older task of a kind is retired: the newest of the batch goes on waiting.
LEMMA SupersedeInv ==
  ASSUME IInv, NEW i \in TaskId, MarkSuperseded(i),
         UNCHANGED <<contract, posts, handler, history>>
  PROVE  IInv'
<1> USE DEF IInv
<1> DEFINE r == [rows[i] EXCEPT !.status = "done"]
<1>1. /\ rows \in [TaskId -> Row] /\ batch \subseteq TaskId /\ faults \in 0 .. MaxFaults
      /\ \A j \in batch : Pending(j)
  BY DEF QueueOK, OutboxTypeOK
<1>2. /\ run = Idle /\ i \in batch /\ rows' = [rows EXCEPT ![i] = r] /\ batch' = batch \ {i}
      /\ UNCHANGED <<issued, run, faults>>
  BY DEF MarkSuperseded, Turn
<1>3. PICK k \in batch : k # i /\ rows[k].group = rows[i].group
  BY <1>1 DEF MarkSuperseded, IsNewest
<1>4. /\ r \in Row /\ r.group = rows[i].group /\ r.status = "done" /\ Pending(i)
  BY <1>1, <1>2 DEF Row, RowStatus
<1> HIDE DEF r
<1>5. QueueOK' /\ (\A j \in TaskId : j # i => rows'[j] = rows[j])
  <2>1. i \in TaskId /\ i # run'.task /\ i \notin batch' /\ batch' \subseteq batch
    BY <1>1, <1>2, Constants
  <2> QED BY <1>1, <1>2, <1>4, <2>1, OneTouched
<1>6. KindsKept
  <2> SUFFICES ASSUME NEW g \in Tasks, NEW j \in TaskId, Pending(j), rows[j].group = g
               PROVE  \E n \in TaskId : Pending(n)' /\ rows'[n].group = g
    BY DEF KindsKept, HasPending
  <2>1. CASE j # i
    BY <1>5, <2>1
  <2>2. CASE j = i
    BY <1>1, <1>3, <1>5, <2>2
  <2> QED BY <2>1, <2>2
<1> QED BY <1>2, <1>5, <1>6, Constants, QuietInv

\* A handler starts by reading the contract.
LEMMA StartInv == ASSUME IInv, NEW i \in TaskId, Start(i) PROVE IInv'
<1> USE DEF IInv
<1>1. /\ i \in batch /\ run = Idle /\ run' = [task |-> i, landed |-> FALSE]
      /\ batch' = batch \ {i} /\ rows[i].group \in Tasks
      /\ prog' = [open |-> open, current |-> TRUE, thread |-> thread, stale |-> stale]
      /\ UNCHANGED <<rows, issued, faults, open, thread, stale, posts, made, called,
                     gaveUp, orphans>>
  BY Constants DEF Start, Begin, Turn, contract, history
<1>2. batch \subseteq TaskId /\ Pending(i) /\ faults \in 0 .. MaxFaults
      /\ \A j \in batch : Pending(j)
  BY <1>1 DEF QueueOK, OutboxTypeOK
<1>3. QueueOK' /\ NoneLost
  BY <1>1, <1>2, SameRows
<1>4. run'.task = i /\ ~run'.landed /\ ~called /\ made = NoThread
  BY <1>1, Constants DEF Rests
<1>5. TypeOK' /\ PostsNumbered' /\ Rests'
  <2>1. prog' \in Progress
    BY <1>1 DEF TypeOK, Progress, PostId
  <2> QED BY <1>1, <1>3, <1>4, <2>1 DEF TypeOK, QueueOK, PostsNumbered, Rests
<1>6. ReadsHold' /\ NewsWaits'
  BY <1>1, <1>4 DEF ReadsHold, NewsWaits
<1>7. Making' /\ Halfway' /\ Achieved'
  BY <1>1, <1>4 DEF Making, Halfway, Achieved, Landed, ToCreate
<1>8. LastWordComes' /\ PostIsComing' /\ OneLivePost' /\ OpenPostsGetLocked'
  BY <1>1 DEF LastWordComes, PostIsComing, OneLivePost, OpenPostsGetLocked, HasPending,
     Shown, GivenUp, LastWord
<1> QED BY <1>3, <1>5, <1>6, <1>7, <1>8

-----------------------------------------------------------------------------
(* The end of a handler.                                                   *)

\* The handler's last effect is through, and no task of its kind waits behind it.
LastOf(g) ==
  Landed(g) /\ \A j \in TaskId : j # run.task /\ Pending(j) => rows[j].group # g

\* A handler that is over owes nothing: only the last task of a kind, with its
\* last effect through, may leave without another to come.
LEMMA OverInv ==
  ASSUME IInv, Over, QueueOK', run' = Idle,
         UNCHANGED <<open, thread, posts>>, stale' \in BOOLEAN, gaveUp' \in SUBSET Tasks,
         \A g \in Tasks : HasPending(g) \/ GivenUp(g) =>
                            HasPending(g)' \/ GivenUp(g)' \/ LastOf(g)
  PROVE  IInv'
<1> USE DEF IInv, Over
<1>1. run'.task = NoTask /\ ~called' /\ made' = NoThread
  BY Constants
<1>2. TypeOK' /\ PostsNumbered'
  <2>1. orphans' \in SUBSET DOMAIN posts
    BY DEF TypeOK
  <2> QED BY <2>1, Constants DEF TypeOK, QueueOK, PostsNumbered
<1>3. Rests' /\ ReadsHold' /\ NewsWaits' /\ Making' /\ Halfway' /\ Achieved'
  BY <1>1 DEF Rests, ReadsHold, NewsWaits, Making, Halfway, Achieved, Landed, ToCreate,
     ToEdit, ToClose, Migrates
<1>4. LastWordComes'
  <2> SUFFICES ASSUME Shown, ~posts[thread].current
               PROVE  HasPending(LastWord)' \/ GivenUp(LastWord)'
    BY DEF LastWordComes, Shown, LastWord, HasPending, GivenUp
  <2>1. HasPending(LastWord) \/ GivenUp(LastWord)
    BY DEF LastWordComes
  <2>2. ~LastOf(LastWord)
    <3> SUFFICES ASSUME LastOf(LastWord) PROVE FALSE
      OBVIOUS
    <3>1. prog.current /\ prog.open = open
      BY DEF LastOf, Landed, NewsWaits, ReadsHold
    <3> QED BY <3>1 DEF LastOf, Achieved, Landed, LastWord
  <2>3. LastWord' = LastWord
    BY DEF LastWord
  <2> QED BY <2>1, <2>2, <2>3, WordIsTask DEF HasPending, GivenUp
<1>5. PostIsComing'
  BY WordIsTask DEF PostIsComing, LastOf, Achieved
<1>6. OneLivePost'
  <2>1. \A t \in DOMAIN posts : t # NoThread
    BY NumberedTyped
  <2> QED BY <2>1 DEF OneLivePost
<1>7. OpenPostsGetLocked'
  BY WordIsTask DEF OpenPostsGetLocked, LastOf, Achieved, Shown
<1> QED BY <1>2, <1>3, <1>4, <1>5, <1>6, <1>7

\* The outcome is recorded: the task that ran is settled, or goes on waiting.
LEMMA OutcomeInv ==
  ASSUME IInv, NEW i \in TaskId, i = run.task, Over, run' = Idle,
         UNCHANGED <<issued, batch, faults, contract, posts>>,
         NEW r \in Row, rows' = [rows EXCEPT ![i] = r], r.group = Running,
         \/ /\ r.status = "done" /\ run.landed
            /\ gaveUp' = gaveUp \ {Running}
         \/ /\ r.status = "failed"
            /\ gaveUp' = gaveUp \cup {Running}
         \/ /\ r.status = "pending" /\ r.attempts < MaxAttempts
            /\ gaveUp' = gaveUp
  PROVE  IInv'
<1> USE DEF IInv
<1>1. /\ i # NoTask /\ Pending(i) /\ i \notin batch /\ Running \in Tasks
      /\ rows \in [TaskId -> Row] /\ faults \in 0 .. MaxFaults
  BY Constants DEF QueueOK, OutboxTypeOK, Row
<1>2. QueueOK' /\ \A j \in TaskId : j # i => rows'[j] = rows[j]
  <2>1. \/ r.status = "pending" /\ r.attempts < MaxAttempts
        \/ r.status \in {"done", "failed"} /\ i \notin batch' /\ i # run'.task
    BY <1>1, Constants
  <2> QED BY <1>1, <2>1, OneTouched
<1>3. rows'[i] = r /\ rows[i].group = Running
  BY <1>1
<1>4. gaveUp' \in SUBSET Tasks
  BY <1>1 DEF TypeOK
<1>5. ASSUME NEW g \in Tasks, HasPending(g) \/ GivenUp(g)
      PROVE  HasPending(g)' \/ GivenUp(g)' \/ LastOf(g)
  <2>1. CASE \E j \in TaskId : j # i /\ Pending(j) /\ rows[j].group = g
    BY <1>2, <2>1 DEF HasPending
  <2>2. CASE g # Running
    BY <1>2, <1>3, <1>5, <2>2 DEF HasPending, GivenUp
  <2>3. CASE g = Running /\ ~\E j \in TaskId : j # i /\ Pending(j) /\ rows[j].group = g
    <3>1. CASE r.status = "done"
      BY <1>1, <2>3, <3>1 DEF LastOf, Landed
    <3>2. CASE r.status = "failed"
      BY <2>3, <3>2 DEF GivenUp
    <3>3. CASE r.status = "pending"
      BY <1>3, <2>3, <3>3 DEF HasPending
    <3> QED BY <3>1, <3>2, <3>3
  <2> QED BY <2>1, <2>2, <2>3
<1>6. UNCHANGED <<open, thread, posts>> /\ stale' \in BOOLEAN
  BY DEF contract, TypeOK
<1> QED BY <1>2, <1>4, <1>5, <1>6, OverInv

LEMMA SettledInv == ASSUME IInv, Succeed \/ Retry \/ Abandon PROVE IInv'
<1> DEFINE i == run.task
<1>1. /\ i \in TaskId /\ rows \in [TaskId -> Row] /\ rows[i] \in Row /\ Pending(i)
      /\ rows[i].attempts < MaxAttempts /\ rows[i].group = Running
  BY DEF IInv, QueueOK, OutboxTypeOK, Succeed, MarkDone, Retry, MarkRetry, Abandon, MarkFailed
<1>2. /\ Over /\ run' = Idle
      /\ UNCHANGED <<issued, batch, faults, contract, posts>>
  BY DEF Succeed, MarkDone, Retry, MarkRetry, Abandon, MarkFailed
<1>3. CASE Succeed
  <2> DEFINE r == [rows[i] EXCEPT !.status = "done"]
  <2>1. rows' = [rows EXCEPT ![i] = r] /\ run.landed /\ gaveUp' = gaveUp \ {Running}
    BY <1>3 DEF Succeed, MarkDone
  <2>2. r \in Row /\ r.group = Running /\ r.status = "done"
    BY <1>1 DEF Row, RowStatus
  <2> HIDE DEF r
  <2> QED BY <1>1, <1>2, <2>1, <2>2, OutcomeInv
<1>4. CASE Retry
  <2> DEFINE r == [rows[i] EXCEPT !.attempts = @ + 1, !.due = FALSE]
  <2>1. /\ rows' = [rows EXCEPT ![i] = r] /\ gaveUp' = gaveUp
        /\ rows[i].attempts + 1 < MaxAttempts
    BY <1>1, <1>4 DEF Retry, MarkRetry
  <2>2. rows[i].attempts + 1 \in 0 .. MaxAttempts
    BY <1>1, <2>1, Constants DEF Row
  <2>3. r \in Row /\ r.group = Running /\ r.status = "pending" /\ r.attempts < MaxAttempts
    BY <1>1, <2>1, <2>2 DEF Row, RowStatus
  <2> HIDE DEF r
  <2> QED BY <1>1, <1>2, <2>1, <2>3, OutcomeInv
<1>5. CASE Abandon
  <2> DEFINE r == [rows[i] EXCEPT !.attempts = @ + 1, !.status = "failed"]
  <2>1. rows' = [rows EXCEPT ![i] = r] /\ gaveUp' = gaveUp \cup {Running}
    BY <1>1, <1>5 DEF Abandon, MarkFailed
  <2>2. rows[i].attempts + 1 \in 0 .. MaxAttempts
    BY <1>1, Constants DEF Row
  <2>3. r \in Row /\ r.group = Running /\ r.status = "failed"
    BY <1>1, <2>2 DEF Row, RowStatus
  <2> HIDE DEF r
  <2> QED BY <1>1, <1>2, <2>1, <2>3, OutcomeInv
<1> QED BY <1>3, <1>4, <1>5

\* An outcome that is not recorded, a crash, an upgrade: every task still waits.
LEMMA InterruptedInv == ASSUME IInv, OutcomeLost \/ Restart \/ Upgrade PROVE IInv'
<1> USE DEF IInv
<1>1. QueueOK' /\ NoneLost /\ run' = Idle
  <2>1. CASE OutcomeLost
    <3>1. /\ UNCHANGED <<rows, issued, batch>> /\ run' = Idle
          /\ faults' \in 0 .. MaxFaults /\ batch \subseteq TaskId
          /\ \A i \in batch : Pending(i)
      BY <2>1, Constants DEF OutcomeLost, MarkLost, QueueOK, OutboxTypeOK
    <3> QED BY <3>1, Constants, SameRows
  <2>2. CASE Restart \/ Upgrade
    BY <2>2, CrashQueue DEF Restart, Upgrade
  <2> QED BY <2>1, <2>2
<1>2. /\ Over /\ UNCHANGED <<open, thread, posts>> /\ gaveUp' = gaveUp
      /\ stale' \in BOOLEAN
  BY DEF OutcomeLost, Restart, Upgrade, contract, TypeOK
<1>3. \A g \in Tasks : HasPending(g) \/ GivenUp(g) => HasPending(g)' \/ GivenUp(g)'
  BY <1>1, <1>2, NoneLostKinds DEF KindsKept, GivenUp
<1>4. gaveUp' \in SUBSET Tasks
  BY <1>2 DEF TypeOK
<1> QED BY <1>1, <1>2, <1>3, <1>4, OverInv

-----------------------------------------------------------------------------
(* The transactions.                                                       *)

\* The change that outdates the cards enqueues the task that shows it.
LEMMA OutdatedInv ==
  ASSUME IInv, open, open' \in BOOLEAN, Outdated, NEW g \in Tasks, g = LastWord', Enqueued(g),
         UNCHANGED <<batch, run, faults, thread, stale, made, called, history>>
  PROVE  IInv'
<1> USE DEF IInv, history
<1>1. /\ QueueOK' /\ NoneLost
      /\ \E j \in TaskId : j # run.task /\ Pending(j)' /\ rows'[j].group = g
  <2>1. run' \in [task : TaskId \cup {NoTask}, landed : BOOLEAN] /\ run'.task = run.task
    BY DEF QueueOK, OutboxTypeOK
  <2> QED BY <2>1, EnqueuedQueue
<1>2. HasPending(LastWord)' /\ KindsKept
  BY <1>1, NoneLostKinds DEF HasPending
<1>3. run.task # NoTask => Running' = Running /\ run.task \in TaskId
  BY <1>1 DEF NoneLost, QueueOK, OutboxTypeOK
<1>4. /\ DOMAIN posts' = DOMAIN posts
      /\ \A t \in DOMAIN posts :
           /\ posts[t] \in Post /\ posts'[t] = [posts[t] EXCEPT !.current = FALSE]
           /\ posts'[t] \in Post
  <2>1. DOMAIN posts' = DOMAIN posts
    BY DEF Outdated
  <2> SUFFICES ASSUME NEW t \in DOMAIN posts
               PROVE  /\ posts[t] \in Post /\ posts'[t] = [posts[t] EXCEPT !.current = FALSE]
                      /\ posts'[t] \in Post
    BY <2>1
  <2>2. posts[t] \in Post /\ posts'[t] = [posts[t] EXCEPT !.current = FALSE]
    BY NumberedTyped DEF Outdated
  <2> QED BY <2>2 DEF Post
<1>5. \A t \in DOMAIN posts :
        /\ posts'[t].there = posts[t].there /\ ~posts'[t].current
        /\ posts'[t].buttons = posts[t].buttons /\ posts'[t].locked = posts[t].locked
        /\ posts'[t].bornOpen = posts[t].bornOpen
  BY <1>4 DEF Post
<1>6. /\ prog' \in Progress /\ ~prog'.current
      /\ prog'.open = prog.open /\ prog'.thread = prog.thread /\ prog'.stale = prog.stale
  <2>1. prog \in Progress
    BY DEF TypeOK
  <2> QED BY <2>1 DEF Outdated, Progress
<1>7. PostsNumbered'
  <2>1. PICK n \in 0 .. MaxPosts : posts \in [1 .. n -> Post]
    BY DEF PostsNumbered
  <2>2. DOMAIN posts = 1 .. n
    BY <2>1
  <2>3. posts' = [t \in 1 .. n |-> posts'[t]]
    BY <2>2 DEF Outdated
  <2>4. posts' \in [1 .. n -> Post]
    BY <1>4, <2>2, <2>3
  <2> QED BY <2>4 DEF PostsNumbered
<1>8. thread \in {NoThread} \cup DOMAIN posts /\ made \in {NoThread} \cup DOMAIN posts
  BY DEF TypeOK
<1>9. TypeOK'
  BY <1>1, <1>4, <1>6, <1>8 DEF TypeOK, QueueOK
<1>10. Rests' /\ ReadsHold' /\ NewsWaits'
  <2>1. Rests'
    BY DEF Rests
  <2>2. ReadsHold'
    BY <1>6 DEF ReadsHold
  <2>3. NewsWaits'
    BY <1>1 DEF NewsWaits
  <2> QED BY <2>1, <2>2, <2>3
<1>11. Making'
  <2>1. (made # NoThread)' => posts'[made'].current = prog'.current
                              /\ posts'[made'].bornOpen = prog'.open
    <3> SUFFICES ASSUME made # NoThread
                 PROVE  posts'[made].current = prog'.current /\ posts'[made].bornOpen = prog'.open
      OBVIOUS
    <3>1. posts'[made].current = FALSE /\ prog'.current = FALSE
      BY <1>4, <1>6, <1>8 DEF Post, Progress
    <3>2. posts'[made].bornOpen = prog'.open
      BY <1>5, <1>6, <1>8 DEF Making
    <3> QED BY <3>1, <3>2
  <2> QED BY <1>3, <1>6, <2>1 DEF Making, ToCreate
<1>12. thread # NoThread => posts'[thread].current = prog'.current
  <2>1. thread # NoThread => posts'[thread].current = FALSE /\ prog'.current = FALSE
    BY <1>4, <1>6, <1>8 DEF Post, Progress
  <2> QED BY <2>1
<1>13. Halfway' /\ Achieved'
  <2>1. ReadsHold /\ Halfway
    OBVIOUS
  <2>2. Halfway'
    BY <1>3, <1>5, <1>6, <1>8, <1>12, <2>1
       DEF Halfway, ReadsHold, ToEdit, ToClose, Migrates
  <2>3. Achieved'
    BY <1>3, <1>5, <1>6, <1>8, <1>12 DEF Achieved, Landed, Shown
  <2> QED BY <2>2, <2>3
<1>14. LastWordComes'
  BY <1>2 DEF LastWordComes
<1>15. PostIsComing'
  BY <1>2 DEF PostIsComing, KindsKept, GivenUp, Tasks
<1>16. OneLivePost'
  BY <1>4, <1>5 DEF OneLivePost
<1>17. OpenPostsGetLocked'
  BY <1>2 DEF OpenPostsGetLocked, LastWord
<1> QED BY <1>1, <1>7, <1>9, <1>10, <1>11, <1>13, <1>14, <1>15, <1>16, <1>17

LEMMA ChangeInv == ASSUME IInv, Change \/ Close PROVE IInv'
<1>1. PICK g \in Tasks : g = LastWord' /\ Enqueued(g)
  BY DEF Change, Close, LastWord, Tasks, contract
<1>2. /\ open /\ open' \in BOOLEAN /\ Outdated
      /\ UNCHANGED <<batch, run, faults, thread, stale, made, called, history>>
  BY DEF Change, Close, contract, IInv, TypeOK
<1> QED BY <1>1, <1>2, OutdatedInv

-----------------------------------------------------------------------------
(* The handlers, between their calls.                                      *)

\* What a handler that still acts may rely on.
LEMMA Acting ==
  ASSUME IInv, run.task # NoTask, ~run.landed
  PROVE  /\ run.task \in TaskId /\ Running \in Tasks
         /\ prog.thread = thread /\ prog.stale = stale /\ prog \in Progress
         /\ thread # NoThread => thread \in DOMAIN posts /\ posts[thread] \in Post
         /\ made # NoThread => Running = "create" /\ called
         /\ made \in {NoThread} \cup DOMAIN posts
         /\ ~prog.current => HasPending(LastWord)
<1>1. run.task \in TaskId /\ Running \in Tasks
  BY Constants DEF IInv, QueueOK, OutboxTypeOK, Row
<1>2. ~prog.current => HasPending(LastWord)
  BY DEF IInv, NewsWaits, HasPending
<1> QED BY <1>1, <1>2 DEF IInv, TypeOK, ReadsHold, Making

\* A step of the handler itself leaves the queue alone.
LEMMA QueueStays ==
  ASSUME IInv, UNCHANGED outboxVars \/ Land
  PROVE  /\ QueueOK' /\ rows' = rows /\ run'.task = run.task
         /\ Land => run'.landed
         /\ \A g \in Tasks : HasPending(g)' <=> HasPending(g)
<1>1. run \in [task : TaskId \cup {NoTask}, landed : BOOLEAN]
  BY DEF IInv, QueueOK, OutboxTypeOK
<1>2. rows' = rows /\ run'.task = run.task /\ (Land => run'.landed)
  BY <1>1 DEF outboxVars, Land
<1>3. QueueOK'
  <2>1. /\ UNCHANGED <<rows, issued, batch, faults>>
        /\ run' \in [task : TaskId \cup {NoTask}, landed : BOOLEAN]
    BY <1>1 DEF outboxVars, Land
  <2>2. QueueOK /\ faults \in 0 .. MaxFaults /\ batch \subseteq TaskId
    BY DEF IInv, QueueOK, OutboxTypeOK
  <2> QED BY <1>2, <2>1, <2>2, SameRows DEF QueueOK
<1> QED BY <1>2, <1>3 DEF HasPending

\* A handler that found nothing to do, or nothing to close.
LEMMA NothingInv == ASSUME IInv, NothingToDo \/ CloseFindsNothing PROVE IInv'
<1> USE DEF IInv, Finishes, contract, history
<1>1. /\ Land /\ UNCHANGED <<open, thread, stale, posts, made, called, prog, gaveUp, orphans>>
      /\ run.task # NoTask /\ ~run.landed
  BY DEF NothingToDo, CloseFindsNothing, Land
<1>2. /\ QueueOK' /\ rows' = rows /\ run'.task = run.task /\ run'.landed
      /\ \A g \in Tasks : HasPending(g)' <=> HasPending(g)
  BY <1>1, QueueStays
<1>3. TypeOK' /\ PostsNumbered' /\ Rests' /\ ReadsHold' /\ NewsWaits'
  BY <1>1, <1>2 DEF TypeOK, QueueOK, PostsNumbered, Rests, ReadsHold, NewsWaits, LastWord
<1>4. made = NoThread
  BY <1>1, Acting DEF NothingToDo, CloseFindsNothing, ToClose
<1>5. Making' /\ Halfway'
  BY <1>1, <1>2, <1>4 DEF Making, Halfway, ToCreate, ToEdit, ToClose, Migrates
<1>6. Achieved'
  BY <1>1, <1>2, Acting DEF Achieved, Landed, Shown, NothingToDo, CloseFindsNothing, ToClose
<1>7. LastWordComes' /\ PostIsComing' /\ OneLivePost' /\ OpenPostsGetLocked'
  BY <1>1, <1>2, WordIsTask DEF LastWordComes, PostIsComing, OneLivePost, OpenPostsGetLocked,
     Shown, GivenUp, LastWord
<1> QED BY <1>2, <1>3, <1>5, <1>6, <1>7

\* The post exists before the contract knows of it.
LEMMA CreateInv == ASSUME IInv, CreateForumPost PROVE IInv'
<1> USE DEF IInv, CreateForumPost, contract, history
<1> DEFINE e == [there |-> TRUE, current |-> prog.current, buttons |-> TRUE,
                 locked |-> FALSE, bornOpen |-> prog.open]
<1>1. /\ run.task # NoTask /\ ~run.landed /\ Running = "create" /\ thread = NoThread
      /\ made = NoThread /\ prog \in Progress
  BY Acting DEF ToCreate
<1>2. /\ e \in Post /\ e.current = prog.current /\ e.bornOpen = prog.open
  BY <1>1 DEF Post, Progress
<1>3. posts' = Append(posts, e) /\ made' = Cardinality(DOMAIN posts) + 1 /\ called'
  OBVIOUS
<1> HIDE DEF e
<1>4. /\ PostsNumbered' /\ DOMAIN posts' = DOMAIN posts \cup {made'}
      /\ made' \in PostId /\ made' # NoThread /\ posts'[made'] = e
      /\ \A t \in DOMAIN posts : posts'[t] = posts[t]
  BY <1>2, <1>3, OneMade
<1>5. /\ QueueOK' /\ UNCHANGED <<rows, run, prog, open, thread, stale, gaveUp, orphans>>
      /\ \A g \in Tasks : HasPending(g)' <=> HasPending(g)
  BY QueueStays DEF outboxVars
<1>6. TypeOK'
  <2>1. DOMAIN posts' \in SUBSET PostId /\ \A t \in DOMAIN posts' : posts'[t] \in Post
    BY <1>2, <1>4, NumberedTyped
  <2> QED BY <1>3, <1>4, <1>5, <2>1 DEF TypeOK, QueueOK
<1>7. Rests' /\ ReadsHold' /\ NewsWaits'
  BY <1>1, <1>3, <1>5 DEF Rests, ReadsHold, NewsWaits, LastWord
<1>8. Making'
  BY <1>1, <1>2, <1>3, <1>4, <1>5 DEF Making
<1>9. Halfway' /\ Achieved'
  BY <1>1, <1>5 DEF Halfway, Achieved, Landed, ToEdit, ToClose, Migrates
<1>10. LastWordComes' /\ PostIsComing' /\ OpenPostsGetLocked'
  BY <1>1, <1>5, WordIsTask DEF LastWordComes, PostIsComing, OpenPostsGetLocked, Shown, GivenUp
<1>11. OneLivePost'
  BY <1>1, <1>4, <1>5 DEF OneLivePost
<1> QED BY <1>4, <1>5, <1>6, <1>7, <1>8, <1>9, <1>10, <1>11

\* What the recorded post does not show, and a close it was born too early to
\* know of, wait behind the create.
LEMMA RecordInv == ASSUME IInv, SetThreadID PROVE IInv'
<1> USE DEF IInv, SetThreadID, handler, history
<1>1. /\ run.task # NoTask /\ ~run.landed /\ Running = "create" /\ thread = NoThread
      /\ made # NoThread /\ made \in DOMAIN posts
      /\ posts[made].current = prog.current /\ posts[made].bornOpen = prog.open
      /\ ~prog.current => HasPending(LastWord)
  BY Acting DEF ToCreate, Making
<1>2. /\ QueueOK' /\ rows' = rows /\ run'.task = run.task /\ run'.landed
      /\ \A g \in Tasks : HasPending(g)' <=> HasPending(g)
  BY QueueStays
<1>3. TypeOK' /\ PostsNumbered' /\ Rests' /\ ReadsHold' /\ NewsWaits'
  BY <1>1, <1>2 DEF TypeOK, QueueOK, PostsNumbered, Rests, ReadsHold, NewsWaits, LastWord
<1>4. Making' /\ Halfway' /\ Achieved'
  BY <1>1, <1>2 DEF Making, Halfway, Achieved, Landed, ToCreate, ToEdit, ToClose, Migrates
<1>5. LastWordComes'
  BY <1>1, <1>2, WordIsTask DEF LastWordComes, Shown, LastWord
<1>6. PostIsComing' /\ OneLivePost'
  BY <1>1, NumberedTyped DEF PostIsComing, OneLivePost
<1>7. OpenPostsGetLocked'
  <2> SUFFICES ASSUME ~open, posts[made].bornOpen PROVE HasPending("close")'
    BY DEF OpenPostsGetLocked, Shown
  <2>1. ~prog.current
    BY <1>1 DEF ReadsHold
  <2> QED BY <1>1, <1>2, <2>1, WordIsTask DEF LastWord
<1> QED BY <1>2, <1>3, <1>4, <1>5, <1>6, <1>7

-----------------------------------------------------------------------------
(* Edits of the recorded post.                                             *)

\* The recorded post is edited by a handler that changes nothing else but how
\* far it is.
LEMMA RecordedEdited ==
  ASSUME IInv, run.task # NoTask, ~run.landed, Running \in {"refresh", "close"},
         thread # NoThread, NEW e \in Post, posts' = [posts EXCEPT ![thread] = e],
         UNCHANGED outboxVars \/ Land, called' \in BOOLEAN,
         UNCHANGED <<contract, prog, made, history>>,
         e.there => posts[thread].there,
         e.there /\ ~e.current => ~prog.current \/ ~posts[thread].current,
         e.bornOpen = posts[thread].bornOpen,
         posts[thread].locked => e.locked, e.buttons => posts[thread].buttons,
         Halfway', Achieved'
  PROVE  IInv'
<1> USE DEF IInv, contract, history
<1>1. /\ thread \in DOMAIN posts /\ made = NoThread
      /\ ~prog.current => HasPending(LastWord)
  BY Acting
<1>2. /\ QueueOK' /\ rows' = rows /\ run'.task = run.task /\ (Land => run'.landed)
      /\ \A g \in Tasks : HasPending(g)' <=> HasPending(g)
  BY QueueStays
<1>3. /\ PostsNumbered' /\ DOMAIN posts' = DOMAIN posts
      /\ posts'[thread] = e
      /\ \A u \in DOMAIN posts : u # thread => posts'[u] = posts[u]
  BY <1>1, OneEdited
<1>4. TypeOK'
  BY <1>2, <1>3 DEF TypeOK, QueueOK
<1>5. Rests' /\ ReadsHold' /\ NewsWaits'
  BY <1>2 DEF Rests, ReadsHold, NewsWaits, LastWord, outboxVars
<1>6. Making'
  BY <1>1, <1>2 DEF Making, ToCreate
<1>7. LastWordComes'
  BY <1>1, <1>2, <1>3, WordIsTask DEF LastWordComes, Shown, GivenUp, LastWord
<1>8. PostIsComing' /\ OneLivePost'
  BY <1>2, <1>3, WordIsTask DEF PostIsComing, OneLivePost, GivenUp
<1>9. OpenPostsGetLocked'
  BY <1>2, <1>3, WordIsTask DEF OpenPostsGetLocked, Shown, GivenUp
<1> QED BY <1>2, <1>3, <1>4, <1>5, <1>6, <1>7, <1>8, <1>9

LEMMA DeleteInv == ASSUME IInv, DeletePost PROVE IInv'
<1> DEFINE e == [posts[thread] EXCEPT !.there = FALSE]
<1>1. /\ run.task # NoTask /\ ~run.landed /\ Running \in {"refresh", "close"}
      /\ thread # NoThread /\ prog.stale /\ prog.thread = thread
      /\ thread \in DOMAIN posts /\ posts[thread] \in Post
  BY Acting DEF DeletePost, Migrates, ToEdit, ToClose
<1>2. /\ e \in Post /\ ~e.there /\ e.current = posts[thread].current
      /\ e.bornOpen = posts[thread].bornOpen /\ e.locked = posts[thread].locked
      /\ e.buttons = posts[thread].buttons
  BY <1>1 DEF Post
<1>3. /\ posts' = [posts EXCEPT ![thread] = e] /\ called'
      /\ UNCHANGED <<outboxVars, contract, prog, made, history>>
  BY <1>1 DEF DeletePost
<1> HIDE DEF e
<1>4. posts'[thread] = e /\ UNCHANGED <<rows, run, prog, thread>>
  BY <1>1, <1>3 DEF outboxVars, contract
<1>5. Halfway' /\ Achieved'
  BY <1>1, <1>2, <1>4 DEF Halfway, Achieved, Landed, Migrates
<1> QED BY <1>1, <1>2, <1>3, <1>5, RecordedEdited DEF DeletePost

LEMMA EditInv == ASSUME IInv, EditPost PROVE IInv'
<1> DEFINE e == [posts[thread] EXCEPT !.current = prog.current]
<1>1. /\ run.task # NoTask /\ ~run.landed /\ Running = "refresh"
      /\ thread # NoThread /\ prog.thread = thread
      /\ thread \in DOMAIN posts /\ posts[thread] \in Post /\ prog \in Progress
  BY Acting DEF EditPost, ToEdit
<1>2. /\ e \in Post /\ e.there = posts[thread].there /\ e.current = prog.current
      /\ e.bornOpen = posts[thread].bornOpen /\ e.locked = posts[thread].locked
      /\ e.buttons = posts[thread].buttons
  BY <1>1 DEF Post, Progress
<1>3. /\ posts' = [posts EXCEPT ![thread] = e] /\ Land
      /\ UNCHANGED <<contract, prog, called, made, history>>
  BY <1>1 DEF EditPost, Rendered, Finishes
<1> HIDE DEF e
<1>4. /\ posts'[thread] = e /\ UNCHANGED <<rows, prog, thread>> /\ called' \in BOOLEAN
      /\ run'.task = run.task /\ run'.landed
  BY <1>1, <1>3, QueueStays DEF contract, IInv, TypeOK
<1>5. Halfway' /\ Achieved'
  BY <1>1, <1>2, <1>4 DEF Halfway, Achieved, Landed, ToEdit, ToClose, Migrates
<1> QED BY <1>1, <1>2, <1>3, <1>4, <1>5, RecordedEdited

LEMMA FinalCardInv == ASSUME IInv, FinalCard PROVE IInv'
<1> DEFINE e == [posts[thread] EXCEPT !.current = prog.current, !.buttons = FALSE]
<1>1. /\ run.task # NoTask /\ ~run.landed /\ Running = "close"
      /\ thread # NoThread /\ prog.thread = thread /\ ~prog.stale
      /\ thread \in DOMAIN posts /\ posts[thread] \in Post /\ prog \in Progress
  BY Acting DEF FinalCard, ToClose
<1>2. /\ e \in Post /\ e.there = posts[thread].there /\ e.current = prog.current
      /\ e.bornOpen = posts[thread].bornOpen /\ e.locked = posts[thread].locked
      /\ ~e.buttons
  BY <1>1 DEF Post, Progress
<1>3. /\ posts' = [posts EXCEPT ![thread] = e] /\ called'
      /\ UNCHANGED <<outboxVars, contract, prog, made, history>>
  BY <1>1 DEF FinalCard
<1> HIDE DEF e
<1>4. posts'[thread] = e /\ UNCHANGED <<rows, run, prog, thread>>
  BY <1>1, <1>3 DEF outboxVars, contract
<1>5. Halfway' /\ Achieved'
  BY <1>1, <1>2, <1>4 DEF Halfway, Achieved, Landed, ToEdit, ToClose, Migrates
<1> QED BY <1>1, <1>2, <1>3, <1>5, RecordedEdited DEF FinalCard

LEMMA LockInv == ASSUME IInv, LockPost PROVE IInv'
<1> DEFINE e == [posts[thread] EXCEPT !.locked = TRUE]
<1>1. /\ run.task # NoTask /\ ~run.landed /\ Running = "close"
      /\ thread # NoThread /\ prog.thread = thread /\ posts[thread].there
      /\ thread \in DOMAIN posts /\ posts[thread] \in Post
      /\ posts[thread].current = prog.current /\ ~posts[thread].buttons
  BY Acting DEF LockPost, ToClose, IInv, Halfway
<1>2. /\ e \in Post /\ e.there = posts[thread].there /\ e.current = posts[thread].current
      /\ e.bornOpen = posts[thread].bornOpen /\ e.locked
      /\ e.buttons = posts[thread].buttons
  BY <1>1 DEF Post
<1>3. /\ posts' = [posts EXCEPT ![thread] = e] /\ Land
      /\ UNCHANGED <<contract, prog, called, made, history>>
  BY <1>1 DEF LockPost, Finishes
<1> HIDE DEF e
<1>4. /\ posts'[thread] = e /\ UNCHANGED <<rows, prog, thread>> /\ called' \in BOOLEAN
      /\ run'.task = run.task /\ run'.landed
  BY <1>1, <1>3, QueueStays DEF contract, IInv, TypeOK
<1>5. Halfway' /\ Achieved'
  BY <1>1, <1>2, <1>4 DEF Halfway, Achieved, Landed, ToEdit, ToClose, Migrates
<1> QED BY <1>1, <1>2, <1>3, <1>4, <1>5, RecordedEdited

-----------------------------------------------------------------------------
(* A post that is gone, and the one that is to replace it.                 *)

LEMMA FindsInv == ASSUME IInv, FindsPostDeleted PROVE IInv'
<1> USE DEF IInv, FindsPostDeleted, contract, history
<1>1. /\ run.task # NoTask /\ ~run.landed /\ Running = "refresh" /\ prog.thread = thread
      /\ made = NoThread /\ ~posts[thread].there
  BY Acting DEF ToEdit
<1>2. /\ QueueOK' /\ UNCHANGED <<rows, run>>
      /\ \A g \in Tasks : HasPending(g)' <=> HasPending(g)
  BY QueueStays DEF outboxVars
<1>3. TypeOK' /\ PostsNumbered' /\ Rests' /\ ReadsHold' /\ NewsWaits'
  BY <1>1, <1>2 DEF TypeOK, QueueOK, PostsNumbered, Rests, ReadsHold, NewsWaits, LastWord
<1>4. Making' /\ Halfway' /\ Achieved'
  BY <1>1, <1>2 DEF Making, Halfway, Achieved, Landed, ToCreate, ToEdit, ToClose, Migrates
<1>5. LastWordComes' /\ PostIsComing' /\ OneLivePost' /\ OpenPostsGetLocked'
  BY <1>2, WordIsTask DEF LastWordComes, PostIsComing, OneLivePost, OpenPostsGetLocked,
     Shown, GivenUp, LastWord
<1> QED BY <1>2, <1>3, <1>4, <1>5

\* The id is cleared with the create that will replace it, of a post that is gone.
LEMMA RecreateInv == ASSUME IInv, RecreatePost PROVE IInv'
<1> USE DEF IInv, RecreatePost, handler, history
<1>1. /\ run.task # NoTask /\ ~run.landed /\ Running \in {"refresh", "close"}
      /\ made = NoThread /\ prog.thread = thread /\ ~posts[thread].there
  BY Acting DEF ToEdit, ToClose, Migrates, Halfway
<1>2. /\ run' \in [task : TaskId \cup {NoTask}, landed : BOOLEAN]
      /\ run'.task = run.task /\ run'.landed /\ run.task \in TaskId
  <2>1. run \in [task : TaskId \cup {NoTask}, landed : BOOLEAN] /\ run.task # NoTask
    BY <1>1 DEF QueueOK, OutboxTypeOK
  <2>2. run' = [run EXCEPT !.landed = TRUE]
    OBVIOUS
  <2> QED BY ONLY <2>1, <2>2
<1>3. /\ QueueOK' /\ NoneLost /\ \E j \in TaskId : Pending(j)' /\ rows'[j].group = "create"
  BY <1>2, WordIsTask, EnqueuedQueue
<1>4. KindsKept /\ HasPending("create")' /\ Running' = Running
  BY <1>1, <1>2, <1>3, NoneLostKinds DEF NoneLost, HasPending, QueueOK
<1>5. TypeOK' /\ PostsNumbered' /\ Rests'
  BY <1>1, <1>2, <1>3 DEF TypeOK, QueueOK, PostsNumbered, Rests
<1>6. ReadsHold' /\ NewsWaits'
  BY <1>2, <1>3 DEF ReadsHold, NewsWaits, NoneLost, LastWord
<1>7. Making' /\ Halfway' /\ Achieved'
  BY <1>1, <1>2, <1>4 DEF Making, Halfway, Achieved, Landed, Shown, ToCreate, ToEdit, ToClose,
     Migrates
<1>8. LastWordComes' /\ PostIsComing' /\ OneLivePost' /\ OpenPostsGetLocked'
  BY <1>1, <1>4 DEF LastWordComes, PostIsComing, OneLivePost, OpenPostsGetLocked, Shown
<1> QED BY <1>3, <1>5, <1>6, <1>7, <1>8

LEMMA DeletedByHandInv ==
  ASSUME IInv, NEW t \in DOMAIN posts, DeletedByHand(t) PROVE IInv'
<1> USE DEF IInv, DeletedByHand, contract, handler, history
<1> DEFINE e == [posts[t] EXCEPT !.there = FALSE]
<1>1. posts[t] \in Post
  BY NumberedTyped
<1>2. /\ e \in Post /\ ~e.there /\ e.current = posts[t].current
      /\ e.bornOpen = posts[t].bornOpen /\ e.locked = posts[t].locked
      /\ e.buttons = posts[t].buttons
  BY <1>1 DEF Post
<1>3. posts' = [posts EXCEPT ![t] = e]
  OBVIOUS
<1> HIDE DEF e
<1>4. /\ PostsNumbered' /\ DOMAIN posts' = DOMAIN posts /\ posts'[t] = e
      /\ \A u \in DOMAIN posts : u # t => posts'[u] = posts[u]
  BY <1>2, <1>3, OneEdited
<1>5. \A u \in DOMAIN posts :
        /\ posts'[u].there => posts[u].there
        /\ posts'[u].current = posts[u].current /\ posts'[u].bornOpen = posts[u].bornOpen
        /\ posts'[u].locked = posts[u].locked /\ posts'[u].buttons = posts[u].buttons
  BY <1>2, <1>4
<1>6. QueueOK'
  <2>1. /\ faults' \in 0 .. MaxFaults /\ batch \subseteq TaskId
        /\ run \in [task : TaskId \cup {NoTask}, landed : BOOLEAN]
    BY Constants DEF QueueOK, OutboxTypeOK
  <2> QED BY <2>1, SameRows DEF QueueOK
<1>7. \A g \in Tasks : HasPending(g)' <=> HasPending(g)
  BY DEF HasPending
<1>8. TypeOK'
  BY <1>2, <1>4, <1>6 DEF TypeOK, QueueOK
<1>9. Rests' /\ ReadsHold' /\ NewsWaits'
  BY DEF Rests, ReadsHold, NewsWaits, LastWord
<1>10. /\ thread \in {NoThread} \cup DOMAIN posts /\ made \in {NoThread} \cup DOMAIN posts
  BY DEF TypeOK
<1>11. Making'
  BY <1>5, <1>10 DEF Making, ToCreate
<1>12. Halfway'
  BY <1>5, <1>10 DEF Halfway, ReadsHold, ToEdit, ToClose, Migrates
<1>13. Achieved'
  BY <1>5, <1>10 DEF Achieved, Landed, Shown
<1>14. LastWordComes' /\ PostIsComing' /\ OneLivePost' /\ OpenPostsGetLocked'
  BY <1>4, <1>5, <1>7, <1>10, WordIsTask DEF LastWordComes, PostIsComing, OneLivePost,
     OpenPostsGetLocked, Shown, GivenUp, LastWord
<1> QED BY <1>4, <1>6, <1>8, <1>9, <1>11, <1>12, <1>13, <1>14

-----------------------------------------------------------------------------

LEMMA NextInv == IInv /\ [Next]_vars => IInv'
<1> SUFFICES ASSUME IInv, [Next]_vars PROVE IInv'
  OBVIOUS
<1>1. CASE Change \/ Close
  BY <1>1, ChangeInv
<1>2. CASE Tick \/ Republish \/ UNCHANGED vars \/ \E i \in TaskId : BackoffOver(i)
  BY <1>2, QuietStepsInv
<1>3. ASSUME NEW i \in TaskId, Supersede(i) PROVE IInv'
  BY <1>3, SupersedeInv, QuietStepsInv DEF Supersede
<1>4. CASE \E i \in TaskId : Start(i)
  BY <1>4, StartInv
<1>5. CASE NothingToDo \/ CloseFindsNothing
  BY <1>5, NothingInv
<1>6. CASE CreateForumPost \/ SetThreadID
  BY <1>6, CreateInv, RecordInv
<1>7. CASE DeletePost \/ EditPost \/ FinalCard \/ LockPost
  BY <1>7, DeleteInv, EditInv, FinalCardInv, LockInv
<1>8. CASE FindsPostDeleted \/ RecreatePost
  BY <1>8, FindsInv, RecreateInv
<1>9. CASE Succeed \/ Retry \/ Abandon
  BY <1>9, SettledInv
<1>10. CASE OutcomeLost \/ Restart \/ Upgrade
  BY <1>10, InterruptedInv
<1>11. CASE \E t \in DOMAIN posts : DeletedByHand(t)
  BY <1>11, DeletedByHandInv
<1> QED BY <1>1, <1>2, <1>3, <1>4, <1>5, <1>6, <1>7, <1>8, <1>9, <1>10, <1>11
        DEF Next, WorkerStep, HandlerStep

\* The invariant holds in every reachable state, for any bounds.
THEOREM IInvHolds == Spec => []IInv
BY InitInv, NextInv, PTL DEF Spec

\* Type correctness: the thread id, and the post a create made, name a post that
\* was made; the queue's rows are the outbox's.
THEOREM TypeCorrect == Spec => []TypeOK
<1>1. IInv => TypeOK
  BY DEF IInv
<1> QED BY IInvHolds, <1>1, PTL

\* No run of a handler that finds nothing to do, and no collapsing of tasks,
\* swallows the last word: what the recorded post does not show is still to come.
THEOREM PostFollowsContract == Spec => []PostShowsContract
<1>1. IInv => PostShowsContract
  BY DEF IInv, LastWordComes, PostShowsContract, LastWord
<1> QED BY IInvHolds, <1>1, PTL

\* "A crash can't leave thread_id cleared with no queued create".
THEOREM NoContractOrphaned == Spec => []PostIsComing
<1>1. IInv => PostIsComing
  BY DEF IInv
<1> QED BY IInvHolds, <1>1, PTL

\* Re-runs, repairs and migrations leave no second post behind, but for the one
\* window in which a create was cut off.
THEOREM NoSecondPost == Spec => []OneLivePost
<1>1. IInv => OneLivePost
  BY DEF IInv
<1> QED BY IInvHolds, <1>1, PTL

\* A post made while the contract was open is locked, without its buttons, once
\* the close is through.
THEOREM ClosedPostsLocked == Spec => []OpenPostsGetLocked
<1>1. IInv => OpenPostsGetLocked
  BY DEF IInv
<1> QED BY IInvHolds, <1>1, PTL
=============================================================================
