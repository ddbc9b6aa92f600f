---------------------------- MODULE ContractPost ----------------------------
(***************************************************************************)
(* A contract's forum post: what the outbox handlers create, refresh and   *)
(* close tasks run (features/contracts/tasks.go) make of the contract on   *)
(* Discord, while the contract changes, the bot restarts, Discord calls    *)
(* fail or land unnoticed, and posts are deleted by hand.                  *)
(*                                                                         *)
(* The queue is module Outbox, for the three kinds of one contract.  A     *)
(* handler is taken apart at its Discord calls and database writes; it may *)
(* fail after any of them (MarkRetry, MarkFailed, Crash).  Transactions    *)
(* that touch the contract serialise on its row, so each of theirs is one  *)
(* step, the INSERT of its task included.                                  *)
(*                                                                         *)
(* Discord is external: a locked thread takes no edit (tasks.go:88-90),    *)
(* and an edit of a deleted one reports it.                                *)
(***************************************************************************)
EXTENDS Outbox, Sequences

CONSTANT MaxPosts   \* bound of the model: forum posts ever created

Tasks == {"create", "refresh", "close"}

ASSUME PostAssumption ==
  /\ Groups = Tasks /\ Handled = Tasks
  /\ MaxPosts \in Nat \ {0} /\ MaxTasks # 0

VARIABLES
  open,      \* contracts.status = 'open'
  thread,    \* contracts.thread_id
  stale,     \* contracts.post_version < CurrentPostVersion
  posts,     \* the forum posts, in the order they were made
  prog,      \* the Progress the running handler read
  made,      \* the post the running create made
  called,    \* the running handler made its first Discord call
  gaveUp,    \* the kinds whose last settled task was abandoned
  orphans    \* posts a create made and was interrupted before recording

contract == <<open, thread, stale>>
handler == <<prog, made, called>>
history == <<gaveUp, orphans>>
vars == <<outboxVars, contract, posts, handler, history>>

PostId == 1 .. MaxPosts
NoThread == 0

\* A card, or what a handler read, is current until the contract changes.
\* bornOpen: the contract was open when the post was made.
Post == [there : BOOLEAN, current : BOOLEAN, buttons : BOOLEAN, locked : BOOLEAN,
         bornOpen : BOOLEAN]
Progress == [open : BOOLEAN, current : BOOLEAN, thread : {NoThread} \cup PostId,
             stale : BOOLEAN]

TypeOK ==
  /\ OutboxTypeOK
  /\ open \in BOOLEAN
  /\ thread \in {NoThread} \cup DOMAIN posts /\ stale \in BOOLEAN
  /\ DOMAIN posts \in SUBSET PostId
  /\ \A t \in DOMAIN posts : posts[t] \in Post
  /\ prog \in Progress
  /\ made \in {NoThread} \cup DOMAIN posts /\ called \in BOOLEAN
  /\ gaveUp \in SUBSET Tasks /\ orphans \in SUBSET DOMAIN posts

NoProgress == [open |-> FALSE, current |-> FALSE, thread |-> NoThread, stale |-> FALSE]

\* What Create's transaction leaves: the contract's row and its create task.
JustCreated ==
  /\ rows = [i \in TaskId |->
               IF i = 1 THEN [group |-> "create", status |-> "pending",
                              attempts |-> 0, due |-> TRUE]
               ELSE NoRow]
  /\ issued = 1
  /\ thread = NoThread /\ posts = << >> /\ stale = FALSE

\* Later, with nothing in the queue (its settled tasks purged).
AtRest ==
  /\ rows = [i \in TaskId |-> NoRow]
  /\ issued = 0
  /\ thread = 1 /\ stale \in BOOLEAN
  /\ posts = << [there |-> TRUE, current |-> TRUE, buttons |-> TRUE, locked |-> FALSE,
                 bornOpen |-> TRUE] >>

Init ==
  /\ JustCreated \/ AtRest
  /\ batch = {} /\ run = Idle /\ faults = 0
  /\ open = TRUE
  /\ prog = NoProgress /\ made = NoThread /\ called = FALSE
  /\ gaveUp = {} /\ orphans = {}

-----------------------------------------------------------------------------
(* The transactions.                                                       *)

\* Mutant: no second task while one of its kind is pending.
EnqueuedOnce(g) ==
  IF HasPending(g) THEN UNCHANGED <<rows, issued>>
  ELSE issued < MaxTasks /\ rows' = Inserted(g, "pending") /\ issued' = issued + 1

\* The INSERT of a task, in a transaction that ends with this step.
Enqueued(g) ==
  /\ issued < MaxTasks
  /\ rows' = Inserted(g, "pending")
  /\ issued' = issued + 1

\* What the cards show, and what the running handler read, is now out of date.
Outdated ==
  /\ posts' = [t \in DOMAIN posts |-> [posts[t] EXCEPT !.current = FALSE]]
  /\ prog' = [prog EXCEPT !.current = FALSE]

\* Any operation of the ledger that leaves the contract open.
Change ==
  /\ open
  /\ Outdated /\ Enqueued("refresh")
  /\ UNCHANGED <<batch, run, faults, contract, made, called, history>>

\* Completion, cancellation, expiry.
Close ==
  /\ open
  /\ open' = FALSE
  /\ Outdated /\ Enqueued("close")
  /\ UNCHANGED <<batch, run, faults, thread, stale, made, called, history>>

\* The console's repair button.
Republish ==
  /\ Enqueued(IF thread = NoThread THEN "create"
              ELSE IF open THEN "refresh" ELSE "close")
  /\ UNCHANGED <<batch, run, faults, contract, posts, handler, history>>

-----------------------------------------------------------------------------
(* The worker.                                                             *)

Running == rows[run.task].group
Runs(g) == run.task # NoTask /\ ~run.landed /\ Running = g

Tick == ScanDue /\ UNCHANGED <<contract, posts, handler, history>>

Supersede(i) ==
  /\ MarkSuperseded(i) \/ SettleLost(i)
  /\ UNCHANGED <<contract, posts, handler, history>>

\* Every handler starts by reading the contract (ProgressByID).
Start(i) ==
  /\ Begin(i)
  /\ prog' = [open |-> open, current |-> TRUE, thread |-> thread, stale |-> stale]
  /\ UNCHANGED <<contract, posts, made, called, history>>

\* A handler's last effect is behind it.
Finishes == Land /\ UNCHANGED <<contract, made, called, prog, history>>

\* Mutant: a close, like a refresh, does nothing for a closed contract.
NothingOnceClosed ==
  /\ ~called
  /\ \/ Runs("create") /\ prog.thread # NoThread
     \/ Runs("refresh") /\ (prog.thread = NoThread \/ ~prog.open)
     \/ Runs("close") /\ (prog.thread = NoThread \/ ~prog.open)
  /\ Finishes /\ UNCHANGED posts

\* taskCreateThread re-delivers its outcome if there is a thread; the others do
\* nothing without one, and a refresh does nothing for a closed contract.
NothingToDo ==
  /\ ~called
  /\ \/ Runs("create") /\ prog.thread # NoThread
     \/ Runs("refresh") /\ (prog.thread = NoThread \/ ~prog.open)
     \/ Runs("close") /\ prog.thread = NoThread
  /\ Finishes /\ UNCHANGED posts

ToCreate == Runs("create") /\ prog.thread = NoThread
ToEdit == Runs("refresh") /\ prog.thread # NoThread /\ prog.open
ToClose == Runs("close") /\ prog.thread # NoThread

\* The card is rendered from what was read, with buttons, whatever the status.
CreateForumPost ==
  /\ ToCreate /\ ~called /\ Cardinality(DOMAIN posts) < MaxPosts
  /\ made' = Cardinality(DOMAIN posts) + 1
  /\ posts' = Append(posts, [there |-> TRUE, current |-> prog.current, buttons |-> TRUE,
                             locked |-> FALSE, bornOpen |-> prog.open])
  /\ called' = TRUE
  /\ UNCHANGED <<outboxVars, contract, prog, history>>

SetThreadID ==
  /\ ToCreate /\ called
  /\ thread' = made /\ stale' = FALSE
  /\ Land
  /\ UNCHANGED <<open, posts, handler, history>>

\* A post of an older format is replaced, not edited.
Migrates == (ToEdit \/ ToClose) /\ prog.stale

\* Mutant: the old post is left to itself.
KeepPost ==
  /\ Migrates /\ ~called
  /\ called' = TRUE
  /\ UNCHANGED <<outboxVars, contract, posts, prog, made, history>>

\* A post that is already gone is as good as deleted.
DeletePost ==
  /\ Migrates /\ ~called
  /\ posts' = [posts EXCEPT ![prog.thread].there = FALSE]
  /\ called' = TRUE
  /\ UNCHANGED <<outboxVars, contract, prog, made, history>>

\* What an edit makes of the post; it keeps its buttons.
Rendered == [posts EXCEPT ![prog.thread].current = prog.current]

EditPost ==
  /\ ToEdit /\ ~prog.stale /\ ~called
  /\ posts[prog.thread].there /\ ~posts[prog.thread].locked
  /\ posts' = Rendered
  /\ Finishes

FindsPostDeleted ==
  /\ ToEdit /\ ~prog.stale /\ ~called
  /\ ~posts[prog.thread].there
  /\ called' = TRUE
  /\ UNCHANGED <<outboxVars, contract, posts, prog, made, history>>

\* Mutant: the thread id is cleared without a create to follow.
ClearThread ==
  /\ called /\ (ToEdit \/ Migrates)
  /\ thread' = NoThread
  /\ Land
  /\ UNCHANGED <<open, stale, posts, handler, history>>

\* One transaction clears the thread id and enqueues a create.
RecreatePost ==
  /\ called /\ (ToEdit \/ Migrates)
  /\ thread' = NoThread
  /\ Enqueued("create")
  /\ run' = [run EXCEPT !.landed = TRUE]
  /\ UNCHANGED <<batch, faults, open, stale, posts, handler, history>>

\* ClosePost edits the card, without its buttons, and then archives and locks.
FinalCard ==
  /\ ToClose /\ ~prog.stale /\ ~called
  /\ posts[prog.thread].there /\ ~posts[prog.thread].locked
  /\ posts' = [posts EXCEPT ![prog.thread].current = prog.current,
                            ![prog.thread].buttons = FALSE]
  /\ called' = TRUE
  /\ UNCHANGED <<outboxVars, contract, prog, made, history>>

LockPost ==
  /\ ToClose /\ ~prog.stale
  /\ called /\ posts[prog.thread].there
  /\ posts' = [posts EXCEPT ![prog.thread].locked = TRUE]
  /\ Finishes

\* A post deleted before either call: nothing left to close.
CloseFindsNothing ==
  /\ ToClose /\ ~prog.stale /\ ~posts[prog.thread].there
  /\ Finishes /\ UNCHANGED posts

HandlerStep ==
  \/ NothingToDo
  \/ CreateForumPost \/ SetThreadID
  \/ DeletePost \/ EditPost \/ FindsPostDeleted \/ RecreatePost
  \/ FinalCard \/ LockPost \/ CloseFindsNothing

\* The handler is over, whatever its outcome.
Over ==
  /\ prog' = NoProgress /\ made' = NoThread /\ called' = FALSE
  /\ orphans' = IF made = thread THEN orphans ELSE orphans \cup ({made} \ {NoThread})

Succeed ==
  /\ MarkDone
  /\ gaveUp' = gaveUp \ {Running}
  /\ Over /\ UNCHANGED <<contract, posts>>

Retry == MarkRetry /\ Over /\ UNCHANGED <<contract, posts, gaveUp>>

Abandon ==
  /\ MarkFailed
  /\ gaveUp' = gaveUp \cup {Running}
  /\ Over /\ UNCHANGED <<contract, posts>>

OutcomeLost == MarkLost /\ Over /\ UNCHANGED <<contract, posts, gaveUp>>

Restart == Crash /\ Over /\ UNCHANGED <<contract, posts, gaveUp>>

\* A release with a higher CurrentPostVersion takes over.
Upgrade ==
  /\ Crash /\ Over
  /\ stale' = TRUE
  /\ UNCHANGED <<open, thread, posts, gaveUp>>

BackoffOver(i) == BackoffElapses(i) /\ UNCHANGED <<contract, posts, handler, history>>

-----------------------------------------------------------------------------

\* Someone deletes a post on Discord (counted with the faults).
DeletedByHand(t) ==
  /\ faults < MaxFaults
  /\ posts[t].there
  /\ faults' = faults + 1
  /\ posts' = [posts EXCEPT ![t].there = FALSE]
  /\ UNCHANGED <<rows, issued, batch, run, contract, handler, history>>

WorkerStep ==
  \/ Tick
  \/ \E i \in TaskId : Supersede(i) \/ Start(i)
  \/ HandlerStep
  \/ Succeed \/ Retry \/ Abandon \/ OutcomeLost

Next ==
  \/ Change \/ Close \/ Republish
  \/ WorkerStep
  \/ \E i \in TaskId : BackoffOver(i)
  \/ Restart \/ Upgrade
  \/ \E t \in DOMAIN posts : DeletedByHand(t)

Spec == Init /\ [][Next]_vars

\* As for the outbox: it keeps polling, handlers end, next_try_at arrives.
Fairness ==
  /\ WF_vars(WorkerStep)
  /\ \A i \in TaskId : WF_vars(BackoffOver(i))

FairSpec == Spec /\ Fairness

-----------------------------------------------------------------------------
(* Properties.                                                             *)

Shown == thread # NoThread /\ posts[thread].there
GivenUp(g) == g \in gaveUp

\* The recorded post shows the contract as it is, or an edit of it is still to
\* come or was given up on.  The no-op branches of the handlers (no thread yet,
\* contract closed) must not swallow the last word.
PostShowsContract ==
  Shown /\ ~posts[thread].current =>
    \E g \in {"refresh", "close"} : HasPending(g) \/ GivenUp(g)

\* "a crash can't leave thread_id cleared with no queued create (orphaning the
\* contract with no post)" (postgres.go:1064-1069).
PostIsComing == thread = NoThread => HasPending("create") \/ GivenUp("create")

\* Every post on the forum is the recorded one, the one just made, or the one a
\* create left behind in the window tasks.go:76-78 admits: no re-run task, no
\* repair and no migration leaves a second card with live buttons.
OneLivePost ==
  \A t \in DOMAIN posts : posts[t].there => t \in {thread, made} \cup orphans

\* A post rendered while its contract was open does not outlive it: once the
\* close task is through, it has lost its buttons and is locked.
OpenPostsGetLocked ==
  ~open /\ Shown /\ posts[thread].bornOpen =>
    \/ HasPending("close") \/ GivenUp("close")
    \/ posts[thread].locked /\ ~posts[thread].buttons

\* In the end the contract has a post and it shows the contract's last state,
\* unless a task was given up on or the post was deleted by hand.
PostConverges ==
  <>[](\/ gaveUp # {}
       \/ thread # NoThread /\ (posts[thread].there => posts[thread].current))

\* "closed ones show their end state and drop the buttons" (embed.go:36-37):
\* so, at least, once nothing is left to run and nothing was given up on.
ClosedDropsButtons ==
  ~open /\ Shown /\ gaveUp = {} /\ ~(\E g \in Tasks : HasPending(g)) =>
    ~posts[thread].buttons
=============================================================================
