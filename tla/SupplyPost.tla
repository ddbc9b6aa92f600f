----------------------------- MODULE SupplyPost -----------------------------
(***************************************************************************)
(* A supply request with its forum post: the panel's buttons and forms     *)
(* (features/supply/panel.go), the owner's console (modals.go), and the    *)
(* outbox handlers create, refresh and close (tasks.go), which show on     *)
(* Discord what the ledger (SupplyRequest) has become.                     *)
(*                                                                         *)
(* The queue is what module Outbox makes of the tasks of one request: the  *)
(* kinds with at least one to run, in any order (backoff), one at a time.  *)
(* A task that fails, or is cut off, is back in the queue or is given up   *)
(* on; how many more of its kind wait (older ones backed off, one whose    *)
(* outcome was not recorded) is not counted: there may be some.            *)
(***************************************************************************)
EXTENDS SupplyRequest, Sequences

\* The bounds of the model.  A scope limits the items listed at a time, the forum
\* posts ever created, and the faults: failed or lost runs, posts deleted by hand.
CONSTANT Scopes

ASSUME PostAssumption == Scopes \subseteq [items : Nat, posts : Nat, faults : Nat]

VARIABLES
  scope,    \* the bounds, fixed at Init
  form,     \* the modal each member has open on the panel
  queue,    \* the kinds with tasks to run, one or more
  run,      \* the kind being run
  prog,     \* the Progress the running handler read
  made,     \* the post the running handler created
  called,   \* the running handler has made its first Discord call
  thread,   \* supply_requests.thread_id
  posts,    \* the forum posts, in the order they were made
  gaveUp,   \* the kinds whose last settled task was abandoned
  faults    \* counts towards scope.faults

handler == <<run, prog, made, called>>
forum == <<thread, posts>>
vars == <<scope, request, form, queue, handler, forum, gaveUp, faults>>

Tasks == {"create", "refresh", "close"}
Idle == "idle"
NoThread == 0
PostId == Nat \ {NoThread}

\* A post is live (with its buttons), final (without), locked, or gone.  It is
\* current until the request changes; bornOpen when rendered from an open one.
Post == [state : {"live", "final", "locked", "gone"}, current : BOOLEAN,
         bornOpen : BOOLEAN]
Progress == [open : BOOLEAN, current : BOOLEAN, thread : {NoThread} \cup PostId]
Form == [op : PanelOps, post : PostId, shown : SUBSET Items]
NoForm == [op |-> "none"]
Gone == [state |-> "gone", current |-> FALSE, bornOpen |-> FALSE]
NoProgress == [open |-> FALSE, current |-> FALSE, thread |-> NoThread]

TypeOK ==
  /\ RequestTypeOK
  /\ form \in [Users -> Form \cup {NoForm}]
  /\ queue \in SUBSET Tasks /\ run \in Tasks \cup {Idle}
  /\ prog \in Progress
  /\ posts \in Seq(Post)
  /\ {made, thread} \subseteq {NoThread} \cup DOMAIN posts
  /\ called \in BOOLEAN
  /\ gaveUp \in SUBSET Tasks
  /\ faults \in Nat

\* Create's transaction leaves the request and its create task.
Init ==
  /\ scope \in Scopes
  /\ RequestInit
  /\ form = [u \in Users |-> NoForm]
  /\ queue = {"create"} /\ run = Idle
  /\ prog = NoProgress /\ made = NoThread /\ called = FALSE
  /\ thread = NoThread /\ posts = << >>
  /\ gaveUp = {} /\ faults = 0

-----------------------------------------------------------------------------
(* Transactions on the request: the cards, and what the running handler    *)
(* read, are out of date, and a task to say so is committed with them.     *)

Outdated ==
  /\ posts' = [t \in DOMAIN posts |-> [posts[t] EXCEPT !.current = FALSE]]
  /\ prog' = [prog EXCEPT !.current = FALSE]

\* Mutant: the refresh is enqueued only if no task of the request is waiting.
RefreshedOnce ==
  /\ Outdated
  /\ queue' = IF queue = {} THEN {"refresh"} ELSE queue
  /\ UNCHANGED <<run, made, called, thread, gaveUp, faults>>

\* Enqueues a refresh, or, when the transaction closed the request, a close.
Announced ==
  /\ Outdated
  /\ queue' = queue \cup {IF status' = "open" THEN "refresh" ELSE "close"}
  /\ UNCHANGED <<run, made, called, thread, gaveUp, faults>>

\* The owner's forms carry nothing but ids: what is read to fill or confirm
\* them is not used by the transaction.
OwnerEditsDetails == UpdateDetails

OwnerEditsItems ==
  \/ Cardinality(Listed) < scope.items /\ \E i \in Items, q \in Qty : AddItem(i, q)
  \/ \E i \in Items, q \in Qty : UpdateItemQty(i, q)
  \/ \E i \in Items : RemoveItem(i)

Console ==
  /\ OwnerEditsDetails \/ OwnerEditsItems \/ Cancel
  /\ Announced
  /\ UNCHANGED form

Republish ==
  /\ status = "open"
  /\ queue' = queue \cup {IF thread = NoThread THEN "create" ELSE "refresh"}
  /\ UNCHANGED <<request, form, handler, forum, gaveUp, faults>>

-----------------------------------------------------------------------------
(* The public panel.                                                       *)

\* Only the recorded thread resolves to the request.
PressButton(u, op) ==
  /\ thread # NoThread /\ posts[thread].state = "live"
  /\ form[u] = NoForm
  /\ op = "reserve" => status = "open"
  /\ Eligible(op, u) # {}
  /\ form' = [form EXCEPT ![u] = [op |-> op, post |-> thread, shown |-> Eligible(op, u)]]
  /\ UNCHANGED <<request, queue, handler, forum, gaveUp, faults>>

\* A submitted form: one transaction on whatever the request is by now.
Applied(u, i) ==
  /\ form[u].post = thread
  /\ \E q \in Qty : Operate(form[u].op, i, u, q)
  /\ Announced
  /\ form' = [form EXCEPT ![u] = NoForm]

SubmitPicked(u) ==
  /\ form[u] # NoForm
  /\ \E i \in form[u].shown : Applied(u, i)

\* defaultedItem: the one item that is eligible by now, if there is just one.
Defaulted(u) ==
  {i \in Eligible(form[u].op, u) : Eligible(form[u].op, u) = {i}}

\* The select of a single item comes back empty when it was left as it was.
SubmitUntouched(u) ==
  /\ form[u] # NoForm
  /\ Cardinality(form[u].shown) = 1
  /\ \E i \in Defaulted(u) : Applied(u, i)

\* Dismissed, mistyped, or refused (ErrNotFound, ErrClosed, ErrOverCap, ...).
FormEnds(u) ==
  /\ form[u] # NoForm
  /\ form' = [form EXCEPT ![u] = NoForm]
  /\ UNCHANGED <<request, queue, handler, forum, gaveUp, faults>>

-----------------------------------------------------------------------------
(* The worker.  A handler reads the request first (ProgressByID: its row    *)
(* before the items, so a change between the two makes the read outdated).  *)
(* Starting the newest task of a kind retires those that are due with it, but *)
(* not one that waits out the backoff of a run that failed before.           *)

Start(k) ==
  /\ run = Idle /\ k \in queue
  /\ run' = k /\ queue' \in {queue \ {k}} \cup {q \in {queue} : faults > 0}
  /\ prog' = [open |-> status = "open", current |-> TRUE, thread |-> thread]
  /\ UNCHANGED <<request, form, made, called, forum, gaveUp, faults>>

Over == run' = Idle /\ prog' = NoProgress /\ made' = NoThread /\ called' = FALSE

Succeeds ==
  /\ Over
  /\ gaveUp' = gaveUp \ {run}
  /\ UNCHANGED <<request, form, faults>>

\* taskCreate finds a thread; the others do nothing without one, and a refresh
\* does nothing for a closed request, whose close task has the last word.
NothingToDo ==
  /\ CASE run = "create" -> prog.thread # NoThread
       [] run = "refresh" -> prog.thread = NoThread \/ ~prog.open
       [] run = "close" -> prog.thread = NoThread
       [] OTHER -> FALSE
  /\ Succeeds /\ UNCHANGED <<queue, forum>>

ToCreate == run = "create" /\ prog.thread = NoThread
ToEdit == run = "refresh" /\ prog.thread # NoThread /\ prog.open
ToClose == run = "close" /\ prog.thread # NoThread

\* With buttons, whatever the status.
CreateForumPost ==
  /\ ToCreate /\ ~called /\ Len(posts) < scope.posts
  /\ posts' = Append(posts, [state |-> "live", current |-> prog.current,
                             bornOpen |-> prog.open])
  /\ made' = Len(posts') /\ called' = TRUE
  /\ UNCHANGED <<request, form, queue, run, prog, thread, gaveUp, faults>>

SetThreadID ==
  /\ ToCreate /\ called
  /\ thread' = made
  /\ Succeeds /\ UNCHANGED <<queue, posts>>

\* The thread could not be recorded, or it was and the answer is lost: its post
\* is deleted before the retry.
UndoPost ==
  /\ ToCreate /\ called
  /\ faults < scope.faults /\ faults' = faults + 1
  /\ thread' \in {thread, made}
  /\ posts' = [posts EXCEPT ![made] = Gone]
  /\ queue' = queue \cup {run}
  /\ Over /\ UNCHANGED <<request, form, gaveUp>>

\* A locked post takes no edit.
EditPost ==
  /\ ToEdit /\ posts[prog.thread].state \in {"live", "final"}
  /\ posts' = [posts EXCEPT ![prog.thread].state = "live",
                            ![prog.thread].current = prog.current]
  /\ Succeeds /\ UNCHANGED <<queue, thread>>

\* One transaction clears the thread id and enqueues a create, whatever the
\* request's status is by now.
RecreatePost ==
  /\ ToEdit /\ posts[prog.thread].state = "gone"
  /\ thread' = NoThread /\ queue' = queue \cup {"create"}
  /\ Succeeds /\ UNCHANGED posts

\* ClosePost: the card without its buttons, and then archived and locked.
FinalCard ==
  /\ ToClose /\ ~called /\ posts[prog.thread].state \in {"live", "final"}
  /\ posts' = [posts EXCEPT ![prog.thread].state = "final",
                            ![prog.thread].current = prog.current]
  /\ called' = TRUE
  /\ UNCHANGED <<request, form, queue, run, prog, made, thread, gaveUp, faults>>

LockPost ==
  /\ ToClose /\ called /\ posts[prog.thread].state = "final"
  /\ posts' = [posts EXCEPT ![prog.thread].state = "locked"]
  /\ Succeeds /\ UNCHANGED <<queue, thread>>

\* Deleted, or locked by an earlier run of the same task.
NothingToClose ==
  /\ ToClose /\ posts[prog.thread].state \in {"gone", "locked"}
  /\ Succeeds /\ UNCHANGED <<queue, forum>>

HandlerStep ==
  \/ NothingToDo
  \/ CreateForumPost \/ SetThreadID
  \/ EditPost \/ RecreatePost
  \/ FinalCard \/ LockPost \/ NothingToClose

\* An error, a crash, or an outcome that was not recorded: run again.
RunAgain ==
  /\ run # Idle
  /\ faults < scope.faults /\ faults' = faults + 1
  /\ queue' = queue \cup {run}
  /\ Over /\ UNCHANGED <<request, form, forum, gaveUp>>

\* A permanent error (no forum, no access), or one error too many.
Abandon ==
  /\ run # Idle
  /\ faults < scope.faults /\ faults' = faults + 1
  /\ gaveUp' = gaveUp \cup {run}
  /\ Over /\ UNCHANGED <<request, form, queue, forum>>

DeletedByHand(t) ==
  /\ faults < scope.faults /\ faults' = faults + 1
  /\ posts[t].state # "gone"
  /\ posts' = [posts EXCEPT ![t] = Gone]
  /\ UNCHANGED <<request, form, queue, handler, thread, gaveUp>>

-----------------------------------------------------------------------------

WorkerStep == HandlerStep \/ \E k \in Tasks : Start(k)

Next ==
  /\ UNCHANGED scope
  /\ \/ Console \/ Republish
     \/ \E u \in Users :
          \/ \E op \in PanelOps : PressButton(u, op)
          \/ SubmitPicked(u) \/ SubmitUntouched(u) \/ FormEnds(u)
     \/ WorkerStep
     \/ UndoPost \/ RunAgain \/ Abandon
     \/ \E t \in DOMAIN posts : DeletedByHand(t)

Spec == Init /\ [][Next]_vars

-----------------------------------------------------------------------------
(* Properties.                                                             *)

Coming(k) == k \in queue \/ run = k \/ k \in gaveUp
Shown == thread # NoThread /\ posts[thread].state # "gone"

\* The post follows the request through every interleaving of its tasks: an
\* outdated card has a task to come, a request without a post a create, and a
\* post made while the request was open is locked once it has been closed.
PostFollows ==
  /\ Shown /\ ~posts[thread].current => Coming("refresh") \/ Coming("close")
  /\ thread = NoThread => Coming("create")
  /\ status # "open" /\ Shown /\ posts[thread].bornOpen =>
       posts[thread].state = "locked" \/ Coming("close")

\* An open request in which nothing is short any more got there by an edit of
\* the owner, which never completes it (and then no member can act on it, only
\* the owner): the delivery that meets the last need always completes.
CompletesWhenDelivered ==
  [][status' = "open" /\ Fulfilled' /\ ~Fulfilled => required' # required]_vars
=============================================================================
